--------------------------- MODULE ExtensionProofs ---------------------------
(***************************************************************************)
(* The browser extension, for any number of clicks, logins and faults: the *)
(* stored refresh token is one the provider accepts once no refresh is     *)
(* under way, and a tooltip's button says what became of its word.         *)
(***************************************************************************)
EXTENDS Extension, FiniteSetTheorems, TLAPS

USE AuthAssumption, ExtensionAssumption

(* Refresh tokens are numbered as they are given out.                      *)
AuthShape ==
    /\ AuthTypeOK
    /\ stored \in (1..issued) \cup {NoToken}
    /\ held \in [Clicks -> (1..issued) \cup {NoToken}]
    /\ \A c \in Clicks : pc[c] = "sending" => held[c] = sent[c]

(* What a click has received is accepted until it is stored: under         *)
(* rotation nobody else has it, so nobody else can use it up.              *)
Fresh(c) ==
    /\ held[c] \in valid
    /\ provider = "rotates" =>
          /\ held[c] # stored
          /\ \A d \in Clicks \ {c} :
                pc[d] \in {"sending", "received"} => held[d] # held[c]

(* A stored token that is no longer accepted was retired by a rotating     *)
(* provider, for a click that had sent this very token and is about to     *)
(* replace or to remove it, or was stopped before it could.                *)
Retired(c) == pc[c] \in {"received", "refused", "killed"} /\ sent[c] = stored

AuthInv ==
    /\ AuthShape
    /\ \A c \in Clicks : pc[c] = "received" => Fresh(c)
    /\ \/ stored \in valid \cup {NoToken}
       \/ provider = "rotates" /\ \E c \in Clicks : Retired(c)

(* The presses of a tooltip's button.                                      *)
Pressed(l) == {p \in Presses : tip[p] = l}

(* Only the tooltip of a settled lookup can be pressed, and a press that   *)
(* has succeeded has reached the API.                                      *)
PressInv ==
    /\ shown # NoTip => req[shown] = "settled"
    /\ \A p \in Presses :
          /\ req[p] = "idle" => tip[p] = NoTip
          /\ tip[p] # NoTip => req[tip[p]] = "settled"
          /\ req[p] = "ok" => p \in reached

(* It is pressed at most once more than it has shown an error, and not     *)
(* even that often while it is ready.                                      *)
CountInv ==
    \A l \in Menu :
       /\ button[l] = "saved" => SavedFrom(l) # {}
       /\ IsFiniteSet(Pressed(l))
       /\ Cardinality(Pressed(l)) <= 1 + told[l]
       /\ button[l] = "ready" => Cardinality(Pressed(l)) <= told[l]

(* TypeOK without the tokens.                                              *)
PageTyped ==
    /\ page \in BOOLEAN
    /\ shown \in Menu \cup {NoTip}
    /\ button \in [Menu -> {"none", "ready", "busy", "saved"}]
    /\ told \in [Menu -> Nat]
    /\ timers \subseteq Menu
    /\ req \in [Clicks -> {"idle", "clicked", "ok", "failed", "settled", "lost", "cut"}]
    /\ tip \in [Presses -> Menu \cup {NoTip}]
    /\ reached \subseteq Clicks /\ saving \subseteq Menu

ButtonInv == PageTyped /\ PressInv /\ CountInv

-----------------------------------------------------------------------------
(* An accepted token is a number that was given out.                       *)
LEMMA ValidTokens ==
    ASSUME AuthInv
    PROVE  /\ issued \in Nat /\ issued + 1 \in Nat
           /\ \A t \in valid : t \in 1..issued /\ t # NoToken /\ t # issued + 1
           /\ \A c \in Clicks : held[c] # issued + 1
           /\ \A t \in (1..issued) \cup {NoToken} : t \in (1..(issued + 1)) \cup {NoToken}
           /\ stored # issued + 1
<1>1. issued \in Nat /\ valid \subseteq 1..issued /\ NoToken \notin Nat
      /\ stored \in (1..issued) \cup {NoToken}
      /\ \A c \in Clicks : held[c] \in (1..issued) \cup {NoToken}
  BY DEF AuthInv, AuthShape, AuthTypeOK
<1> QED BY <1>1

LEMMA AuthBegins == AuthInit => AuthInv
<1> SUFFICES ASSUME AuthInit PROVE AuthInv
  OBVIOUS
<1>1. AuthTypeOK
  <2>1. held \in [Clicks -> Tokens] /\ sent \in [Clicks -> Tokens] /\ stored \in Tokens
    BY DEF AuthInit, Tokens
  <2>2. valid \subseteq 1..issued /\ issued \in Nat
    BY DEF AuthInit
  <2> QED BY <2>1, <2>2 DEF AuthInit, AuthTypeOK
<1>2. AuthShape
  BY <1>1 DEF AuthInit, AuthShape
<1> QED BY <1>2 DEF AuthInit, AuthInv

LEMMA ReadKeeps ==
    ASSUME AuthInv, NEW c \in Clicks, ReadTokens(c)
    PROVE  AuthInv'
<1>1. /\ pc[c] = "idle" /\ pc' = [pc EXCEPT ![c] = pc'[c]]
      /\ pc'[c] \in {"authorized", "sending", "anonymous"}
      /\ held' = [held EXCEPT ![c] = held'[c]] /\ sent' = [sent EXCEPT ![c] = held'[c]]
      /\ held'[c] \in {stored, NoToken} /\ (pc'[c] = "sending" => held'[c] = stored)
      /\ UNCHANGED <<provider, access, stored, endpoint, old, valid, issued, logins, faults>>
  BY DEF AuthInv, AuthShape, AuthTypeOK, ReadTokens
<1>2. AuthShape'
  BY <1>1 DEF AuthInv, AuthShape, AuthTypeOK, Tokens
<1>3. \A d \in Clicks : pc'[d] = "received" => Fresh(d)'
  BY <1>1 DEF AuthInv, AuthShape, AuthTypeOK, Fresh
<1>4. \A d \in Clicks : Retired(d) => Retired(d)'
  BY <1>1 DEF AuthInv, AuthShape, AuthTypeOK, Retired
<1> QED BY <1>1, <1>2, <1>3, <1>4 DEF AuthInv

LEMMA GrantKeeps ==
    ASSUME AuthInv, NEW c \in Clicks, Grant(c)
    PROVE  AuthInv'
<1>1. /\ pc[c] = "sending" /\ held[c] \in valid /\ pc' = [pc EXCEPT ![c] = "received"]
      /\ UNCHANGED <<provider, access, stored, endpoint, old, sent, logins, faults>>
      /\ IF provider = "rotates"
         THEN /\ issued' = issued + 1
              /\ valid' = (valid \ {held[c]}) \cup {issued + 1}
              /\ held' = [held EXCEPT ![c] = issued + 1]
         ELSE UNCHANGED <<issued, valid, held>>
  BY DEF Grant
<1>2. AuthShape'
  <2>1. CASE provider = "rotates"
    <3>1. valid' \subseteq 1..issued' /\ issued' \in Nat
      BY <1>1, <2>1, ValidTokens
    <3>2. /\ stored' \in (1..issued') \cup {NoToken}
          /\ held' \in [Clicks -> (1..issued') \cup {NoToken}]
      BY <1>1, <2>1, ValidTokens DEF AuthInv, AuthShape
    <3>3. held' \in [Clicks -> Tokens] /\ stored' \in Tokens
      BY <3>1, <3>2 DEF Tokens
    <3>4. \A d \in Clicks : pc'[d] = "sending" => held'[d] = sent'[d]
      BY <1>1, <2>1 DEF AuthInv, AuthShape, AuthTypeOK
    <3> QED BY <1>1, <3>1, <3>2, <3>3, <3>4 DEF AuthInv, AuthShape, AuthTypeOK
  <2>2. CASE provider # "rotates"
    BY <1>1, <2>2 DEF AuthInv, AuthShape, AuthTypeOK
  <2> QED BY <2>1, <2>2
<1>3. \A d \in Clicks : pc'[d] = "received" => Fresh(d)'
  BY <1>1 DEF AuthInv, AuthShape, AuthTypeOK, Fresh
<1>4. \A d \in Clicks : Retired(d) => Retired(d)'
  BY <1>1 DEF AuthInv, AuthShape, AuthTypeOK, Retired
<1>5. CASE provider = "rotates" /\ stored = held[c]
  <2>1. Retired(c)'
    BY <1>1, <1>5 DEF AuthInv, AuthShape, AuthTypeOK, Retired
  <2> QED BY <1>1, <1>2, <1>3, <1>5, <2>1 DEF AuthInv
<1>6. CASE ~(provider = "rotates" /\ stored = held[c])
  BY <1>1, <1>2, <1>3, <1>4, <1>6 DEF AuthInv
<1> QED BY <1>5, <1>6

LEMMA RefuseKeeps ==
    ASSUME AuthInv, NEW c \in Clicks, Refuse(c)
    PROVE  AuthInv'
<1>1. /\ pc[c] = "sending" /\ pc' = [pc EXCEPT ![c] = "refused"]
      /\ \/ UNCHANGED <<valid, faults>>
         \/ /\ faults' = faults + 1
            /\ \/ UNCHANGED valid
               \/ provider = "rotates" /\ valid' = valid \ {held[c]}
      /\ UNCHANGED <<provider, access, stored, endpoint, old, issued, sent, held, logins>>
  BY DEF Refuse
<1>2. AuthShape'
  <2>1. valid' \subseteq valid /\ faults' \in Nat
    BY <1>1 DEF AuthInv, AuthShape, AuthTypeOK
  <2> QED BY <1>1, <2>1 DEF AuthInv, AuthShape, AuthTypeOK
<1>3. \A d \in Clicks : pc'[d] = "received" => Fresh(d)'
  BY <1>1 DEF AuthInv, AuthShape, AuthTypeOK, Fresh
<1>4. \A d \in Clicks : Retired(d) => Retired(d)'
  BY <1>1 DEF AuthInv, AuthShape, AuthTypeOK, Retired
<1>5. CASE provider = "rotates" /\ stored = held[c]
  <2>1. Retired(c)'
    BY <1>1, <1>5 DEF AuthInv, AuthShape, AuthTypeOK, Retired
  <2> QED BY <1>1, <1>2, <1>3, <1>5, <2>1 DEF AuthInv
<1>6. CASE ~(provider = "rotates" /\ stored = held[c])
  BY <1>1, <1>2, <1>3, <1>4, <1>6 DEF AuthInv
<1> QED BY <1>5, <1>6

LEMMA StoreKeeps ==
    ASSUME AuthInv, NEW c \in Clicks, StoreTokens(c)
    PROVE  AuthInv'
<1>1. /\ pc[c] = "received" /\ pc' = [pc EXCEPT ![c] = "authorized"]
      /\ access' = TRUE /\ old' = FALSE /\ stored' = held[c]
      /\ UNCHANGED <<provider, endpoint, valid, issued, sent, held, logins, faults>>
  BY DEF StoreTokens, Received
<1>2. held[c] \in valid
  BY <1>1 DEF AuthInv, Fresh
<1>3. AuthShape'
  BY <1>1, <1>2 DEF AuthInv, AuthShape, AuthTypeOK, Tokens
<1>4. \A d \in Clicks : pc'[d] = "received" => Fresh(d)'
  BY <1>1 DEF AuthInv, AuthShape, AuthTypeOK, Fresh
<1> QED BY <1>1, <1>2, <1>3, <1>4 DEF AuthInv

LEMMA ClearKeeps ==
    ASSUME AuthInv, NEW c \in Clicks, ClearTokens(c)
    PROVE  AuthInv'
<1>1. /\ pc[c] = "refused" /\ pc' = [pc EXCEPT ![c] = "anonymous"]
      /\ access' = FALSE /\ old' = FALSE /\ stored' = NoToken
      /\ UNCHANGED <<provider, endpoint, valid, issued, sent, held, logins, faults>>
  BY DEF ClearTokens
<1>2. AuthShape'
  BY <1>1 DEF AuthInv, AuthShape, AuthTypeOK, Tokens
<1>3. \A d \in Clicks : pc'[d] = "received" => Fresh(d)'
  <2> SUFFICES ASSUME NEW d \in Clicks, pc'[d] = "received" PROVE Fresh(d)'
    OBVIOUS
  <2>1. pc[d] = "received" /\ Fresh(d) /\ held[d] # NoToken /\ held[d] # issued + 1
    BY <1>1, ValidTokens DEF AuthInv, AuthShape, AuthTypeOK, Fresh
  <2> QED BY <1>1, <2>1 DEF Fresh
<1> QED BY <1>1, <1>2, <1>3 DEF AuthInv

LEMMA LoginKeeps ==
    ASSUME AuthInv, Login
    PROVE  AuthInv'
<1>1. /\ access' = TRUE /\ endpoint' = TRUE /\ old' = FALSE /\ logins' = logins + 1
      /\ \/ stored' = NoToken /\ UNCHANGED <<issued, valid>>
         \/ /\ stored' = issued + 1 /\ issued' = issued + 1
            /\ valid' = valid \cup {issued + 1}
      /\ UNCHANGED <<provider, pc, sent, held, faults>>
  BY DEF Login
<1>2. AuthShape'
  <2>1. valid' \subseteq 1..issued' /\ issued' \in Nat
    <3>1. CASE UNCHANGED <<issued, valid>>
      BY <3>1, ValidTokens
    <3>2. CASE issued' = issued + 1 /\ valid' = valid \cup {issued + 1}
      BY <3>2, ValidTokens
    <3> QED BY <1>1, <3>1, <3>2
  <2>2. /\ stored' \in (1..issued') \cup {NoToken}
        /\ held' \in [Clicks -> (1..issued') \cup {NoToken}]
    BY <1>1, ValidTokens DEF AuthInv, AuthShape
  <2>3. held' \in [Clicks -> Tokens] /\ stored' \in Tokens
    BY <2>1, <2>2 DEF Tokens
  <2>4. provider' \in {"none", "keeps", "rotates"} /\ logins' \in Nat /\ faults' \in Nat
        /\ sent' \in [Clicks -> Tokens]
        /\ pc' \in [Clicks -> {"idle", "sending", "received", "refused",
                               "authorized", "anonymous", "killed"}]
        /\ \A c \in Clicks : pc'[c] = "sending" => held'[c] = sent'[c]
    BY <1>1 DEF AuthInv, AuthShape, AuthTypeOK
  <2>5. access' = TRUE /\ endpoint' = TRUE /\ old' = FALSE
    BY <1>1
  <2>6. access' \in BOOLEAN /\ endpoint' \in BOOLEAN /\ old' \in BOOLEAN
        /\ (old' \/ stored' # NoToken => access')
    BY <2>5
  <2>7. AuthTypeOK'
    BY <2>1, <2>3, <2>4, <2>6 DEF AuthTypeOK
  <2> QED BY <2>2, <2>4, <2>7 DEF AuthShape
<1>3. \A d \in Clicks : pc'[d] = "received" => Fresh(d)'
  <2> SUFFICES ASSUME NEW d \in Clicks, pc'[d] = "received" PROVE Fresh(d)'
    OBVIOUS
  <2>1. pc[d] = "received" /\ Fresh(d) /\ held[d] # NoToken /\ held[d] # issued + 1
    BY <1>1, ValidTokens DEF AuthInv, AuthShape, AuthTypeOK, Fresh
  <2> QED BY <1>1, <2>1 DEF Fresh
<1> QED BY <1>1, <1>2, <1>3 DEF AuthInv

LEMMA LogoutKeeps ==
    ASSUME AuthInv, Logout
    PROVE  AuthInv'
<1>1. AuthShape'
  BY DEF AuthInv, AuthShape, AuthTypeOK, Tokens, Logout
<1>2. \A d \in Clicks : pc'[d] = "received" => Fresh(d)'
  <2> SUFFICES ASSUME NEW d \in Clicks, pc'[d] = "received" PROVE Fresh(d)'
    OBVIOUS
  <2>1. pc[d] = "received" /\ Fresh(d) /\ held[d] # NoToken /\ held[d] # issued + 1
    BY ValidTokens DEF AuthInv, AuthShape, AuthTypeOK, Fresh, Logout
  <2> QED BY <2>1 DEF Fresh, Logout
<1> QED BY <1>1, <1>2 DEF AuthInv, Logout

(* Time, a fault elsewhere, or nothing at all.                             *)
LEMMA OldKeeps ==
    ASSUME AuthInv, old' \in BOOLEAN, old' => access, faults' \in Nat,
           UNCHANGED <<provider, access, stored, endpoint, valid, issued, pc, sent, held, logins>>
    PROVE  AuthInv'
<1>1. AuthShape'
  BY DEF AuthInv, AuthShape, AuthTypeOK, Tokens
<1>2. \A d \in Clicks : pc'[d] = "received" => Fresh(d)'
  BY DEF AuthInv, AuthShape, AuthTypeOK, Fresh
<1> QED BY <1>1, <1>2 DEF AuthInv, Retired

(* Under rotation a stopped click can only retire a token that was read    *)
(* from the storage, and by this click itself.                             *)
LEMMA StopKeeps ==
    ASSUME AuthInv, NEW stopped \in SUBSET Clicks, StopClicks(stopped)
    PROVE  AuthInv'
<1>1. PICK arrived \in SUBSET {c \in stopped : pc[c] = "sending"} :
         valid' = IF provider = "rotates" THEN valid \ {held[c] : c \in arrived} ELSE valid
  BY DEF StopClicks
<1>2. /\ faults' = faults + 1
      /\ \A c \in Clicks : pc'[c] = IF c \in stopped THEN "killed" ELSE pc[c]
      /\ pc' = [c \in Clicks |-> IF c \in stopped THEN "killed" ELSE pc[c]]
      /\ UNCHANGED <<provider, access, stored, endpoint, old, issued, sent, held, logins>>
  BY DEF StopClicks
<1>3. valid' \subseteq valid /\ (provider # "rotates" => valid' = valid)
  BY <1>1
<1>4. AuthShape'
  <2>1. valid' \subseteq 1..issued' /\ issued' \in Nat /\ faults' \in Nat
    BY <1>2, <1>3 DEF AuthInv, AuthShape, AuthTypeOK
  <2>2. pc' \in [Clicks -> {"idle", "sending", "received", "refused",
                           "authorized", "anonymous", "killed"}]
    BY <1>2 DEF AuthInv, AuthShape, AuthTypeOK
  <2>3. AuthTypeOK'
    BY <1>2, <2>1, <2>2 DEF AuthInv, AuthShape, AuthTypeOK, Tokens
  <2>4. \A c \in Clicks : pc'[c] = "sending" => held'[c] = sent'[c]
    BY <1>2 DEF AuthInv, AuthShape
  <2> QED BY <1>2, <2>3, <2>4 DEF AuthInv, AuthShape
<1>5. ASSUME NEW d \in Clicks, pc'[d] = "received" PROVE Fresh(d)'
  <2>1. pc[d] = "received" /\ Fresh(d)
    BY <1>2, <1>5 DEF AuthInv
  <2>2. held[d] \in valid'
    BY <1>1, <2>1 DEF Fresh
  <2>3. \A c \in Clicks : pc'[c] \in {"sending", "received"} => pc[c] = pc'[c]
    BY <1>2
  <2> QED BY <1>2, <2>1, <2>2, <2>3 DEF Fresh
<1>6. \A c \in Clicks : Retired(c) => Retired(c)'
  BY <1>2 DEF Retired
<1>7. CASE stored \in valid \ valid'
  <2>1. PICK c \in arrived : held[c] = stored
    BY <1>1, <1>7
  <2>2. c \in stopped /\ c \in Clicks /\ pc[c] = "sending" /\ provider = "rotates"
    BY <1>2, <1>3, <1>7
  <2>3. Retired(c)'
    BY <1>2, <2>1, <2>2 DEF Retired, AuthInv, AuthShape
  <2> QED BY <1>2, <1>3, <1>4, <1>5, <2>2, <2>3 DEF AuthInv
<1>8. CASE stored \notin valid \ valid'
  BY <1>2, <1>3, <1>4, <1>5, <1>6, <1>8 DEF AuthInv
<1> QED BY <1>7, <1>8

(* What each step of the extension does to the tokens.                     *)
LEMMA AuthSteps ==
    ASSUME AuthInv, [Next]_vars
    PROVE  AuthInv'
<1>1. ASSUME UNCHANGED authVars PROVE AuthInv'
  BY <1>1, OldKeeps DEF authVars, tokenVars, AuthInv, AuthShape, AuthTypeOK
<1>2. ASSUME faults' = faults + 1,
             UNCHANGED tokenVars
      PROVE  AuthInv'
  BY <1>2, OldKeeps DEF tokenVars, AuthInv, AuthShape, AuthTypeOK
<1>3. CASE UNCHANGED vars
  BY <1>1, <1>3 DEF vars
<1>4. ASSUME NEW c \in Clicks, Background(c) PROVE AuthInv'
  <2>1. CASE Authorize(c)
    BY <2>1, ReadKeeps, GrantKeeps, RefuseKeeps, StoreKeeps, ClearKeeps
       DEF Authorize, GetAccessToken
  <2>2. CASE Fetch(c)
    BY <1>1, <1>2, <2>2 DEF Fetch
  <2>3. CASE SendTranslation(c) \/ SendError(c) \/ Notify(c) \/ Answer(c)
    BY <1>1, <2>3 DEF SendTranslation, SendError, Notify, Answer
  <2> QED BY <1>4, <2>1, <2>2, <2>3 DEF Background
<1>5. CASE (\E c \in Menu : ChooseFromMenu(c)) \/ (\E p \in Presses : Press(p))
           \/ (\E l \in Menu : HideTimer(l)) \/ Dismiss
  BY <1>1, <1>5 DEF ChooseFromMenu, Press, HideTimer, Dismiss
<1>6. CASE Navigate
  BY <1>2, <1>6 DEF Navigate
<1>7. CASE OptionsPage
  <2>1. CASE Expire
    <3>1. old' = TRUE /\ access /\ faults' = faults + 1
          /\ UNCHANGED <<provider, access, stored, endpoint, valid, issued, pc, sent, held,
                         logins>>
      BY <2>1 DEF Expire
    <3>2. faults' \in Nat
      BY <3>1 DEF AuthInv, AuthShape, AuthTypeOK
    <3> QED BY <3>1, <3>2, OldKeeps
  <2> QED BY <1>7, <2>1, LoginKeeps, LogoutKeeps DEF OptionsPage
<1>8. CASE StopWorker
  <2>1. PICK stopped \in SUBSET Clicks : StopClicks(stopped)
    BY <1>8 DEF StopWorker
  <2> QED BY <2>1, StopKeeps
<1> QED BY <1>3, <1>4, <1>5, <1>6, <1>7, <1>8 DEF Next

-----------------------------------------------------------------------------
LEMMA ButtonBegins == Init => ButtonInv
<1> SUFFICES ASSUME Init PROVE ButtonInv
  OBVIOUS
<1>1. PageTyped /\ PressInv
  BY DEF Init, PageTyped, PressInv
<1>2. ASSUME NEW l \in Menu PROVE Pressed(l) = {} /\ button[l] = "none" /\ told[l] = 0
  BY <1>2 DEF Init, Pressed
<1> QED BY <1>1, <1>2, FS_EmptySet DEF ButtonInv, CountInv

(* A step that makes no button ready or saved, and presses none.           *)
LEMMA CountFrame ==
    ASSUME CountInv, UNCHANGED <<told, tip>>, reached \subseteq reached',
           \A l \in Menu : button'[l] \in {button[l], "none"}
    PROVE  CountInv'
<1> SUFFICES ASSUME NEW l \in Menu
             PROVE  /\ button'[l] = "saved" => SavedFrom(l)' # {}
                    /\ IsFiniteSet(Pressed(l)')
                    /\ Cardinality(Pressed(l)') <= 1 + told'[l]
                    /\ button'[l] = "ready" => Cardinality(Pressed(l)') <= told'[l]
  BY DEF CountInv
<1>1. Pressed(l)' = Pressed(l) /\ SavedFrom(l) \subseteq SavedFrom(l)'
  BY DEF Pressed, SavedFrom
<1>2. button'[l] \in {button[l], "none"} /\ told'[l] = told[l]
  OBVIOUS
<1> QED BY <1>1, <1>2 DEF CountInv

LEMMA ChooseKeeps ==
    ASSUME ButtonInv, NEW c \in Menu, ChooseFromMenu(c)
    PROVE  ButtonInv'
<1>1. /\ req[c] = "idle" /\ req' = [req EXCEPT ![c] = "clicked"]
      /\ saving' \in {saving, saving \cup {c}} /\ UNCHANGED <<pageVars, reached>>
  BY DEF ChooseFromMenu, IsNext
<1>2. PageTyped' /\ PressInv'
  BY <1>1 DEF ButtonInv, PageTyped, PressInv, pageVars
<1>3. CountInv'
  BY <1>1, CountFrame DEF ButtonInv, pageVars
<1> QED BY <1>2, <1>3 DEF ButtonInv

(* A press is one more for its tooltip, which was ready for it.            *)
LEMMA PressKeeps ==
    ASSUME ButtonInv, NEW p \in Presses, Press(p)
    PROVE  ButtonInv'
<1>1. /\ req[p] = "idle" /\ shown # NoTip /\ button[shown] = "ready"
      /\ req' = [req EXCEPT ![p] = "clicked"] /\ tip' = [tip EXCEPT ![p] = shown]
      /\ button' = [button EXCEPT ![shown] = "busy"]
      /\ UNCHANGED <<page, shown, told, timers, saving, reached>>
  BY DEF Press, IsNext
<1>2. shown \in Menu /\ tip[p] = NoTip /\ req[shown] = "settled"
  BY <1>1 DEF ButtonInv, PageTyped, PressInv
<1>3. PageTyped' /\ PressInv'
  BY <1>1, <1>2 DEF ButtonInv, PageTyped, PressInv
<1>4. ASSUME NEW l \in Menu
      PROVE  /\ button'[l] = "saved" => SavedFrom(l)' # {}
             /\ IsFiniteSet(Pressed(l)')
             /\ Cardinality(Pressed(l)') <= 1 + told'[l]
             /\ button'[l] = "ready" => Cardinality(Pressed(l)') <= told'[l]
  <2>1. CASE l = shown
    <3>1. Pressed(l)' = Pressed(l) \cup {p} /\ p \notin Pressed(l)
      BY <1>1, <1>2, <2>1 DEF Pressed, ButtonInv, PageTyped
    <3>2. IsFiniteSet(Pressed(l)) /\ Cardinality(Pressed(l)) <= told[l]
      BY <1>1, <2>1 DEF ButtonInv, CountInv
    <3>3. /\ IsFiniteSet(Pressed(l)') /\ Cardinality(Pressed(l)) \in Nat
          /\ Cardinality(Pressed(l)') = Cardinality(Pressed(l)) + 1
      BY <3>1, <3>2, FS_AddElement, FS_CardinalityType
    <3>4. button'[l] = "busy" /\ told'[l] = told[l] /\ told[l] \in Nat
      BY <1>1, <2>1 DEF ButtonInv, PageTyped
    <3> QED BY <3>2, <3>3, <3>4
  <2>2. CASE l # shown
    <3>1. Pressed(l)' = Pressed(l) /\ SavedFrom(l) \subseteq SavedFrom(l)'
      BY <1>1, <1>2, <2>2 DEF Pressed, SavedFrom, ButtonInv, PageTyped
    <3>2. button'[l] = button[l] /\ told'[l] = told[l]
      BY <1>1, <2>2 DEF ButtonInv, PageTyped
    <3> QED BY <3>1, <3>2 DEF ButtonInv, CountInv
  <2> QED BY <2>1, <2>2
<1> QED BY <1>3, <1>4 DEF ButtonInv, CountInv

(* The page hides its tooltip, or is replaced.                             *)
LEMMA PageKeeps ==
    ASSUME ButtonInv, page' \in BOOLEAN, shown' \in {shown, NoTip}, timers' \subseteq Menu,
           button' \in {button, [l \in Menu |-> "none"]}, UNCHANGED <<told, tip, requestVars>>
    PROVE  ButtonInv'
<1>1. PageTyped' /\ PressInv'
  BY DEF ButtonInv, PageTyped, PressInv, requestVars
<1>2. CountInv'
  BY CountFrame DEF ButtonInv, requestVars
<1> QED BY <1>1, <1>2 DEF ButtonInv

LEMMA FetchKeeps ==
    ASSUME ButtonInv, NEW c \in Clicks, Fetch(c)
    PROVE  ButtonInv'
<1>1. /\ req[c] = "clicked"
      /\ \/ req' = [req EXCEPT ![c] = "ok"] /\ reached' = reached \cup {c}
         \/ req' = [req EXCEPT ![c] = "failed"] /\ reached' \in {reached, reached \cup {c}}
      /\ UNCHANGED <<pageVars, saving>>
  BY DEF Fetch
<1>2. PageTyped' /\ PressInv'
  <2>1. PageTyped'
    BY <1>1 DEF ButtonInv, PageTyped, pageVars
  <2>2. \A d \in Clicks :
           /\ req[d] = "settled" => req'[d] = "settled"
           /\ req'[d] = "idle" => req[d] = "idle"
           /\ req'[d] = "ok" => req[d] = "ok" \/ d \in reached'
    BY <1>1 DEF ButtonInv, PageTyped
  <2>3. shown' = shown /\ tip' = tip /\ reached \subseteq reached'
    BY <1>1 DEF pageVars
  <2> QED BY <2>1, <2>2, <2>3 DEF ButtonInv, PageTyped, PressInv
<1>3. CountInv'
  BY <1>1, CountFrame DEF ButtonInv, pageVars
<1> QED BY <1>2, <1>3 DEF ButtonInv

(* The tooltip of a lookup that was not settled has not been pressed.      *)
LEMMA TooltipKeeps ==
    ASSUME ButtonInv, NEW l \in Menu, SendTranslation(l) \/ SendError(l)
    PROVE  ButtonInv'
<1>1. /\ req[l] \in {"ok", "failed"}
      /\ \/ /\ shown' = l /\ req' = [req EXCEPT ![l] = "settled"]
            /\ \/ button' = [button EXCEPT ![l] = "ready"]
               \/ button' = [button EXCEPT ![l] = "none"]
         \/ /\ \/ req' = [req EXCEPT ![l] = "failed"]
               \/ req' = [req EXCEPT ![l] = "lost"]
            /\ UNCHANGED <<shown, button>>
      /\ UNCHANGED <<page, told, timers, tip, saving, reached>>
  BY DEF SendTranslation, SendError, ShowTooltip
<1>2. PageTyped' /\ PressInv'
  <2>1. PageTyped'
    BY <1>1 DEF ButtonInv, PageTyped
  <2>2. /\ l \notin Presses /\ \A p \in Presses : req'[p] = req[p]
        /\ \A m \in Menu : req[m] = "settled" => req'[m] = "settled"
        /\ shown' # shown => shown' = l /\ req'[l] = "settled"
    BY <1>1 DEF ButtonInv, PageTyped
  <2> QED BY <1>1, <2>1, <2>2 DEF ButtonInv, PageTyped, PressInv
<1>3. ASSUME NEW m \in Menu
      PROVE  /\ button'[m] = "saved" => SavedFrom(m)' # {}
             /\ IsFiniteSet(Pressed(m)')
             /\ Cardinality(Pressed(m)') <= 1 + told'[m]
             /\ button'[m] = "ready" => Cardinality(Pressed(m)') <= told'[m]
  <2>1. Pressed(m)' = Pressed(m) /\ SavedFrom(m)' = SavedFrom(m) /\ told'[m] = told[m]
    BY <1>1 DEF Pressed, SavedFrom
  <2>2. CASE button'[m] = button[m]
    BY <2>1, <2>2 DEF ButtonInv, CountInv
  <2>3. CASE m = l /\ button'[m] \in {"ready", "none"}
    <3>1. Pressed(m) = {}
      BY <1>1, <2>3 DEF Pressed, ButtonInv, PressInv, PageTyped
    <3>2. told[m] \in Nat
      BY DEF ButtonInv, PageTyped
    <3> QED BY <2>1, <2>3, <3>1, <3>2, FS_EmptySet
  <2> QED BY <1>1, <2>2, <2>3 DEF ButtonInv, PageTyped
<1> QED BY <1>2, <1>3 DEF ButtonInv, CountInv

LEMMA NotifyKeeps ==
    ASSUME ButtonInv, NEW c \in saving, Notify(c)
    PROVE  ButtonInv'
<1>1. /\ req[c] \in {"ok", "failed"} /\ req' = [req EXCEPT ![c] = "settled"]
      /\ UNCHANGED <<pageVars, saving, reached>>
  BY DEF Notify
<1>2. PageTyped' /\ PressInv'
  BY <1>1 DEF ButtonInv, PageTyped, PressInv, pageVars
<1>3. CountInv'
  BY <1>1, CountFrame DEF ButtonInv, pageVars
<1> QED BY <1>2, <1>3 DEF ButtonInv

(* A success was carried out by the API; a failure is counted before the   *)
(* button is ready again.                                                  *)
LEMMA AnswerKeeps ==
    ASSUME ButtonInv, NEW p \in Presses, Answer(p)
    PROVE  ButtonInv'
<1> PICK l : l = tip[p]
  OBVIOUS
<1>1. /\ req[p] \in {"ok", "failed"} /\ req' = [req EXCEPT ![p] = "settled"]
      /\ \/ UNCHANGED <<button, told, timers>>
         \/ /\ l # NoTip /\ button[l] = "busy" /\ req[p] = "ok"
            /\ button' = [button EXCEPT ![l] = "saved"]
            /\ timers' = timers \cup {l} /\ UNCHANGED told
         \/ /\ l # NoTip /\ button[l] = "busy"
            /\ button' = [button EXCEPT ![l] = "ready"]
            /\ told' = [told EXCEPT ![l] = told[l] + 1] /\ UNCHANGED timers
      /\ UNCHANGED <<page, shown, tip, saving, reached>>
  BY DEF Answer, ButtonOf
<1>2. l \in Menu \cup {NoTip}
  BY DEF ButtonInv, PageTyped
<1>3. PageTyped' /\ PressInv'
  BY <1>1, <1>2 DEF ButtonInv, PageTyped, PressInv
<1>4. ASSUME NEW m \in Menu
      PROVE  /\ button'[m] = "saved" => SavedFrom(m)' # {}
             /\ IsFiniteSet(Pressed(m)')
             /\ Cardinality(Pressed(m)') <= 1 + told'[m]
             /\ button'[m] = "ready" => Cardinality(Pressed(m)') <= told'[m]
  <2>1. Pressed(m)' = Pressed(m) /\ SavedFrom(m)' = SavedFrom(m)
    BY <1>1 DEF Pressed, SavedFrom
  <2>2. IsFiniteSet(Pressed(m)) /\ Cardinality(Pressed(m)) <= 1 + told[m] /\ told[m] \in Nat
        /\ Cardinality(Pressed(m)) \in Nat
    BY FS_CardinalityType DEF ButtonInv, CountInv, PageTyped
  <2>3. CASE button'[m] = button[m] /\ told'[m] = told[m]
    BY <2>1, <2>3 DEF ButtonInv, CountInv
  <2>4. CASE m = l /\ req[p] = "ok" /\ button'[m] = "saved" /\ told'[m] = told[m]
    <3>1. p \in SavedFrom(m)
      BY <1>1, <2>4 DEF SavedFrom, ButtonInv, PressInv
    <3> QED BY <2>1, <2>2, <2>4, <3>1
  <2>5. CASE button'[m] = "ready" /\ told'[m] = told[m] + 1
    BY <2>1, <2>2, <2>5
  <2> QED BY <1>1, <1>2, <2>3, <2>4, <2>5 DEF ButtonInv, PageTyped
<1> QED BY <1>3, <1>4 DEF ButtonInv, CountInv

LEMMA StopWorkerKeeps ==
    ASSUME ButtonInv, StopWorker
    PROVE  ButtonInv'
<1>1. reached \subseteq reached' /\ reached' \subseteq Clicks /\ UNCHANGED <<pageVars, saving>>
  BY DEF StopWorker, ButtonInv, PageTyped
<1>2. /\ req' \in [Clicks -> {"idle", "clicked", "ok", "failed", "settled", "lost", "cut"}]
      /\ \A c \in Clicks : /\ req'[c] \in {req[c], "failed", "cut"}
                           /\ req[c] = "settled" => req'[c] = "settled"
                           /\ req'[c] # "ok"
  BY DEF StopWorker, ButtonInv, PageTyped
<1>3. PageTyped' /\ PressInv'
  <2>1. PageTyped'
    BY <1>1, <1>2 DEF ButtonInv, PageTyped, pageVars
  <2>2. shown' = shown /\ tip' = tip /\ \A m \in Menu : req[m] = "settled" => req'[m] = "settled"
    BY <1>1, <1>2 DEF pageVars
  <2>3. \A p \in Presses : req'[p] # "ok" /\ (req'[p] = "idle" => req[p] = "idle")
    BY <1>2
  <2> QED BY <2>1, <2>2, <2>3 DEF ButtonInv, PageTyped, PressInv
<1>4. CountInv'
  BY <1>1, CountFrame DEF ButtonInv, pageVars
<1> QED BY <1>3, <1>4 DEF ButtonInv

LEMMA ButtonSteps ==
    ASSUME ButtonInv, [Next]_vars
    PROVE  ButtonInv'
<1>1. ASSUME UNCHANGED <<pageVars, requestVars>> PROVE ButtonInv'
  BY <1>1, PageKeeps DEF pageVars, ButtonInv, PageTyped
<1>2. CASE UNCHANGED vars
  BY <1>1, <1>2 DEF vars
<1>3. ASSUME NEW c \in Clicks, Background(c) PROVE ButtonInv'
  <2>1. CASE Authorize(c)
    BY <1>1, <2>1 DEF Authorize
  <2> QED BY <1>3, <2>1, FetchKeeps, TooltipKeeps, NotifyKeeps, AnswerKeeps DEF Background
<1>4. CASE Dismiss
  BY <1>4, PageKeeps DEF Dismiss, ButtonInv, PageTyped
<1>5. CASE \E l \in Menu : HideTimer(l)
  BY <1>5, PageKeeps DEF HideTimer, ButtonInv, PageTyped
<1>6. CASE Navigate
  BY <1>6, PageKeeps DEF Navigate
<1>7. CASE OptionsPage
  BY <1>1, <1>7 DEF OptionsPage
<1> QED BY <1>2, <1>3, <1>4, <1>5, <1>6, <1>7, ChooseKeeps, PressKeeps, StopWorkerKeeps DEF Next

-----------------------------------------------------------------------------
(* Both invariants, and with them the type invariant, hold always.         *)
THEOREM ExtensionInvariance == Spec => [](AuthInv /\ ButtonInv)
<1>1. Init => AuthInv /\ ButtonInv
  BY AuthBegins, ButtonBegins DEF Init
<1>2. (AuthInv /\ ButtonInv) /\ [Next]_vars => (AuthInv /\ ButtonInv)'
  BY AuthSteps, ButtonSteps
<1> QED BY <1>1, <1>2, PTL DEF Spec

(* Every variable of the extension keeps its type.                         *)
THEOREM ExtensionTypes == Spec => []TypeOK
<1>1. AuthInv /\ ButtonInv => TypeOK
  BY DEF AuthInv, AuthShape, ButtonInv, PageTyped, TypeOK
<1> QED BY <1>1, ExtensionInvariance, PTL

(* Concurrent refreshes, logins and logouts, lost answers and rotation     *)
(* never leave a stored refresh token behind that the provider no longer   *)
(* accepts (getAccessToken's refresh in background.js).                    *)
THEOREM StoredTokenWorks == Spec => []StoredIsAccepted
<1>1. AuthInv => StoredIsAccepted
  BY DEF AuthInv, Retired, StoredIsAccepted
<1> QED BY <1>1, ExtensionInvariance, PTL

(* A tooltip's button says "saved" only of a word that was saved, and no   *)
(* word is saved twice unless the tooltip called the first save failed     *)
(* (content.js's listener), whatever is dismissed, left or stopped.        *)
THEOREM ButtonTellsTheTruth == Spec => []ButtonIsHonest
<1>1. ASSUME ButtonInv, NEW l \in Menu PROVE Cardinality(SavedFrom(l)) <= 1 + told[l]
  <2>1. SavedFrom(l) \subseteq Pressed(l)
    BY DEF SavedFrom, Pressed
  <2>2. IsFiniteSet(Pressed(l)) /\ Cardinality(Pressed(l)) <= 1 + told[l] /\ told[l] \in Nat
    BY <1>1 DEF ButtonInv, CountInv, PageTyped
  <2>3. /\ Cardinality(SavedFrom(l)) <= Cardinality(Pressed(l))
        /\ Cardinality(SavedFrom(l)) \in Nat /\ Cardinality(Pressed(l)) \in Nat
    BY <2>1, <2>2, FS_Subset, FS_CardinalityType
  <2> QED BY <2>2, <2>3
<1>2. ButtonInv => ButtonIsHonest
  BY <1>1 DEF ButtonInv, CountInv, ButtonIsHonest
<1> QED BY <1>2, ExtensionInvariance, PTL
=============================================================================
