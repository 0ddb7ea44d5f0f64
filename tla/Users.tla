------------------------------- MODULE Users -------------------------------
(***************************************************************************)
(* Get-or-create of the user a request works for: current_user (auth.py)   *)
(* for HTTP requests, _resolve_user (mcp_server.py) for MCP tools.  Both   *)
(* look the name up, and insert a row in a second step if there is none.   *)
(***************************************************************************)
EXTENDS Integers, Sequences

CONSTANTS
    Requests,
    Names,
    NoOne

ASSUME UsersAssumption == NoOne \notin Names

VARIABLES
    users,      \* committed user rows: the name of each id
    who,        \* the username header of each request
    uid,        \* user.id of each request, 0 before it is known
    pc          \* where each request is

userVars == <<users, who, uid, pc>>

UsersTypeOK ==
    /\ users \in Seq(Names)
    /\ who \in [Requests -> Names \cup {NoOne}]
    /\ \A r \in Requests : uid[r] \in 0..Len(users)

UsersInit ==
    /\ users = <<>>
    /\ who = [r \in Requests |-> NoOne]
    /\ uid = [r \in Requests |-> 0]
    /\ pc = [r \in Requests |-> "idle"]

RowsOf(n) == {i \in DOMAIN users : users[i] = n}

Arrive(r, n) ==
    /\ pc[r] = "idle"
    /\ who' = [who EXCEPT ![r] = n]
    /\ pc' = [pc EXCEPT ![r] = "arrived"]
    /\ UNCHANGED <<users, uid>>

(* scalar_one_or_none: raises if there is more than one row.               *)
SelectUser(r) ==
    /\ pc[r] = "arrived"
    /\ LET found == RowsOf(who[r])
       IN  /\ uid' = [uid EXCEPT ![r] = IF \E i \in found : found = {i}
                                        THEN CHOOSE i \in found : TRUE ELSE 0]
           /\ pc' = [pc EXCEPT ![r] = IF found = {} THEN "creating"
                                      ELSE IF uid'[r] = 0 THEN "refused" ELSE "resolved"]
    /\ UNCHANGED <<users, who>>

Unchecked(n) == TRUE                            \* mutant: username not unique
(* models.py: unique=True                                                  *)
IsUnique(n) == RowsOf(n) = {}

InsertUser(r) ==
    /\ pc[r] = "creating"
    /\ IF IsUnique(who[r])
       THEN /\ users' = Append(users, who[r])
            /\ uid' = [uid EXCEPT ![r] = Len(users) + 1]
            /\ pc' = [pc EXCEPT ![r] = "resolved"]
       ELSE /\ pc' = [pc EXCEPT ![r] = "refused"]
            /\ UNCHANGED <<users, uid>>
    /\ UNCHANGED who

(* The client sends a refused request again.                               *)
Retry(r) ==
    /\ pc[r] = "refused"
    /\ pc' = [pc EXCEPT ![r] = "arrived"]
    /\ UNCHANGED <<users, who, uid>>

GetUser(r) ==
    \/ \E n \in Names : Arrive(r, n)
    \/ SelectUser(r) \/ InsertUser(r) \/ Retry(r)

-----------------------------------------------------------------------------
(* First requests of a user that arrive together all end up with the same  *)
(* row, the one with their name.  One that is refused because another      *)
(* created the row first finds that row when it is sent again, so it is    *)
(* refused only once.                                                      *)
OneUserRow ==
    \A r \in Requests :
        /\ uid[r] # 0 => RowsOf(who[r]) = {uid[r]}
        /\ pc[r] = "refused" => \E i \in RowsOf(who[r]) : RowsOf(who[r]) = {i}
=============================================================================
