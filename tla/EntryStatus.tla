---------------------------- MODULE EntryStatus ----------------------------
(***************************************************************************)
(* What the system promises about one entry, without transactions, locks,  *)
(* retries or drafts: its status and whether a card was ever written for   *)
(* it.  models.Entry.status, seen through GET /vocab and the Anki client.  *)
(***************************************************************************)
CONSTANT Entries
VARIABLES status, carded

Decided == {"needs-review", "synced", "rejected"}

TypeOK == /\ status \in [Entries -> Decided \cup {"absent", "pending", "dropped"}]
          /\ carded \subseteq Entries

Init == /\ status = [e \in Entries |-> "absent"]
        /\ carded = {}

(* Words enter the queue, one by one or a Kindle file at a time.           *)
Enqueue(S) == /\ \A e \in S : status[e] = "absent"
              /\ status' = [e \in Entries |-> IF e \in S THEN "pending" ELSE status[e]]
              /\ UNCHANGED carded

(* The pipeline decides about a word, at once or from the queue.           *)
Hold(e) == /\ status[e] \in {"absent", "pending"}
           /\ status' = [status EXCEPT ![e] = "needs-review"]
           /\ UNCHANGED carded

(* A repeated word is dropped, for a decided entry that stays.             *)
Drop(e) == /\ status[e] \in {"absent", "pending"}
           /\ \E f \in Entries \ {e} : status[f] \in Decided
           /\ status' = [status EXCEPT ![e] = "dropped"]
           /\ UNCHANGED carded

WriteCard(e) == /\ carded' = carded \cup {e}
                /\ UNCHANGED status

(* The pipeline, or an approval, calls the entry synced: never before its  *)
(* card is in Anki.                                                        *)
Sync(e) == /\ status[e] # "dropped"
           /\ e \in carded
           /\ status' = [status EXCEPT ![e] = "synced"]
           /\ UNCHANGED carded

Reject(e) == /\ status[e] \in Decided \cup {"pending"}
             /\ status' = [status EXCEPT ![e] = "rejected"]
             /\ UNCHANGED carded

Next == \/ \E S \in SUBSET Entries : Enqueue(S)
        \/ \E e \in Entries : Hold(e) \/ Drop(e) \/ WriteCard(e) \/ Sync(e) \/ Reject(e)

Spec == Init /\ [][Next]_<<status, carded>>
=============================================================================
