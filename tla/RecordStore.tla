---------------------------- MODULE RecordStore ----------------------------
(***************************************************************************)
(* How one workflow record is saved (workflow/store.py on the Redis-backed  *)
(* job store of storage/job_store.py): the caller reads the record, takes   *)
(* the record's distributed lock, reads again and compares versions, writes *)
(* the record, adds it to the index and gives the lock back.                *)
(*                                                                          *)
(* The lock is a Redis key with a 30 s lease.  A process may die anywhere,  *)
(* and a live holder may outlive its lease (LeaseMayExpire): the lock then  *)
(* goes to another caller and the holder notices only when it unlocks.      *)
(*                                                                          *)
(* Abstracted: the content of the record is the set of saves it contains;   *)
(* created_at; the seven days after which Redis drops an untouched record.  *)
(***************************************************************************)
EXTENDS Naturals

CONSTANTS
    Saves,           \* the calls of WorkflowStore.save, each by its own caller
    Free,            \* nobody holds the lock
    LeaseMayExpire   \* whether the lease of a live holder can run out

ASSUME SavesAssumption == Free \notin Saves /\ LeaseMayExpire \in BOOLEAN

VARIABLES
    doc,      \* the stored record; version 0 stands for "absent"
    listed,   \* the record's id is in the index
    lock,     \* the save that holds the lock, or Free
    copy,     \* copy[s]: the record as the caller of s read it
    pc        \* pc[s]: the next step of s, or how it ended

vars == <<doc, listed, lock, copy, pc>>

InLock == {"locked", "checked", "written", "indexed", "refused"}
Refusals == {"conflict", "busy"}
Ends == Refusals \cup {"saved", "dead"}

Docs == [version : Nat, saves : SUBSET Saves]
Empty == [version |-> 0, saves |-> {}]

Goto(s, label) == pc' = [pc EXCEPT ![s] = label]

-----------------------------------------------------------------------------

Init ==
    /\ doc = Empty
    /\ listed = FALSE
    /\ lock = Free
    /\ copy = [s \in Saves |-> Empty]
    /\ pc = [s \in Saves |-> "new"]

\* WorkflowStore.get, long before the save.
get(s) ==
    /\ pc[s] = "new"
    /\ copy' = [copy EXCEPT ![s] = doc]
    /\ Goto(s, "read")
    /\ UNCHANGED <<doc, listed, lock>>

\* mutant: the key is set without NX
AlwaysAcquirable(s) == TRUE

\* SET NX: the key is set only when absent.
Acquirable(s) == lock = Free

Acquire(s) ==
    /\ pc[s] = "read"
    /\ Acquirable(s)
    /\ lock' = s
    /\ Goto(s, "locked")
    /\ UNCHANGED <<doc, listed, copy>>

\* blocking_timeout: LockError, hence LockBusyError, hence WorkflowStoreBusyError.
GiveUp(s) ==
    /\ pc[s] = "read"
    /\ lock # Free
    /\ Goto(s, "busy")
    /\ UNCHANGED <<doc, listed, lock, copy>>

\* mutant: versions are not compared
NeverStale(s) == FALSE

Stale(s) == doc.version # 0 /\ doc.version # copy[s].version

Compare(s) ==
    /\ pc[s] = "locked"
    /\ Goto(s, IF Stale(s) THEN "refused" ELSE "checked")
    /\ UNCHANGED <<doc, listed, lock, copy>>

\* SETEX of the caller's record, version + 1.
Write(s) ==
    /\ pc[s] = "checked"
    /\ doc' = [version |-> copy[s].version + 1, saves |-> copy[s].saves \cup {s}]
    /\ Goto(s, "written")
    /\ UNCHANGED <<listed, lock, copy>>

\* mutant: the index is left alone
SkipIndex(s) ==
    /\ pc[s] = "written"
    /\ Goto(s, "indexed")
    /\ UNCHANGED <<doc, listed, lock, copy>>

\* SADD to the index, and its expiry.
Index(s) ==
    /\ pc[s] = "written"
    /\ listed' = TRUE
    /\ Goto(s, "indexed")
    /\ UNCHANGED <<doc, lock, copy>>

\* mutant: the version conflict is answered as a success
SwallowConflict(s) == IF lock = s THEN "saved" ELSE "busy"

\* mutant: a save that conflicts is tried again with the record it has
RetryConflict(s) ==
    IF lock # s THEN "busy" ELSE IF pc[s] = "refused" THEN "read" ELSE "saved"

\* What the caller gets when the with-block is left: redis-py's release
\* raises LockNotOwnedError, a LockError, when the lease has run out, and
\* distributed_lock turns every LockError of the block into LockBusyError.
OutcomeOf(s) ==
    IF lock # s THEN "busy" ELSE IF pc[s] = "refused" THEN "conflict" ELSE "saved"

\* release compares the token before it deletes the key.
LockAfter(s) == IF lock = s THEN Free ELSE lock

Release(s) ==
    /\ pc[s] \in {"indexed", "refused"}
    /\ Goto(s, OutcomeOf(s))
    /\ lock' = LockAfter(s)
    /\ UNCHANGED <<doc, listed, copy>>

\* The process is killed, which leaves the lock to its lease, or a Redis call
\* raises, which leaves the with-block and releases the lock.
Die(s) ==
    /\ pc[s] \notin Ends \cup {"new"}
    /\ Goto(s, "dead")
    /\ lock' \in {lock, LockAfter(s)}
    /\ UNCHANGED <<doc, listed, copy>>

\* mutant: the lock has no lease
NoLease == FALSE

Expirable == lock # Free /\ (LeaseMayExpire \/ pc[lock] = "dead")

LeaseExpires ==
    /\ Expirable
    /\ lock' = Free
    /\ UNCHANGED <<doc, listed, copy, pc>>

Step(s) == Acquire(s) \/ GiveUp(s) \/ Compare(s) \/ Write(s) \/ Index(s) \/ Release(s)

Next == LeaseExpires \/ \E s \in Saves : get(s) \/ Step(s) \/ Die(s)

Spec == Init /\ [][Next]_vars

\* A caller that has read and does not die goes on (it runs to the end of its
\* request), and Redis expires leases.  Nobody has to start a save or to die.
Fairness == WF_vars(LeaseExpires) /\ \A s \in Saves : WF_vars(Step(s))

FairSpec == Spec /\ Fairness

-----------------------------------------------------------------------------
\* Properties

\* Every record at hand is well formed, and none is newer than the stored one.
TypeOK ==
    /\ doc \in Docs
    /\ listed \in BOOLEAN
    /\ lock \in Saves \cup {Free}
    /\ copy \in [Saves -> Docs]
    /\ pc \in [Saves -> InLock \cup Ends \cup {"new", "read"}]
    /\ \A s \in Saves : copy[s].version <= doc.version

\* A save that was answered with success is in the stored record, whatever
\* the other callers did since, and the record can be found through the index.
SavedIsKept ==
    \A s \in Saves : pc[s] = "saved" => s \in doc.saves /\ listed

\* A save refused as conflicting or busy has left no trace: the caller may
\* reload and apply its change again without applying it twice.
RefusedLeavesNoTrace ==
    \A s \in Saves : pc[s] \in Refusals => s \notin doc.saves

\* The stored record only ever grows by one save at a time.
NoLostUpdate ==
    [][/\ doc'.version = doc.version + 1
       /\ doc.saves \subseteq doc'.saves]_doc

\* save is a compare-and-swap in one step.
AsRegister(label) ==
    CASE label \in {"read", "locked", "checked", "refused"} -> "asked"
      [] label \in {"written", "indexed"} -> "stored"
      [] label = "dead" -> "lost"
      [] OTHER -> label

Register == INSTANCE CasRegister WITH
                value <- doc,
                seen <- copy,
                outcome <- [s \in Saves |-> AsRegister(pc[s])]

ImplementsRegister == Register!CasSpec

\* Every save that is not killed is answered.
SaveAnswered == \A s \in Saves : pc[s] = "read" ~> pc[s] \in Ends

\* A lock whose holder died comes free, so that the record can be saved again.
LockComesFree == \A s \in Saves : lock = s ~> lock # s
=============================================================================
