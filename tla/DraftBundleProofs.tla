-------------------------- MODULE DraftBundleProofs --------------------------
(***************************************************************************)
(* Theorems about DraftBundle for any number of callers, documents of all  *)
(* sizes and all limits.                                                   *)
(*                                                                         *)
(* What the bundle holds was once somebody's draft: of a caller that had   *)
(* the lock, or of a run, which read it as the bundle.  So the invariant   *)
(* (BundleInv) says of every draft what the bundle is to satisfy (Sound).  *)
(* It says as well that the draft of the lock's holder lacks no more of    *)
(* the stored documents than its caller means to remove and what has been  *)
(* out of the bundle (left); the same history bounds what a run or a       *)
(* deletion, which take no lock, can change behind the holder's back.      *)
(* The ids in use are those handed out, which makes every added document a *)
(* new one and its bytes bytes that were not counted yet.  A second        *)
(* invariant (EtagInv) ties the ETags on record to those of the files.     *)
(***************************************************************************)
EXTENDS DraftBundle, FiniteSetTheorems, TLAPS

(* Sizes of documents *)

Countable(docs) == IsFiniteSet(Bytes(docs))

LEMMA Limits == MaxDocument \in Nat /\ MaxTotal \in Nat /\ MaxIds \in Nat
BY DraftAssumption, Zenon DEF DraftAssumption

\* One more document adds its size.
LEMMA TotalAdd ==
    ASSUME NEW docs, Countable(docs), NEW d, d \notin docs, d.size \in Nat
    PROVE  /\ Countable(docs \cup {d})
           /\ Total(docs \cup {d}) = Total(docs) + d.size
           /\ Total(docs) \in Nat
<1> DEFINE n == d.size
           added == {d} \X (1 .. n)
<1>1. n \in Nat
  OBVIOUS
<1>2. IsFiniteSet(added) /\ Cardinality(added) = n
  <2> HIDE DEF n
  <2>1. IsFiniteSet(1 .. n) /\ Cardinality(1 .. n) = n
    BY <1>1, FS_Interval
  <2>2. IsFiniteSet({d}) /\ Cardinality({d}) = 1
    BY FS_Singleton
  <2>3. IsFiniteSet({d} \X (1 .. n))
    BY <2>1, <2>2, FS_Product
  <2>4. Cardinality({d} \X (1 .. n)) = Cardinality({d}) * Cardinality(1 .. n)
    BY <2>1, <2>2, FS_Product
  <2> QED BY <1>1, <2>1, <2>2, <2>3, <2>4
<1>3. Bytes(docs \cup {d}) = Bytes(docs) \cup added
  BY DEF Bytes
<1>4. Cardinality(Bytes(docs) \cap added) = 0
  <2>1. Bytes(docs) \cap added = {}
    BY DEF Bytes
  <2> QED BY <2>1, FS_EmptySet
<1>5. /\ IsFiniteSet(Bytes(docs) \cup added)
      /\ Cardinality(Bytes(docs) \cup added)
           = Cardinality(Bytes(docs)) + Cardinality(added) - Cardinality(Bytes(docs) \cap added)
  BY <1>2, FS_Union DEF Countable
<1>6. Cardinality(Bytes(docs)) \in Nat
  BY FS_CardinalityType DEF Countable
<1>7. Cardinality(Bytes(docs) \cup added) = Cardinality(Bytes(docs)) + n
  <2> HIDE DEF n, added
  <2> QED BY <1>1, <1>2, <1>4, <1>5, <1>6
<1> HIDE DEF added
<1> QED BY <1>1, <1>3, <1>5, <1>6, <1>7 DEF Countable, Total

\* Fewer documents have no more bytes.
LEMMA TotalOfFewer ==
    ASSUME NEW docs, Countable(docs), NEW fewer \in SUBSET docs
    PROVE  /\ Countable(fewer)
           /\ Total(fewer) <= Total(docs) /\ Total(fewer) \in Nat /\ Total(docs) \in Nat
<1>1. Bytes(fewer) \subseteq Bytes(docs)
  BY DEF Bytes
<1> QED BY <1>1, FS_Subset, FS_CardinalityType DEF Countable, Total

LEMMA TotalOfNone == Countable({}) /\ Total({}) = 0
<1>1. Bytes({}) = {}
  BY DEF Bytes
<1> QED BY <1>1, FS_EmptySet DEF Countable, Total

-----------------------------------------------------------------------------
(* Types, and the lock *)

LEMMA InitType == Init => TypeOK
<1> SUFFICES ASSUME Init PROVE TypeOK
  OBVIOUS
<1>1. Idle \in Steps /\ Idle.op \notin Locked
  BY DEF Idle, Steps, Locked
<1>2. /\ bundle \in [exists : BOOLEAN, docs : SUBSET Docs] /\ left \subseteq Docs
      /\ draft \in [Callers -> SUBSET Docs] /\ gone \in [Callers -> SUBSET Docs]
  BY DEF Init
<1>3. objects \subseteq Keys /\ ids \in 0 .. MaxIds
  <2>1. objects = Keys /\ ids = 0
    BY Zenon DEF Init
  <2> QED BY <2>1, Limits
<1>5. opened \in [Keys -> Opened \cup {""}] /\ decrypted \subseteq Protected
  <2>1. opened = [k \in Keys |-> ""]
    BY DEF Init
  <2> QED BY <2>1 DEF decrypted
<1>4. /\ lock = Free /\ Free \notin Callers /\ pc \in [Callers -> Steps]
      /\ \A c \in Callers : pc[c].op \notin Locked
  BY <1>1, DraftAssumption DEF Init, DraftAssumption
<1> QED BY <1>2, <1>3, <1>4, <1>5 DEF TypeOK

HoldersWrite == \A c \in Callers : pc[c].op \in Locked <=> lock = c

\* A caller goes under the lock when it is free, and the lock is free when its holder leaves.
LEMMA LockMoves ==
    ASSUME TypeOK, NEW c \in Callers, NEW step \in Steps, Goto(c, step),
           \/ step.op \in Locked /\ LockFree /\ lock' = c
           \/ step.op \notin Locked /\ lock' = (IF lock = c THEN Free ELSE lock)
    PROVE  pc' \in [Callers -> Steps] /\ lock' \in Callers \cup {Free} /\ HoldersWrite'
<1>1. /\ pc \in [Callers -> Steps] /\ lock \in Callers \cup {Free}
      /\ \A b \in Callers : pc[b].op \in Locked <=> lock = b
      /\ Free \notin Callers
  BY DraftAssumption DEF DraftAssumption, TypeOK
<1>2. pc' \in [Callers -> Steps] /\ \A b \in Callers : pc'[b] = (IF b = c THEN step ELSE pc[b])
  BY <1>1 DEF Goto
<1>3. lock' \in Callers \cup {Free}
  BY <1>1
<1>4. HoldersWrite'
  BY <1>1, <1>2 DEF HoldersWrite, LockFree
<1> QED BY <1>2, <1>3, <1>4

\* A caller that is not under the lock leaves it alone.
LEMMA LockStays ==
    ASSUME TypeOK, NEW c \in Callers, pc[c].op \notin Locked, NEW step \in Steps, step.op \notin Locked,
           Goto(c, step), UNCHANGED lock
    PROVE  pc' \in [Callers -> Steps] /\ lock' \in Callers \cup {Free} /\ HoldersWrite'
<1>1. lock # c
  BY DEF TypeOK
<1> QED BY <1>1, LockMoves

LEMMA EnterMoves ==
    ASSUME TypeOK, NEW c \in Callers, NEW op \in Locked, NEW docs \in SUBSET Docs, Enter(c, op, docs)
    PROVE  /\ pc' \in [Callers -> Steps] /\ lock' \in Callers \cup {Free} /\ HoldersWrite'
           /\ draft' \in [Callers -> SUBSET Docs]
<1>1. [op |-> op] \in Steps /\ [op |-> op].op \in Locked
  BY DEF Steps, Locked
<1>2. pc' \in [Callers -> Steps] /\ lock' \in Callers \cup {Free} /\ HoldersWrite'
  BY <1>1, LockMoves DEF Enter
<1> QED BY <1>2 DEF Enter, TypeOK

LEMMA IdsAreNumbers == TypeOK => ids \in Nat
<1>1. TypeOK => ids \in 0 .. MaxIds
  BY Zenon DEF TypeOK
<1> QED BY <1>1, Limits

LEMMA NextId == ASSUME TypeOK, ids < MaxIds PROVE ids + 1 \in 0 .. MaxIds /\ ids + 1 \in 1 .. MaxIds
<1>1. ids \in 0 .. MaxIds
  BY Zenon DEF TypeOK
<1> QED BY <1>1, Limits

\* The document that is added has an id of its own.
LEMMA NewDoc ==
    ASSUME TypeOK, ids < MaxIds, NEW x \in Items, NEW tag \in Etags \cup {""}, NEW n \in Nat
    PROVE  [id |-> ids + 1, item |-> x, etag |-> tag, size |-> n] \in Docs /\ ids + 1 \in 0 .. MaxIds
BY NextId DEF Docs

\* What a confirmation knows of its file.
LEMMA LookedAt ==
    ASSUME TypeOK, NEW c \in Callers, pc[c].op \in {"headed", "unlocking"}
    PROVE  /\ pc[c].key \in Keys /\ pc[c].etag \in Etags /\ pc[c].size \in Nat
           /\ pc[c].op = "unlocking" => pc[c].key \in Protected
           /\ pc[c] = [op |-> pc[c].op, key |-> pc[c].key, etag |-> pc[c].etag, size |-> pc[c].size]
<1>1. pc[c] \in Steps
  BY DEF TypeOK
<1>2. pc[c] \in Looked
  BY <1>1 DEF Steps, Idle
<1> QED BY <1>2, DraftAssumption DEF Looked, DraftAssumption

\* What S3 reports of a file.
LEMMA Reported ==
    ASSUME TypeOK, NEW k \in Keys
    PROVE  /\ (IF k \in decrypted THEN opened[k] ELSE Etag[k]) \in Etags
           /\ ObjectSize[<<k, k \in decrypted>>] \in Nat /\ ObjectSize[<<k, TRUE>>] \in Nat
<1>1. \A f \in Files : ObjectSize[f] \in Nat
  BY DraftAssumption, Zenon DEF DraftAssumption
<1>2. (k \in decrypted) \in BOOLEAN
  OBVIOUS
<1>3. <<k, k \in decrypted>> \in Files /\ <<k, TRUE>> \in Files
  BY <1>2, Zenon DEF Files
<1>4. opened[k] \in Opened \cup {""} /\ Opened \subseteq Etags /\ Etag[k] \in Etags
  BY DraftAssumption DEF DraftAssumption, TypeOK
<1>5. CASE k \in decrypted
  BY <1>1, <1>3, <1>4, <1>5 DEF decrypted
<1>6. CASE k \notin decrypted
  BY <1>1, <1>3, <1>4, <1>6
<1> QED BY <1>5, <1>6

\* A file is written anew.
LEMMA PutOpens ==
    ASSUME TypeOK, NEW c \in Callers, put_object(c)
    PROVE  /\ opened' \in [Keys -> Opened \cup {""}]
           /\ decrypted' = decrypted \cup {pc[c].key} /\ decrypted' \subseteq Protected
<1>1. pc[c].key \in Keys /\ pc[c].key \in Protected
  BY LookedAt DEF put_object, At
<1>2. PICK tag \in Opened : opened' = [opened EXCEPT ![pc[c].key] = tag]
  BY DEF put_object
<1>3. tag # ""
  BY DraftAssumption DEF DraftAssumption
<1>4. opened \in [Keys -> Opened \cup {""}] /\ decrypted \subseteq Protected
  BY DEF TypeOK
<1>5. opened' \in [Keys -> Opened \cup {""}]
  BY <1>2, <1>4
<1>6. \A k \in Keys : opened'[k] # "" <=> opened[k] # "" \/ k = pc[c].key
  BY <1>1, <1>2, <1>3, <1>4
<1>7. decrypted' = decrypted \cup {pc[c].key}
  BY <1>1, <1>6 DEF decrypted
<1> QED BY <1>1, <1>4, <1>5, <1>7

\* The steps after which the caller does not hold the lock, and has no part in ids.
LEMMA QuietType ==
    ASSUME TypeOK, NEW c \in Callers, NEW step \in Steps, step.op \notin Locked, Goto(c, step),
           \/ pc[c].op \notin Locked /\ UNCHANGED lock
           \/ lock' = (IF lock = c THEN Free ELSE lock),
           bundle' \in [exists : BOOLEAN, docs : SUBSET Docs], objects' \subseteq Keys,
           opened' \in [Keys -> Opened \cup {""}], decrypted' \subseteq Protected, draft' \in [Callers -> SUBSET Docs],
           gone' \in [Callers -> SUBSET Docs], left' \subseteq Docs, UNCHANGED ids
    PROVE  TypeOK'
<1>1. pc' \in [Callers -> Steps] /\ lock' \in Callers \cup {Free} /\ HoldersWrite'
  BY LockStays, LockMoves
<1> QED BY <1>1 DEF TypeOK, HoldersWrite

LEMMA NextType == ASSUME TypeOK, [Next]_vars PROVE TypeOK'
<1> USE DEF At
<1>1. /\ bundle \in [exists : BOOLEAN, docs : SUBSET Docs] /\ objects \subseteq Keys
      /\ opened \in [Keys -> Opened \cup {""}] /\ decrypted \subseteq Protected /\ left \subseteq Docs
      /\ UNCHANGED opened => UNCHANGED decrypted
      /\ lock \in Callers \cup {Free} /\ pc \in [Callers -> Steps]
      /\ draft \in [Callers -> SUBSET Docs] /\ gone \in [Callers -> SUBSET Docs]
      /\ ids \in 0 .. MaxIds
  BY DEF TypeOK, decrypted
<1>2. /\ Idle \in Steps /\ Idle.op = "idle"
      /\ \A op \in {"purging", "deleting", "running", "submitting"} : [op |-> op] \in Steps
      /\ {"idle", "headed", "unlocking", "purging", "deleting", "running", "submitting"} \cap Locked = {}
  BY DEF Steps, Idle, Locked
<1>3. bundle.docs \subseteq Docs /\ {} \in SUBSET Docs
  BY <1>1
<1>4. ASSUME NEW c \in Callers, add_documents(c) PROVE TypeOK'
  BY <1>1, <1>3, <1>4, EnterMoves DEF add_documents, TypeOK, HoldersWrite, Locked
<1>5. ASSUME NEW c \in Callers, NEW x \in Contents, AppendDocument(c, x) PROVE TypeOK'
  <2>1. Inline(x) \in Docs /\ ids' \in 0 .. MaxIds
    BY <1>5, NewDoc, DraftAssumption DEF AppendDocument, Items, Inline, DraftAssumption
  <2>2. draft' \in [Callers -> SUBSET Docs]
    BY <1>1, <1>5, <2>1 DEF AppendDocument
  <2> QED BY <1>5, <2>1, <2>2 DEF AppendDocument, TypeOK, decrypted
<1>6. ASSUME NEW c \in Callers, NEW k \in Keys, head_object(c, k) PROVE TypeOK'
  <2> DEFINE tag == IF k \in decrypted THEN opened[k] ELSE Etag[k]
             size == ObjectSize[<<k, k \in decrypted>>]
             step == [op |-> "headed", key |-> k, etag |-> tag, size |-> size]
  <2>1. Goto(c, step) /\ step.op = "headed"
    BY <1>6 DEF head_object
  <2>2. tag \in Etags /\ size \in Nat
    BY Reported
  <2> HIDE DEF tag, size
  <2>3. step \in Steps
    BY <2>2 DEF Looked, Steps
  <2> HIDE DEF step
  <2> QED BY <1>1, <1>2, <1>6, <2>1, <2>3, QuietType DEF head_object
<1>7. ASSUME NEW c \in Callers, unlock(c) PROVE TypeOK'
  <2> DEFINE step == [pc[c] EXCEPT !.op = "unlocking"]
  <2>1. step \in Steps /\ step.op = "unlocking"
    <3>1. /\ pc[c].key \in Protected /\ pc[c].etag \in Etags /\ pc[c].size \in Nat
          /\ pc[c] = [op |-> pc[c].op, key |-> pc[c].key, etag |-> pc[c].etag, size |-> pc[c].size]
      BY <1>7, LookedAt DEF unlock
    <3>2. step = [op |-> "unlocking", key |-> pc[c].key, etag |-> pc[c].etag, size |-> pc[c].size]
      BY <3>1
    <3>3. step \in Looked
      BY <3>1, <3>2 DEF Looked
    <3> QED BY <3>2, <3>3 DEF Steps
  <2> HIDE DEF step
  <2>2. Goto(c, step)
    BY <1>7 DEF unlock, step
  <2> QED BY <1>1, <1>2, <1>7, <2>1, <2>2, QuietType DEF unlock
<1>8. ASSUME NEW c \in Callers, put_object(c) PROVE TypeOK'
  <2> DEFINE size == ObjectSize[<<pc[c].key, TRUE>>]
             step == [op |-> "headed", key |-> pc[c].key, etag |-> pc[c].etag, size |-> size]
  <2>1. pc[c].key \in Keys /\ pc[c].key \in Protected /\ pc[c].etag \in Etags
    BY <1>8, LookedAt DEF put_object
  <2>2. Goto(c, step) /\ step.op = "headed"
    BY <1>8 DEF put_object
  <2>3. step \in Steps
    <3>1. size \in Nat
      BY <2>1, Reported
    <3> HIDE DEF size
    <3> QED BY <2>1, <3>1 DEF Looked, Steps
  <2> HIDE DEF step, size
  <2>4. objects' \subseteq Keys /\ opened' \in [Keys -> Opened \cup {""}] /\ decrypted' \subseteq Protected
    BY <1>1, <1>8, <2>1, PutOpens DEF put_object
  <2> QED BY <1>1, <1>2, <1>8, <2>2, <2>3, <2>4, QuietType DEF put_object
<1>9. ASSUME NEW c \in Callers, RefuseReference(c) PROVE TypeOK'
  BY <1>1, <1>2, <1>9, QuietType DEF RefuseReference
<1>10. ASSUME NEW c \in Callers, add_object_reference(c) PROVE TypeOK'
  <2> DEFINE new == Reference(pc[c])
  <2>1. new \in Docs /\ ids + 1 \in 0 .. MaxIds
    BY <1>10, LookedAt, NewDoc DEF add_object_reference, Items, Reference
  <2> HIDE DEF new
  <2>2. bundle.docs \cup {new} \in SUBSET Docs
    BY <1>3, <2>1
  <2>3. PICK docs \in SUBSET Docs : Enter(c, "writing", docs)
    BY <1>3, <1>10, <2>2 DEF add_object_reference, new
  <2>4. /\ pc' \in [Callers -> Steps] /\ lock' \in Callers \cup {Free} /\ HoldersWrite'
        /\ draft' \in [Callers -> SUBSET Docs]
    BY <2>3, EnterMoves DEF Locked
  <2>5. ids' \in 0 .. MaxIds /\ objects' \subseteq Keys
    BY <1>1, <1>10, <2>1 DEF add_object_reference, Deleted
  <2> QED BY <1>1, <1>10, <2>4, <2>5 DEF add_object_reference, TypeOK, HoldersWrite
<1>11. ASSUME NEW c \in Callers, NEW id \in 1 .. MaxIds, remove_document(c, id) PROVE TypeOK'
  <2> DEFINE kept == {d \in bundle.docs : d.id # id}
             removed == {d \in bundle.docs : d.id = id}
  <2>1. kept \in SUBSET Docs /\ removed \in SUBSET Docs
    BY <1>3
  <2>2. /\ pc' \in [Callers -> Steps] /\ lock' \in Callers \cup {Free} /\ HoldersWrite'
        /\ draft' \in [Callers -> SUBSET Docs]
    BY <1>11, <2>1, EnterMoves DEF remove_document, Locked
  <2>3. gone' \in [Callers -> SUBSET Docs]
    BY <1>1, <1>11, <2>1 DEF remove_document
  <2> QED BY <1>1, <1>11, <2>2, <2>3 DEF remove_document, TypeOK, HoldersWrite
<1>12. ASSUME NEW c \in Callers, Store(c) \/ Submit(c) PROVE TypeOK'
  <2>1. Put(draft[c]) /\ draft' = [draft EXCEPT ![c] = {}] /\ UNCHANGED <<objects, opened, gone, ids>>
    BY <1>12 DEF Store, Submit
  <2>2. /\ bundle' \in [exists : BOOLEAN, docs : SUBSET Docs] /\ left' \subseteq Docs
        /\ draft' \in [Callers -> SUBSET Docs]
    BY <1>1, <1>3, <2>1 DEF Put
  <2>3. CASE Store(c)
    BY <1>1, <1>2, <2>1, <2>2, <2>3, QuietType DEF Store
  <2>4. CASE Submit(c)
    BY <1>1, <1>2, <2>1, <2>2, <2>4, QuietType DEF Submit
  <2> QED BY <1>12, <2>3, <2>4
<1>13. ASSUME NEW c \in Callers, delete(c) PROVE TypeOK'
  <2>1. gone' \in [Callers -> SUBSET Docs]
    BY <1>1, <1>3, <1>13 DEF delete
  <2> QED BY <1>1, <1>2, <1>13, <2>1, QuietType DEF delete
<1>14. ASSUME NEW c \in Callers, DropRecord(c) PROVE TypeOK'
  <2>1. bundle' \in [exists : BOOLEAN, docs : SUBSET Docs] /\ left' \subseteq Docs
    BY <1>1, <1>3, <1>14 DEF DropRecord
  <2> QED BY <1>1, <1>2, <1>14, <2>1, QuietType DEF DropRecord
<1>15. ASSUME NEW c \in Callers, Purge(c) PROVE TypeOK'
  <2>1. gone' \in [Callers -> SUBSET Docs] /\ objects' \subseteq Keys
    BY <1>1, <1>15 DEF Purge, Deleted
  <2> QED BY <1>15, <2>1 DEF Purge, TypeOK, decrypted
<1>16. ASSUME NEW c \in Callers, Return(c) \/ to_pipeline_documents(c) PROVE TypeOK'
  BY <1>1, <1>2, <1>16, QuietType DEF Return, to_pipeline_documents
<1>17. ASSUME NEW c \in Callers, get_bundle(c) PROVE TypeOK'
  <2>1. draft' \in [Callers -> SUBSET Docs]
    BY <1>1, <1>3, <1>17 DEF get_bundle
  <2> QED BY <1>1, <1>2, <1>17, <2>1, QuietType DEF get_bundle
<1>18. ASSUME NEW c \in Callers, Die(c) PROVE TypeOK'
  <2>1. draft' \in [Callers -> SUBSET Docs] /\ gone' \in [Callers -> SUBSET Docs]
    BY <1>1, <1>3, <1>18 DEF Die
  <2> QED BY <1>1, <1>2, <1>18, <2>1, QuietType DEF Die
<1>19. CASE UNCHANGED vars
  BY <1>19 DEF vars, TypeOK, decrypted
<1> QED
  BY <1>4, <1>5, <1>6, <1>7, <1>8, <1>9, <1>10, <1>11, <1>12, <1>13, <1>14, <1>15, <1>16, <1>17, <1>18, <1>19
  DEF Next, Request

\* However many callers work on the bundle and whichever of them die: among those that edit its list of
\* documents, only the one that holds the lock is about to store it (TypeOK).
THEOREM TypeCorrect == Spec => []TypeOK
BY InitType, NextType, PTL DEF Spec

-----------------------------------------------------------------------------
(* What the bundle promises of its documents, said of any list of them *)

Within(docs) ==
    /\ Total(docs) <= MaxTotal
    /\ \A d \in docs : d.item \in Contents => d.size <= MaxDocument

\* Other ETags, or two inline documents of other contents.
Differ(d, e) == d.etag # e.etag \/ (d.etag = "" /\ d.item # e.item)

Distinct(docs) == \A d, e \in docs : d = e \/ Differ(d, e)

Sound(docs, n) == Countable(docs) /\ Within(docs) /\ Distinct(docs) /\ \A d \in docs : d.id <= n

LEMMA SoundFewer ==
    ASSUME NEW n, NEW docs, Sound(docs, n), NEW fewer \in SUBSET docs
    PROVE  Sound(fewer, n)
<1>1. Countable(fewer) /\ Total(fewer) <= Total(docs) /\ Total(fewer) \in Nat /\ Total(docs) \in Nat
  BY TotalOfFewer DEF Sound
<1>2. Within(fewer)
  BY <1>1, Limits DEF Sound, Within
<1> QED BY <1>1, <1>2 DEF Sound, Distinct

LEMMA DocIds == \A d \in Docs : d.id \in Nat
<1>1. \A d \in Docs : d.id \in 1 .. MaxIds
  BY Zenon DEF Docs
<1> QED BY <1>1, Limits

LEMMA SoundLater ==
    ASSUME NEW n \in Nat, NEW docs \in SUBSET Docs, Sound(docs, n)
    PROVE  Sound(docs, n + 1)
<1>1. \A d \in docs : d.id \in Nat
  BY DocIds
<1>2. \A d \in docs : d.id <= n + 1
  BY <1>1 DEF Sound
<1> QED BY <1>2 DEF Sound

LEMMA SoundMore ==
    ASSUME NEW n \in Nat, NEW docs \in SUBSET Docs, Sound(docs, n),
           NEW new, new.id = n + 1, new.size \in Nat,
           Total(docs) + new.size <= MaxTotal,
           new.item \in Contents => new.size <= MaxDocument,
           \A d \in docs : Differ(d, new)
    PROVE  Sound(docs \cup {new}, n + 1)
<1> DEFINE more == docs \cup {new}
<1>1. \A d \in docs : d.id \in Nat /\ d.id <= n
  BY DocIds DEF Sound
<1>2. new \notin docs
  BY <1>1
<1>3. Countable(more) /\ Total(more) = Total(docs) + new.size
  BY <1>2, TotalAdd DEF Sound
<1>4. Within(more)
  BY <1>3 DEF Within, Sound
<1>5. \A d \in docs : Differ(new, d)
  BY DEF Differ
<1>6. Distinct(more)
  BY <1>5 DEF Distinct, Sound
<1>7. \A d \in more : d.id <= n + 1
  BY <1>1
<1> QED BY <1>3, <1>4, <1>6, <1>7 DEF Sound

\* What the write of c takes out of the bundle.
Removing(c) == IF At(c, "writing") THEN gone[c] ELSE {}

\* The draft of the lock's holder lacks only what it removes, and what has been out of the bundle: a run
\* or a deletion may have changed the bundle behind its back.
LacksOnlyGone(c) == lock = c => bundle.docs \ draft[c] \subseteq Removing(c) \cup left

\* What a run is about to store again is in the bundle still, or has been out of it.
StoresAgain(c) == At(c, "submitting") => draft[c] \ left \subseteq bundle.docs

BundleInv ==
    /\ TypeOK
    /\ Sound(bundle.docs, ids)
    /\ \A c \in Callers : Sound(draft[c], ids) /\ LacksOnlyGone(c) /\ StoresAgain(c)

LEMMA BundleInit == Init => BundleInv
<1> SUFFICES ASSUME Init PROVE BundleInv
  OBVIOUS
<1>1. Sound({}, 0)
  BY TotalOfNone, Limits DEF Sound, Within, Distinct
<1> QED BY <1>1, InitType DEF Init, BundleInv, LacksOnlyGone, StoresAgain

\* Whatever is taken out of the bundle is remembered.
Remembered == left \subseteq left' /\ bundle.docs \ bundle'.docs \subseteq left'

LEMMA StepsRemember == ASSUME [Next]_vars PROVE Remembered
<1>1. ASSUME NEW c \in Callers, Store(c) \/ Submit(c) PROVE Remembered
  BY <1>1 DEF Store, Submit, Put, Remembered
<1>2. ASSUME NEW c \in Callers, DropRecord(c) PROVE Remembered
  BY <1>2 DEF DropRecord, Remembered
<1>3. ASSUME UNCHANGED <<bundle, left>> PROVE Remembered
  BY <1>3 DEF Remembered
<1>4. ASSUME NEW c \in Callers, Request(c), ~Store(c), ~Submit(c), ~DropRecord(c)
      PROVE  UNCHANGED <<bundle, left>>
  BY <1>4 DEF Request, add_documents, AppendDocument, head_object, unlock, put_object, RefuseReference,
              add_object_reference, remove_document, delete, Purge, Return, to_pipeline_documents,
              get_bundle, Die
<1> QED BY <1>1, <1>2, <1>3, <1>4 DEF Next, vars

\* A run that goes on being about to store keeps what it is about to store.
LEMMA RunKeeps ==
    ASSUME Remembered, NEW c \in Callers, StoresAgain(c), pc'[c] = pc[c], draft'[c] = draft[c]
    PROVE  StoresAgain(c)'
BY DEF Remembered, StoresAgain, At

\* A caller takes the lock with a draft that is sound and lacks nothing else.
LEMMA EnterKeeps ==
    ASSUME BundleInv, TypeOK', Remembered, NEW c \in Callers, NEW op \in Locked, NEW docs,
           Enter(c, op, docs), UNCHANGED bundle,
           Sound(bundle.docs, ids'), Sound(docs, ids'),
           bundle.docs \ docs \subseteq (IF op = "writing" THEN gone'[c] ELSE {}),
           ids' = ids \/ ids' = ids + 1
    PROVE  BundleInv'
<1>1. /\ lock' = c /\ draft' = [draft EXCEPT ![c] = docs] /\ pc' = [pc EXCEPT ![c] = [op |-> op]]
      /\ draft \in [Callers -> SUBSET Docs] /\ pc \in [Callers -> Steps] /\ ids \in Nat
  BY IdsAreNumbers DEF Enter, Goto, BundleInv, TypeOK
<1>2. ASSUME NEW b \in Callers PROVE Sound(draft'[b], ids')
  <2>1. CASE b = c
    BY <1>1, <2>1
  <2>2. CASE b # c
    BY <1>1, <2>2, SoundLater DEF BundleInv
  <2> QED BY <2>1, <2>2
<1>3. ASSUME NEW b \in Callers PROVE LacksOnlyGone(b)' /\ StoresAgain(b)'
  <2>1. CASE b = c
    <3>1. pc'[c].op = op /\ draft'[c] = docs
      BY <1>1
    <3>2. LacksOnlyGone(c)'
      BY <1>1, <3>1 DEF LacksOnlyGone, Removing, At
    <3> QED BY <2>1, <3>1, <3>2 DEF StoresAgain, At, Locked
  <2>2. CASE b # c
    <3>1. lock' # b /\ pc'[b] = pc[b] /\ draft'[b] = draft[b]
      BY <1>1, <2>2
    <3> QED BY <3>1, RunKeeps DEF LacksOnlyGone, BundleInv
  <2> QED BY <2>1, <2>2
<1> QED BY <1>2, <1>3 DEF BundleInv

\* A step of c outside of the lock that touches no draft leaves what was so, unless it is about to store.
LEMMA OthersKeep ==
    ASSUME BundleInv, TypeOK', Remembered, NEW c \in Callers, lock # c, UNCHANGED <<lock, ids, draft>>,
           bundle'.docs \subseteq bundle.docs, pc'[c].op # "submitting",
           \A b \in Callers \ {c} : gone'[b] = gone[b] /\ pc'[b] = pc[b]
    PROVE  BundleInv'
<1>1. Sound(bundle'.docs, ids')
  BY SoundFewer DEF BundleInv
<1>2. ASSUME NEW b \in Callers PROVE LacksOnlyGone(b)' /\ StoresAgain(b)'
  <2>1. CASE b = c
    BY <2>1 DEF LacksOnlyGone, StoresAgain, At
  <2>2. CASE b # c
    <3>1. pc'[b] = pc[b] /\ gone'[b] = gone[b] /\ draft'[b] = draft[b]
      BY <2>2
    <3>2. LacksOnlyGone(b)'
      BY <3>1 DEF BundleInv, LacksOnlyGone, Removing, At, Remembered
    <3> QED BY <3>1, <3>2, RunKeeps DEF BundleInv
  <2> QED BY <2>1, <2>2
<1> QED BY <1>1, <1>2 DEF BundleInv

LEMMA BundleNext == ASSUME BundleInv, [Next]_vars PROVE BundleInv'
<1> USE DEF At
<1>1. /\ TypeOK /\ TypeOK' /\ Remembered
      /\ bundle \in [exists : BOOLEAN, docs : SUBSET Docs]
      /\ draft \in [Callers -> SUBSET Docs] /\ gone \in [Callers -> SUBSET Docs]
      /\ ids \in Nat /\ Free \notin Callers /\ pc \in [Callers -> Steps]
      /\ \A c \in Callers : pc[c].op \in Locked <=> lock = c
  <2>1. Free \notin Callers
    BY DraftAssumption, Zenon DEF DraftAssumption
  <2> QED BY <2>1, NextType, StepsRemember, IdsAreNumbers DEF BundleInv, TypeOK
<1>2. /\ bundle.docs \in SUBSET Docs /\ Sound(bundle.docs, ids)
      /\ \A c \in Callers : Sound(draft[c], ids) /\ LacksOnlyGone(c) /\ StoresAgain(c)
  BY <1>1 DEF BundleInv
<1>3. ASSUME NEW c \in Callers, add_documents(c) PROVE BundleInv'
  <2>1. bundle.docs \ bundle.docs = {} /\ "adding" \in Locked
    BY DEF Locked
  <2> QED BY <1>1, <1>2, <1>3, <2>1, EnterKeeps DEF add_documents
<1>4. ASSUME NEW c \in Callers, NEW x \in Contents, AppendDocument(c, x) PROVE BundleInv'
  <2> DEFINE new == Inline(x)
  <2>1. /\ new.id = ids + 1 /\ new.item = x /\ new.etag = "" /\ new.size = Size[x]
        /\ x \notin {d.item : d \in draft[c]}
    BY <1>4 DEF Inline, AppendDocument
  <2>2. Size[x] \in Nat
    <3>1. Size \in [Contents -> Nat]
      BY DraftAssumption, Zenon DEF DraftAssumption
    <3> QED BY <3>1
  <2>3. draft' = [draft EXCEPT ![c] = @ \cup {new}] /\ ids' = ids + 1 /\ UNCHANGED <<bundle, lock, gone, pc>>
    BY <1>4 DEF AppendDocument
  <2>4. Size[x] <= MaxDocument /\ Total(draft[c]) + Size[x] <= MaxTotal
    BY <1>4 DEF AppendDocument, Fits
  <2> HIDE DEF new
  <2>5. \A d \in draft[c] : Differ(d, new)
    BY <2>1 DEF Differ
  <2>6. Sound(draft[c] \cup {new}, ids + 1)
    BY <1>1, <1>2, <2>1, <2>2, <2>4, <2>5, SoundMore
  <2>7. Sound(bundle'.docs, ids')
    BY <1>1, <1>2, <2>3, SoundLater
  <2>8. ASSUME NEW b \in Callers PROVE Sound(draft'[b], ids') /\ LacksOnlyGone(b)' /\ StoresAgain(b)'
    <3>1. CASE b = c
      <4>1. draft'[c] = draft[c] \cup {new} /\ pc'[c].op = "adding"
        BY <1>1, <1>4, <2>3 DEF AppendDocument
      <4>2. LacksOnlyGone(c)'
        BY <1>1, <1>2, <2>3, <4>1 DEF LacksOnlyGone, Removing, Remembered
      <4> QED BY <2>3, <2>6, <3>1, <4>1, <4>2 DEF StoresAgain
    <3>2. CASE b # c
      <4>1. draft'[b] = draft[b] /\ pc'[b] = pc[b]
        BY <1>1, <2>3, <3>2
      <4>2. Sound(draft'[b], ids')
        BY <1>1, <1>2, <2>3, <4>1, SoundLater
      <4>3. LacksOnlyGone(b)'
        BY <1>1, <1>2, <2>3, <4>1 DEF LacksOnlyGone, Removing, Remembered
      <4> QED BY <1>1, <1>2, <4>1, <4>2, <4>3, RunKeeps
    <3> QED BY <3>1, <3>2
  <2> QED BY <1>1, <2>7, <2>8 DEF BundleInv
<1>5. ASSUME NEW c \in Callers, add_object_reference(c) PROVE BundleInv'
  <2>1. pc[c].key \in Keys /\ pc[c].etag \in Etags /\ pc[c].size \in Nat
    BY <1>1, <1>5, LookedAt DEF add_object_reference
  <2>2. pc[c].key \notin Contents /\ pc[c].etag # "" /\ "writing" \in Locked
    BY <2>1, DraftAssumption DEF DraftAssumption, Locked
  <2>3. CASE Duplicate(pc[c])
    <3>1. Enter(c, "writing", bundle.docs) /\ UNCHANGED <<bundle, ids>> /\ bundle.docs \ bundle.docs = {}
      BY <1>5, <2>3 DEF add_object_reference
    <3> QED BY <1>1, <1>2, <2>2, <3>1, EnterKeeps
  <2>4. CASE ~Duplicate(pc[c])
    <3> DEFINE new == Reference(pc[c])
    <3>1. new.id = ids + 1 /\ new.item = pc[c].key /\ new.etag = pc[c].etag /\ new.size = pc[c].size
      BY DEF Reference
    <3>2. Enter(c, "writing", bundle.docs \cup {new}) /\ ids' = ids + 1 /\ UNCHANGED bundle
      BY <1>5, <2>4 DEF add_object_reference
    <3> HIDE DEF new
    <3>3. \A d \in bundle.docs : Differ(d, new)
      <4>1. \A d \in bundle.docs : d.etag # pc[c].etag
        BY <2>4 DEF Duplicate
      <4> QED BY <3>1, <4>1 DEF Differ
    <3>4. Total(bundle.docs) + new.size <= MaxTotal
      BY <1>5, <3>1 DEF add_object_reference, ReferenceFits
    <3>5. Sound(bundle.docs \cup {new}, ids + 1)
      BY <1>1, <1>2, <2>1, <2>2, <3>1, <3>3, <3>4, SoundMore
    <3>6. Sound(bundle.docs, ids + 1)
      BY <1>1, <1>2, SoundLater
    <3>7. bundle.docs \ (bundle.docs \cup {new}) = {}
      OBVIOUS
    <3> QED BY <1>1, <2>2, <3>2, <3>5, <3>6, <3>7, EnterKeeps
  <2> QED BY <2>3, <2>4
<1>6. ASSUME NEW c \in Callers, NEW id \in 1 .. MaxIds, remove_document(c, id) PROVE BundleInv'
  <2> DEFINE kept == {d \in bundle.docs : d.id # id}
             removed == {d \in bundle.docs : d.id = id}
  <2>1. Sound(kept, ids) /\ bundle.docs \ kept \subseteq removed /\ "writing" \in Locked
    BY <1>2, SoundFewer DEF Locked
  <2>2. gone'[c] = removed
    BY <1>1, <1>6 DEF remove_document
  <2>3. Enter(c, "writing", kept) /\ UNCHANGED <<bundle, ids>>
    BY <1>6 DEF remove_document
  <2> HIDE DEF kept, removed
  <2> QED BY <1>1, <1>2, <2>1, <2>2, <2>3, EnterKeeps
<1>7. ASSUME NEW c \in Callers, Store(c) \/ Submit(c) \/ Die(c) PROVE BundleInv'
  <2>1. Sound({}, ids)
    BY <1>2, SoundFewer
  <2>2. /\ draft' = [draft EXCEPT ![c] = {}] /\ UNCHANGED ids
        /\ Store(c) \/ Die(c) => lock' = (IF lock = c THEN Free ELSE lock)
        /\ Submit(c) => UNCHANGED lock /\ lock # c
        /\ bundle'.docs = bundle.docs \/ bundle'.docs = draft[c]
        /\ Submit(c) => At(c, "submitting") /\ bundle'.docs = draft[c]
    BY <1>1, <1>7 DEF Store, Submit, Die, Put, Locked
  <2>3. Sound(bundle'.docs, ids)
    BY <1>2, <2>2
  <2>4. \A b \in Callers : Sound(draft'[b], ids')
    BY <1>1, <1>2, <2>1, <2>2
  <2>5. pc'[c].op \in {"purging", "idle"} /\ \A b \in Callers \ {c} : pc'[b] = pc[b] /\ draft'[b] = draft[b]
    BY <1>1, <1>7, <2>2 DEF Store, Submit, Die, Goto, Idle
  <2>6. ASSUME NEW b \in Callers PROVE LacksOnlyGone(b)'
    <3>1. CASE lock' # b
      BY <3>1 DEF LacksOnlyGone
    <3>2. CASE lock' = b
      <4>1. lock = b /\ b # c /\ ~Store(c)
        BY <1>1, <1>7, <2>2, <3>2 DEF Store
      <4>2. pc'[b] = pc[b] /\ gone'[b] = gone[b] /\ draft'[b] = draft[b]
        BY <1>1, <1>7, <2>5, <4>1 DEF Submit, Die
      <4>3. bundle'.docs \subseteq bundle.docs \cup left
        BY <1>2, <1>7, <2>2, <4>1 DEF StoresAgain, Die
      <4> QED BY <1>1, <1>2, <4>1, <4>2, <4>3 DEF LacksOnlyGone, Removing, Remembered
    <3> QED BY <3>1, <3>2
  <2>7. ASSUME NEW b \in Callers PROVE StoresAgain(b)'
    <3>1. CASE b = c
      BY <2>5, <3>1 DEF StoresAgain
    <3>2. CASE b # c
      BY <1>1, <1>2, <2>5, <3>2, RunKeeps
    <3> QED BY <3>1, <3>2
  <2> QED BY <1>1, <2>2, <2>3, <2>4, <2>6, <2>7 DEF BundleInv
<1>8. ASSUME NEW c \in Callers,
              \/ delete(c) \/ DropRecord(c) \/ Purge(c) \/ Return(c) \/ to_pipeline_documents(c)
              \/ (\E k \in Keys : head_object(c, k)) \/ unlock(c) \/ put_object(c) \/ RefuseReference(c)
      PROVE  BundleInv'
  <2>1. lock # c
    BY <1>1, <1>8 DEF delete, DropRecord, Purge, Return, to_pipeline_documents, head_object, unlock,
                      put_object, RefuseReference, Locked
  <2>2. bundle'.docs \subseteq bundle.docs /\ UNCHANGED <<lock, ids, draft>>
    <3>1. CASE DropRecord(c)
      BY <3>1 DEF DropRecord
    <3>2. CASE ~DropRecord(c)
      BY <1>8, <3>2 DEF delete, Purge, Return, to_pipeline_documents, head_object, unlock, put_object,
                        RefuseReference
    <3> QED BY <3>1, <3>2
  <2>3. \A b \in Callers \ {c} : gone'[b] = gone[b] /\ pc'[b] = pc[b]
    BY <1>1, <1>8 DEF delete, DropRecord, Purge, Return, to_pipeline_documents, head_object, unlock,
                      put_object, RefuseReference, Goto, TypeOK
  <2>4. pc'[c].op # "submitting"
    <3>1. CASE \E k \in Keys : head_object(c, k)
      BY <1>1, <3>1 DEF head_object, Goto
    <3>2. CASE unlock(c)
      BY <1>1, <3>2 DEF unlock, Goto
    <3>3. CASE put_object(c)
      BY <1>1, <3>3 DEF put_object, Goto
    <3>4. CASE delete(c) \/ DropRecord(c) \/ Purge(c) \/ Return(c) \/ to_pipeline_documents(c) \/ RefuseReference(c)
      BY <1>1, <3>4 DEF delete, DropRecord, Purge, Return, to_pipeline_documents, RefuseReference, Goto, Idle
    <3> QED BY <1>8, <3>1, <3>2, <3>3, <3>4
  <2> QED BY <1>1, <2>1, <2>2, <2>3, <2>4, OthersKeep
<1>9. ASSUME NEW c \in Callers, get_bundle(c) PROVE BundleInv'
  <2>1. /\ lock # c /\ UNCHANGED <<bundle, lock, ids, gone>>
        /\ \A b \in Callers \ {c} : pc'[b] = pc[b] /\ draft'[b] = draft[b]
    BY <1>1, <1>9 DEF get_bundle, Locked, Goto
  <2>2. draft'[c] \in {draft[c], bundle.docs} /\ (pc'[c].op = "submitting" => draft'[c] = bundle.docs)
    BY <1>1, <1>9 DEF get_bundle, Goto, Idle
  <2>3. ASSUME NEW b \in Callers PROVE Sound(draft'[b], ids') /\ LacksOnlyGone(b)' /\ StoresAgain(b)'
    <3>1. CASE b = c
      BY <1>2, <2>1, <2>2, <3>1 DEF LacksOnlyGone, StoresAgain
    <3>2. CASE b # c
      <4>1. LacksOnlyGone(b)'
        BY <1>1, <1>2, <2>1, <3>2 DEF LacksOnlyGone, Removing, Remembered
      <4> QED BY <1>1, <1>2, <2>1, <3>2, <4>1, RunKeeps
    <3> QED BY <3>1, <3>2
  <2> QED BY <1>1, <1>2, <2>1, <2>3 DEF BundleInv
<1>10. CASE UNCHANGED vars
  BY <1>1, <1>2, <1>10 DEF vars, BundleInv, LacksOnlyGone, Removing, StoresAgain
<1> QED
  BY <1>3, <1>4, <1>5, <1>6, <1>7, <1>8, <1>9, <1>10 DEF Next, Request

LEMMA BundleHolds == Spec => []BundleInv
BY BundleInit, BundleNext, PTL DEF Spec

\* However many callers add at the same time, the bundle stays within the limit on its total size, and
\* no inline document is above its own (WithinLimits).
THEOREM LimitsHold == Spec => []WithinLimits
<1>1. BundleInv => WithinLimits
  BY DEF BundleInv, Sound, Within, WithinLimits
<1> QED BY <1>1, BundleHolds, PTL

-----------------------------------------------------------------------------
(* The ETags *)

\* What was looked up of file k: unless it is among the files that were decrypted, its only ETag.
Known(k, tag, files) == tag = Etag[k] \/ k \in files

Genuine(d, files) ==
    \/ d.item \in Contents /\ d.etag = ""
    \/ d.item \in Keys /\ Known(d.item, d.etag, files)

AllGenuine(docs, files) == \A d \in docs : Genuine(d, files)

KnownFile(step, files) == step.op \in {"headed", "unlocking"} => Known(step.key, step.etag, files)

EtagInv ==
    /\ TypeOK
    /\ AllGenuine(bundle.docs, decrypted)
    /\ \A c \in Callers : AllGenuine(draft[c], decrypted) /\ KnownFile(pc[c], decrypted)

LEMMA EtagInit == Init => EtagInv
<1> SUFFICES ASSUME Init PROVE EtagInv
  OBVIOUS
<1>1. TypeOK /\ bundle.docs = {} /\ \A c \in Callers : draft[c] = {} /\ pc[c].op = "idle"
  BY InitType DEF Init, Idle
<1> QED BY <1>1 DEF EtagInv, AllGenuine, KnownFile

\* A file is never locked again, so what was known of it stays so.
LEMMA KnownStays ==
    ASSUME NEW files, NEW more, files \subseteq more
    PROVE  /\ \A docs : AllGenuine(docs, files) => AllGenuine(docs, more)
           /\ \A step : KnownFile(step, files) => KnownFile(step, more)
<1>1. \A k, tag : Known(k, tag, files) => Known(k, tag, more)
  BY DEF Known
<1> QED BY <1>1 DEF AllGenuine, Genuine, KnownFile

\* What the caller of a step stores, or keeps to store.
EtagStep(c) ==
    /\ AllGenuine(bundle'.docs, decrypted') /\ AllGenuine(draft'[c], decrypted')
    /\ KnownFile(pc'[c], decrypted')
    /\ \A b \in Callers \ {c} : pc'[b] = pc[b] /\ draft'[b] = draft[b]

LEMMA EtagSteps == ASSUME EtagInv, NEW c \in Callers, Request(c) PROVE EtagStep(c)
<1> USE DEF At
<1>1. /\ TypeOK /\ pc \in [Callers -> Steps] /\ draft \in [Callers -> SUBSET Docs]
      /\ AllGenuine(bundle.docs, decrypted) /\ AllGenuine(draft[c], decrypted)
      /\ AllGenuine({}, decrypted) /\ KnownFile(pc[c], decrypted)
      /\ \A docs : AllGenuine(docs, decrypted) => \A fewer \in SUBSET docs : AllGenuine(fewer, decrypted)
  BY DEF EtagInv, TypeOK, AllGenuine
<1>2. \A step : step.op \notin {"headed", "unlocking"} => KnownFile(step, decrypted)
  BY DEF KnownFile
<1>3. \A docs, d : AllGenuine(docs, decrypted) /\ Genuine(d, decrypted) => AllGenuine(docs \cup {d}, decrypted)
  BY DEF AllGenuine
<1>4. ASSUME NEW x \in Contents, AppendDocument(c, x) PROVE EtagStep(c)
  <2>1. Genuine(Inline(x), decrypted)
    BY DEF Genuine, Inline
  <2> DEFINE new == Inline(x)
  <2>2. draft' = [draft EXCEPT ![c] = @ \cup {new}] /\ UNCHANGED <<bundle, decrypted, pc>>
    BY <1>4 DEF AppendDocument, decrypted
  <2> HIDE DEF new
  <2>3. AllGenuine(draft[c] \cup {new}, decrypted)
    BY <1>1, <1>3, <2>1 DEF new
  <2> QED BY <1>1, <2>2, <2>3 DEF EtagStep
<1>5. ASSUME NEW k \in Keys, head_object(c, k) PROVE EtagStep(c)
  <2>1. /\ pc'[c].op = "headed" /\ pc'[c].key = k
        /\ pc'[c].etag = (IF k \in decrypted THEN opened[k] ELSE Etag[k])
        /\ \A b \in Callers \ {c} : pc'[b] = pc[b]
        /\ UNCHANGED <<bundle, draft>> /\ UNCHANGED decrypted
    BY <1>1, <1>5 DEF head_object, Goto, decrypted
  <2>2. Known(k, pc'[c].etag, decrypted)
    BY <2>1 DEF Known
  <2> QED BY <1>1, <2>1, <2>2 DEF EtagStep, KnownFile
<1>6. ASSUME unlock(c) PROVE EtagStep(c)
  <2>1. /\ pc[c].op = "headed" /\ pc'[c].key = pc[c].key /\ pc'[c].etag = pc[c].etag
        /\ \A b \in Callers \ {c} : pc'[b] = pc[b]
        /\ UNCHANGED <<bundle, decrypted, draft>>
    <3>1. pc[c] = [op |-> pc[c].op, key |-> pc[c].key, etag |-> pc[c].etag, size |-> pc[c].size]
      BY <1>1, <1>6, LookedAt DEF unlock
    <3> QED BY <1>1, <1>6, <3>1 DEF unlock, Goto, decrypted
  <2> QED BY <1>1, <2>1 DEF EtagStep, KnownFile
<1>7. ASSUME put_object(c) PROVE EtagStep(c)
  <2>1. /\ pc[c].op = "unlocking" /\ pc'[c].key = pc[c].key /\ pc'[c].etag = pc[c].etag
        /\ \A b \in Callers \ {c} : pc'[b] = pc[b]
        /\ UNCHANGED <<bundle, draft>> /\ decrypted \subseteq decrypted'
    BY <1>1, <1>7, PutOpens DEF put_object, Goto
  <2>2. KnownFile(pc[c], decrypted')
    BY <1>1, <2>1, KnownStays
  <2>3. KnownFile(pc'[c], decrypted')
    BY <2>1, <2>2 DEF KnownFile
  <2> QED BY <1>1, <2>1, <2>3, KnownStays DEF EtagStep
<1>8. ASSUME add_object_reference(c) PROVE EtagStep(c)
  <2> DEFINE new == Reference(pc[c])
  <2>1. pc[c].key \in Keys /\ Known(pc[c].key, pc[c].etag, decrypted)
    BY <1>1, <1>8, LookedAt DEF add_object_reference, KnownFile
  <2>2. Genuine(new, decrypted)
    BY <2>1 DEF Genuine, Reference
  <2> HIDE DEF new
  <2>3. PICK docs \in {bundle.docs, bundle.docs \cup {new}} : Enter(c, "writing", docs)
    BY <1>8 DEF add_object_reference, new
  <2>4. AllGenuine(docs, decrypted)
    BY <1>1, <1>3, <2>2, <2>3
  <2>5. UNCHANGED <<bundle, decrypted>>
    BY <1>8 DEF add_object_reference, decrypted
  <2> QED BY <1>1, <1>2, <2>3, <2>4, <2>5 DEF EtagStep, Enter, Goto
<1>9. ASSUME add_documents(c) \/ (\E id \in 1 .. MaxIds : remove_document(c, id)) PROVE EtagStep(c)
  <2>1. PICK docs \in SUBSET bundle.docs, op \in {"adding", "writing"} : Enter(c, op, docs)
    BY <1>9 DEF add_documents, remove_document
  <2>2. UNCHANGED <<bundle, decrypted>>
    BY <1>9 DEF add_documents, remove_document, decrypted
  <2> QED BY <1>1, <1>2, <2>1, <2>2 DEF EtagStep, Enter, Goto
<1>10. ASSUME Store(c) \/ Submit(c) \/ Die(c) PROVE EtagStep(c)
  <2>1. /\ draft' = [draft EXCEPT ![c] = {}] /\ UNCHANGED decrypted
        /\ bundle'.docs = bundle.docs \/ bundle'.docs = draft[c]
    <3>1. UNCHANGED opened
      BY <1>10 DEF Store, Submit, Die
    <3> QED BY <1>10, <3>1 DEF Store, Submit, Die, Put, decrypted
  <2>2. pc'[c].op \in {"purging", "idle"} /\ \A b \in Callers \ {c} : pc'[b] = pc[b]
    BY <1>1, <1>10 DEF Store, Submit, Die, Goto, Idle
  <2> QED BY <1>1, <1>2, <2>1, <2>2 DEF EtagStep
<1>11. ASSUME \/ delete(c) \/ DropRecord(c) \/ Purge(c) \/ Return(c) \/ RefuseReference(c)
              \/ to_pipeline_documents(c) \/ get_bundle(c)
       PROVE  EtagStep(c)
  <2>1. bundle'.docs \subseteq bundle.docs /\ UNCHANGED decrypted
    <3>1. CASE DropRecord(c)
      BY <3>1 DEF DropRecord, decrypted
    <3>2. CASE ~DropRecord(c)
      BY <1>11, <3>2 DEF delete, Purge, Return, RefuseReference, to_pipeline_documents, get_bundle, decrypted
    <3> QED BY <3>1, <3>2
  <2>2. /\ pc'[c].op \notin {"headed", "unlocking"}
        /\ \A b \in Callers \ {c} : pc'[b] = pc[b]
    BY <1>1, <1>11 DEF delete, DropRecord, Purge, Return, RefuseReference, to_pipeline_documents, get_bundle,
                       Goto, Idle
  <2>3. /\ draft'[c] = draft[c] \/ draft'[c] = bundle.docs
        /\ \A b \in Callers \ {c} : draft'[b] = draft[b]
    BY <1>1, <1>11 DEF delete, DropRecord, Purge, Return, RefuseReference, to_pipeline_documents, get_bundle
  <2> QED BY <1>1, <1>2, <2>1, <2>2, <2>3 DEF EtagStep
<1> QED BY <1>4, <1>5, <1>6, <1>7, <1>8, <1>9, <1>10, <1>11 DEF Request

LEMMA EtagNext == ASSUME EtagInv, [Next]_vars PROVE EtagInv'
<1>1. CASE UNCHANGED vars
  BY <1>1, NextType DEF vars, EtagInv, decrypted
<1>2. ASSUME NEW c \in Callers, Request(c) PROVE EtagInv'
  <2>1. TypeOK' /\ EtagStep(c)
    BY <1>2, NextType, EtagSteps DEF EtagInv
  <2>2. decrypted \subseteq decrypted'
    <3>1. CASE put_object(c)
      BY <3>1, PutOpens DEF EtagInv
    <3>2. CASE ~put_object(c)
      <4>1. UNCHANGED opened
        BY <1>2, <3>2 DEF Request, add_documents, AppendDocument, head_object, unlock, RefuseReference,
                add_object_reference, remove_document, Store, delete, DropRecord, Purge, Return,
                to_pipeline_documents, get_bundle, Submit, Die
      <4> QED BY <4>1 DEF decrypted
    <3> QED BY <3>1, <3>2
  <2>3. ASSUME NEW b \in Callers PROVE AllGenuine(draft'[b], decrypted') /\ KnownFile(pc'[b], decrypted')
    <3>1. CASE b = c
      BY <2>1, <3>1 DEF EtagStep
    <3>2. CASE b # c
      <4>1. pc'[b] = pc[b] /\ draft'[b] = draft[b]
        BY <2>1, <3>2 DEF EtagStep
      <4> QED BY <2>2, <4>1, KnownStays DEF EtagInv
    <3> QED BY <3>1, <3>2
  <2> QED BY <2>1, <2>3 DEF EtagInv, EtagStep
<1> QED BY <1>1, <1>2 DEF Next

LEMMA EtagsHold == Spec => []EtagInv
BY EtagInit, EtagNext, PTL DEF Spec

\* Whoever added them and in whatever order: no inline content and no ETag is in the bundle twice, and a
\* file can be referenced twice only if it was decrypted, which gave it another ETag (NoDuplicates).
THEOREM NeverDuplicated == Spec => []NoDuplicates
<1>1. BundleInv /\ EtagInv => NoDuplicates
  <2> SUFFICES ASSUME BundleInv, EtagInv, NEW d \in bundle.docs, NEW e \in bundle.docs, d # e
               PROVE  \/ d.item # e.item /\ (d.etag # "" => d.etag # e.etag)
                      \/ d.item = e.item /\ d.etag # e.etag /\ d.item \in decrypted
    BY DEF NoDuplicates
  <2>1. Differ(d, e)
    BY DEF BundleInv, Sound, Distinct
  <2>2. Genuine(d, decrypted) /\ Genuine(e, decrypted)
    BY DEF EtagInv, AllGenuine
  <2>3. CASE d.item # e.item
    BY <2>1, <2>3 DEF Differ
  <2>4. CASE d.item = e.item
    <3>1. d.etag # e.etag
      BY <2>1, <2>4 DEF Differ
    <3>2. d.item \notin Contents \/ d.item \notin Keys
      BY DraftAssumption DEF DraftAssumption
    <3>3. Known(d.item, d.etag, decrypted) /\ Known(d.item, e.etag, decrypted)
      <4>1. CASE d.item \in Contents
        <5>1. d.etag = "" /\ e.etag = ""
          BY <2>2, <2>4, <3>2, <4>1 DEF Genuine
        <5> QED BY <3>1, <5>1
      <4>2. CASE d.item \notin Contents
        BY <2>2, <2>4, <4>2 DEF Genuine
      <4> QED BY <4>1, <4>2
    <3> QED BY <2>4, <3>1, <3>3 DEF Known
  <2> QED BY <2>3, <2>4
<1> QED BY <1>1, BundleHolds, EtagsHold, PTL

-----------------------------------------------------------------------------
(* What leaves the bundle *)

VanishingStep ==
    \A d \in bundle.docs \ bundle'.docs :
        \/ d \in left
        \/ ~bundle'.exists
        \/ \E c \in Callers : At(c, "writing") /\ d \in gone[c]
        \/ \E c \in Callers : At(c, "submitting") /\ bundle'.docs = draft[c]

\* Only three steps change the list: Store takes out what its caller removes, DropRecord takes out all,
\* and Submit is a run's.
LEMMA StepsOnlyRemove == ASSUME BundleInv, [Next]_vars PROVE [VanishingStep]_vars
<1>1. ASSUME NEW c \in Callers, Store(c) PROVE VanishingStep
  <2>1. lock = c
    BY <1>1 DEF Store, BundleInv, TypeOK
  <2>2. bundle.docs \ bundle'.docs \subseteq Removing(c) \cup left
    BY <1>1, <2>1 DEF Store, Put, BundleInv, LacksOnlyGone
  <2> QED BY <2>2 DEF VanishingStep, Removing
<1>2. ASSUME NEW c \in Callers, DropRecord(c) PROVE VanishingStep
  BY <1>2 DEF DropRecord, VanishingStep
<1>3. ASSUME NEW c \in Callers, Submit(c) PROVE VanishingStep
  BY <1>3 DEF Submit, Put, VanishingStep
<1>4. ASSUME UNCHANGED bundle PROVE VanishingStep
  BY <1>4 DEF VanishingStep
<1>5. CASE UNCHANGED vars
  BY <1>5
<1>6. ASSUME NEW c \in Callers, Request(c), ~Store(c), ~DropRecord(c), ~Submit(c) PROVE UNCHANGED bundle
  BY <1>6 DEF Request, add_documents, AppendDocument, head_object, unlock, put_object, RefuseReference,
              add_object_reference, remove_document, delete, Purge, Return, to_pipeline_documents,
              get_bundle, Die
<1> QED BY <1>1, <1>2, <1>3, <1>4, <1>5, <1>6 DEF Next

\* A document that has been in the bundle ever since it was added leaves it through the caller that
\* removes it, with the bundle, or when a run stores the list that it read before: the writes of those
\* that take the lock lose nothing (NothingVanishes).
THEOREM NoLostDocument == Spec => NothingVanishes
<1>1. BundleInv /\ [Next]_vars => [VanishingStep]_vars
  BY StepsOnlyRemove
<1>2. [][VanishingStep]_vars => NothingVanishes
  BY DEF VanishingStep, NothingVanishes
<1> QED BY <1>1, <1>2, BundleHolds, PTL DEF Spec
=============================================================================
