----------------------------- MODULE DraftBundle -----------------------------
(***************************************************************************)
(* Assembling one draft bundle (storage/draft_bundle_store.py): clients add *)
(* inline documents, confirm files that they uploaded to object storage,    *)
(* remove documents, run the pipeline on them and delete the bundle.  The   *)
(* bundle is one record of the job store in Redis; of an uploaded file it   *)
(* holds the storage key, and the ETag and size that were looked up.        *)
(*                                                                          *)
(* Adding and removing happen under the bundle's distributed lock.  Running *)
(* and deleting take none: run_draft_bundle (api/main.py) reads the bundle, *)
(* hands its documents to the pipeline and stores what it read as           *)
(* submitted.  Objects are written and deleted outside of any transaction   *)
(* with the record.  The lock is that of module RecordStore, with no live   *)
(* holder outliving its lease: a holder that dies leaves it to the lease.   *)
(*                                                                          *)
(* Abstracted: names, folders, sources and times; the status of the bundle, *)
(* which nothing decides on; the relevance check, which changes nothing (a  *)
(* run that it refuses is one that dies); the list of skipped files in the  *)
(* answer.  A password that is wrong, or a file too large to decrypt, ends  *)
(* the request like its death.                                              *)
(***************************************************************************)
EXTENDS Naturals, FiniteSets

CONSTANTS
    Callers,      \* concurrent requests on the bundle
    Free,         \* nobody holds the lock
    Contents,     \* contents of inline documents, with their encoding
    Keys,         \* storage keys of uploaded files
    Protected,    \* the uploads that a password opens
    Size,         \* sizes of the contents
    Etags,        \* what S3 may report as the ETag of an object
    Etag,         \* Etag[k]: that of file k as it was uploaded
    Opened,       \* those that a decrypted file may get (in a zip it depends on the time)
    ObjectSize,   \* ObjectSize[<<k, opened>>]: the size of file k, before and after it is decrypted
    MaxDocument,  \* MAX_DOCUMENT_BYTES
    MaxTotal,     \* MAX_BUNDLE_TOTAL_BYTES
    MaxIds        \* bound: documents ever added

Items == Contents \cup Keys
Files == Keys \X BOOLEAN

ASSUME DraftAssumption ==
    /\ Free \notin Callers
    /\ Contents \cap Keys = {} /\ Protected \subseteq Keys
    /\ Size \in [Contents -> Nat] /\ ObjectSize \in [Files -> Nat]
    /\ Etag \in [Keys -> Etags] /\ Opened \subseteq Etags /\ "" \notin Etags
    /\ {MaxDocument, MaxTotal, MaxIds} \subseteq Nat

VARIABLES
    bundle,     \* the stored record: whether it exists, and its documents
    objects,    \* the keys in object storage
    opened,     \* opened[k]: the ETag of file k since it was written anew without its password, or ""
    lock,       \* the caller that holds the bundle's lock, or Free
    pc,         \* pc[c]: where the request of caller c stands, and what it looked up
    draft,      \* draft[c]: the documents that c is about to store
    gone,       \* gone[c]: the documents that c takes out of the bundle
    ids,        \* how many document ids have been handed out
    left        \* history, for the properties: the documents that have been out of the bundle again

vars == <<bundle, objects, opened, lock, pc, draft, gone, ids, left>>

\* An inline document has no ETag.
Docs == [id : 1 .. MaxIds, item : Items, etag : Etags \cup {""}, size : Nat]
Idle == [op |-> "idle"]
Looked == [op : {"headed"}, key : Keys, etag : Etags, size : Nat]
             \cup [op : {"unlocking"}, key : Protected, etag : Etags, size : Nat]
Steps == {Idle} \cup Looked
           \cup [op : {"adding", "writing", "deleting", "purging", "running", "submitting"}]

\* Between the lock and its release.
Locked == {"adding", "writing"}

At(c, op) == pc[c].op = op
Goto(c, step) == pc' = [pc EXCEPT ![c] = step]

\* Every byte of every document, by the size it was added with; to add up sizes is to count them.
Bytes(docs) == UNION {{d} \X (1 .. d.size) : d \in docs}
Total(docs) == Cardinality(Bytes(docs))
decrypted == {k \in Keys : opened[k] # ""}
References(docs) == {d \in docs : d.item \in Keys}

-----------------------------------------------------------------------------

\* A bundle that was just created; the files are uploaded already.
Init ==
    /\ bundle = [exists |-> TRUE, docs |-> {}]
    /\ objects = Keys /\ opened = [k \in Keys |-> ""]
    /\ lock = Free
    /\ pc = [c \in Callers |-> Idle]
    /\ draft = [c \in Callers |-> {}]
    /\ gone = [c \in Callers |-> {}]
    /\ ids = 0 /\ left = {}

\* mutant: the bundle is not locked
AlwaysFree == TRUE

LockFree == lock = Free

\* _bundle_lock and the read behind it: c goes on to step op with docs.  Another
\* caller has to wait, or gives up with DraftBundleBusyError.
Enter(c, op, docs) ==
    /\ LockFree
    /\ bundle.exists
    /\ lock' = c
    /\ Goto(c, [op |-> op])
    /\ draft' = [draft EXCEPT ![c] = docs]

\* The record is stored with docs, whatever it holds by now.
Put(docs) ==
    /\ bundle' = [exists |-> TRUE, docs |-> docs]
    /\ left' = left \cup (bundle.docs \ docs)

\* mutant: only the document itself is measured
FitsAlone(docs, x) == Size[x] <= MaxDocument

Fits(docs, x) == Size[x] <= MaxDocument /\ Total(docs) + Size[x] <= MaxTotal

add_documents(c) ==
    /\ At(c, "idle")
    /\ Enter(c, "adding", bundle.docs)
    /\ UNCHANGED <<bundle, objects, opened, gone, ids, left>>

Inline(x) == [id |-> ids + 1, item |-> x, etag |-> "", size |-> Size[x]]

\* One document of the loop of add_documents.  One that is skipped changes
\* nothing: its content counts as seen, but since the list only grows it would
\* not fit a second time either.
AppendDocument(c, x) ==
    /\ At(c, "adding")
    /\ x \notin {d.item : d \in draft[c]}
    /\ Fits(draft[c], x)
    /\ ids < MaxIds
    /\ draft' = [draft EXCEPT ![c] = @ \cup {Inline(x)}]
    /\ ids' = ids + 1
    /\ UNCHANGED <<bundle, objects, opened, lock, pc, gone, left>>

\* confirm_draft_document_upload asks for the object before anything else.
head_object(c, k) ==
    /\ At(c, "idle")
    /\ k \in objects
    /\ Goto(c, [op |-> "headed", key |-> k, etag |-> IF k \in decrypted THEN opened[k] ELSE Etag[k],
                size |-> ObjectSize[<<k, k \in decrypted>>]])
    /\ UNCHANGED <<bundle, objects, opened, lock, draft, gone, ids, left>>

\* The client sent the password, and the file was not opened before.
unlock(c) ==
    /\ At(c, "headed")
    /\ pc[c].key \in (Protected \cap objects) \ decrypted
    /\ Goto(c, [pc[c] EXCEPT !.op = "unlocking"])
    /\ UNCHANGED <<bundle, objects, opened, lock, draft, gone, ids, left>>

\* The object is written anew, even if it was deleted since.  Its size is known; its ETag is a new one,
\* and the request goes on with that of the old.
put_object(c) ==
    /\ At(c, "unlocking")
    /\ objects' = objects \cup {pc[c].key}
    /\ \E tag \in Opened : opened' = [opened EXCEPT ![pc[c].key] = tag]
    /\ Goto(c, [op |-> "headed", key |-> pc[c].key, etag |-> pc[c].etag,
                size |-> ObjectSize[<<pc[c].key, TRUE>>]])
    /\ UNCHANGED <<bundle, lock, draft, gone, ids, left>>

ReferenceFits(size) == Total(bundle.docs) + size <= MaxTotal

\* mutant: uploads are compared by their keys
SameKey(file) == \E d \in References(bundle.docs) : d.item = file.key

Duplicate(file) == \E d \in bundle.docs : d.etag = file.etag

\* BundleTooLargeError, or no such bundle any more.
RefuseReference(c) ==
    /\ At(c, "headed")
    /\ bundle.exists => LockFree /\ ~ReferenceFits(pc[c].size)
    /\ Goto(c, Idle)
    /\ UNCHANGED <<bundle, objects, opened, lock, draft, gone, ids, left>>

\* delete_object, which swallows its own failures.
Deleted(item) == objects' \in {objects, objects \ {item}}

Reference(file) == [id |-> ids + 1, item |-> file.key, etag |-> file.etag, size |-> file.size]

\* A second copy of a file is not referenced, and its object is deleted.
add_object_reference(c) ==
    /\ At(c, "headed")
    /\ ReferenceFits(pc[c].size)
    /\ ids < MaxIds
    /\ IF Duplicate(pc[c])
       THEN /\ Enter(c, "writing", bundle.docs)
            /\ Deleted(pc[c].key)
            /\ UNCHANGED ids
       ELSE /\ Enter(c, "writing", bundle.docs \cup {Reference(pc[c])})
            /\ ids' = ids + 1
            /\ UNCHANGED objects
    /\ UNCHANGED <<bundle, opened, gone, left>>

\* An unknown id removes nothing, but the record is stored again.
remove_document(c, id) ==
    /\ At(c, "idle")
    /\ Enter(c, "writing", {d \in bundle.docs : d.id # id})
    /\ gone' = [gone EXCEPT ![c] = {d \in bundle.docs : d.id = id}]
    /\ UNCHANGED <<bundle, objects, opened, ids, left>>

\* The record is stored and the lock given back; the objects of what was
\* removed are deleted afterwards.
Store(c) ==
    /\ pc[c].op \in Locked
    /\ Put(draft[c])
    /\ lock' = IF lock = c THEN Free ELSE lock
    /\ Goto(c, [op |-> "purging"])
    /\ draft' = [draft EXCEPT ![c] = {}]
    /\ UNCHANGED <<objects, opened, gone, ids>>

\* delete takes no lock: it reads the record, deletes it, then the objects.
delete(c) ==
    /\ At(c, "idle")
    /\ bundle.exists
    /\ gone' = [gone EXCEPT ![c] = bundle.docs]
    /\ Goto(c, [op |-> "deleting"])
    /\ UNCHANGED <<bundle, objects, opened, lock, draft, ids, left>>

DropRecord(c) ==
    /\ At(c, "deleting")
    /\ bundle' = [exists |-> FALSE, docs |-> {}]
    /\ left' = left \cup bundle.docs
    /\ Goto(c, [op |-> "purging"])
    /\ UNCHANGED <<objects, opened, lock, draft, gone, ids>>

\* The objects of removed documents go one at a time; an inline document has none.
Purge(c) ==
    /\ At(c, "purging")
    /\ \E d \in gone[c] :
          /\ gone' = [gone EXCEPT ![c] = @ \ {d}]
          /\ Deleted(d.item)
    /\ UNCHANGED <<bundle, opened, lock, pc, draft, ids, left>>

Return(c) ==
    /\ At(c, "purging") /\ gone[c] = {}
    /\ Goto(c, Idle)
    /\ UNCHANGED <<bundle, objects, opened, lock, draft, gone, ids, left>>

\* run_draft_bundle takes the documents for the pipeline.
to_pipeline_documents(c) ==
    /\ At(c, "idle")
    /\ bundle.exists /\ bundle.docs # {}
    /\ Goto(c, [op |-> "running"])
    /\ UNCHANGED <<bundle, objects, opened, lock, draft, gone, ids, left>>

\* It reads the bundle a second time, and keeps what it read.
get_bundle(c) ==
    /\ At(c, "running")
    /\ IF bundle.exists
       THEN Goto(c, [op |-> "submitting"]) /\ draft' = [draft EXCEPT ![c] = bundle.docs]
       ELSE Goto(c, Idle) /\ UNCHANGED draft
    /\ UNCHANGED <<bundle, objects, opened, lock, gone, ids, left>>

\* After the dispatch, or for lending after the whole pipeline, that record is stored as submitted.
Submit(c) ==
    /\ At(c, "submitting")
    /\ Put(draft[c])
    /\ Goto(c, Idle)
    /\ draft' = [draft EXCEPT ![c] = {}]
    /\ UNCHANGED <<objects, opened, lock, gone, ids>>

\* The request dies: its lock comes free when the lease has run out.
Die(c) ==
    /\ ~At(c, "idle")
    /\ Goto(c, Idle)
    /\ lock' = IF lock = c THEN Free ELSE lock
    /\ draft' = [draft EXCEPT ![c] = {}]
    /\ gone' = [gone EXCEPT ![c] = {}]
    /\ UNCHANGED <<bundle, objects, opened, ids, left>>

Request(c) ==
    \/ add_documents(c) \/ \E x \in Contents : AppendDocument(c, x)
    \/ \E k \in Keys : head_object(c, k)
    \/ unlock(c) \/ put_object(c)
    \/ RefuseReference(c)
    \/ add_object_reference(c)
    \/ \E id \in 1 .. MaxIds : remove_document(c, id)
    \/ delete(c)
    \/ to_pipeline_documents(c) \/ get_bundle(c) \/ Submit(c)
    \/ Store(c) \/ DropRecord(c) \/ Purge(c) \/ Return(c) \/ Die(c)

Next == \E c \in Callers : Request(c)

Spec == Init /\ [][Next]_vars

-----------------------------------------------------------------------------
\* Properties

\* Everything is well formed, and of those that edit the list of documents
\* (a run and a deletion do not) the one that is about to store it holds the
\* lock, alone.
TypeOK ==
    /\ bundle \in [exists : BOOLEAN, docs : SUBSET Docs]
    /\ objects \subseteq Keys
    /\ opened \in [Keys -> Opened \cup {""}] /\ decrypted \subseteq Protected
    /\ lock \in Callers \cup {Free}
    /\ pc \in [Callers -> Steps]
    /\ draft \in [Callers -> SUBSET Docs]
    /\ gone \in [Callers -> SUBSET Docs]
    /\ ids \in 0 .. MaxIds
    /\ left \subseteq Docs
    /\ \A c \in Callers : pc[c].op \in Locked <=> lock = c

\* However many callers add at the same time, and whatever earlier list a run
\* stores again, the bundle stays within the limit on its total size, and no
\* inline document is above its own.
WithinLimits ==
    /\ Total(bundle.docs) <= MaxTotal
    /\ \A d \in bundle.docs : d.item \in Contents => d.size <= MaxDocument

\* No inline content and no ETag is in the bundle twice, whoever added it; and
\* no file is referenced twice unless it was decrypted, which gave it a second
\* ETag.  An upload is not compared with inline documents.
NoDuplicates ==
    \A d, e \in bundle.docs :
        \/ d = e
        \/ d.item # e.item /\ (d.etag # "" => d.etag # e.etag)
        \/ d.item = e.item /\ d.etag # e.etag /\ d.item \in decrypted

\* "Whichever writes last wins -- the other's documents silently vanish" (the
\* reason for _bundle_lock).  Among those that take the lock this does not
\* happen: a document that has been in the bundle ever since it was added leaves
\* through the caller that removes it, with the bundle, or, as the quotation
\* says, when a run without the lock stores a list that it read before.
NothingVanishes ==
    [][\A d \in bundle.docs \ bundle'.docs :
          \/ d \in left
          \/ ~bundle'.exists
          \/ \E c \in Callers : At(c, "writing") /\ d \in gone[c]
          \/ \E c \in Callers : At(c, "submitting") /\ bundle'.docs = draft[c]]_vars

-----------------------------------------------------------------------------
\* A statement of the code that its behaviour contradicts

\* add_object_reference deletes an object since "the second copy is never
\* referenced": what the bundle references is in object storage.
ReferencesResolve == {d.item : d \in References(bundle.docs)} \subseteq objects
=============================================================================
