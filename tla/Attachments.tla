----------------------------- MODULE Attachments -----------------------------
(***************************************************************************)
(* Attachments: POST and GET /attachments                                  *)
(* (apps/api/src/routes/attachments.ts), which keep a row in Postgres and  *)
(* a blob in MinIO, and the client's upload, view and LRU cache of         *)
(* ciphertexts (apps/web/src/features/attachments).                        *)
(*                                                                         *)
(* An upload is a number; one that is tried again is another number.  What *)
(* the caller does with a reply, to send the reference or to cache the     *)
(* ciphertext, is external.                                                *)
(***************************************************************************)
EXTENDS Naturals, Sequences, FiniteSets, SequencesExt

CONSTANTS
  Uploads,                  \* the uploads, 1..n
  Size,                     \* bytes of the ciphertext of each
  MaxBytes,                 \* cap of the cache
  Writes                    \* calls of putCiphertext that may be under way

ASSUME SizesInBytes == Size \in [Uploads -> Nat] /\ MaxBytes \in Nat

VARIABLES
  posting,                  \* the step of each POST /attachments
  attachments,              \* the rows of the table attachments
  blobs,                    \* the objects in the bucket
  vanished,                 \* objects deleted out of band
  known,                    \* references the recipients have
  viewing,                  \* the step of each AttachmentView
  lru,                      \* the cached rows by lastAccessedAt
  plain,                    \* those with a plaintext
  puts,                     \* calls of putCiphertext that still evict
  cutOff                    \* history: a call ended before its eviction, and
                            \*          no total was read since

uploadVars == <<posting, attachments, blobs, vanished, known>>
cacheVars == <<lru, plain, puts, cutOff>>
attachmentVars == <<uploadVars, viewing, cacheVars>>

AttachmentsInit ==
  /\ posting = [a \in Uploads |-> "none"]
  /\ attachments = {} /\ blobs = {} /\ vanished = {} /\ known = {}
  /\ viewing = [a \in Uploads |-> "off"]
  /\ lru = <<>> /\ plain = {} /\ puts = {} /\ cutOff = FALSE

----------------------------------------------------------------------------
(* uploadAttachment and POST /attachments: the row first, then the blob.   *)

PostAs(a, from, to) ==
  /\ posting[a] = from
  /\ posting' = [posting EXCEPT ![a] = to]
  /\ UNCHANGED <<viewing, cacheVars>>

Post(a) == PostAs(a, "none", "insert") /\ UNCHANGED <<attachments, blobs, vanished, known>>

InsertAttachment(a) ==
  /\ PostAs(a, "insert", "put")
  /\ attachments' = attachments \cup {a}
  /\ UNCHANGED <<blobs, vanished, known>>

PutObject(a) ==
  /\ PostAs(a, "put", "answer")
  /\ blobs' = blobs \cup {a}
  /\ UNCHANGED <<attachments, vanished, known>>

(* A refused upload, a failed query or putObject, a crash or a lost reply. *)
PostFails(a) ==
  /\ \E step \in {"insert", "put", "answer"} : PostAs(a, step, "ended")
  /\ UNCHANGED <<attachments, blobs, vanished, known>>

ReferenceReturned(a) ==
  /\ PostAs(a, "answer", "ended")
  /\ known' = known \cup {a}
  /\ UNCHANGED <<attachments, blobs, vanished>>

Vanish(a) ==
  /\ a \in blobs
  /\ blobs' = blobs \ {a}
  /\ vanished' = vanished \cup {a}
  /\ UNCHANGED <<posting, attachments, known, viewing, cacheVars>>

----------------------------------------------------------------------------
(* The cache: every call is a transaction, an eviction is two.             *)

RowOf(a) == CHOOSE i \in DOMAIN lru : lru[i] = a
Touched(a) == Append(IF a \in ToSet(lru) THEN RemoveAt(lru, RowOf(a)) ELSE lru, a)

(* The sum of their sizes is the number of their bytes.                    *)
Bytes(cached) == UNION {{a} \X (1..Size[a]) : a \in cached}
SizeOf(cached) == Cardinality(Bytes(cached))
TotalBytes == SizeOf(ToSet(lru))

\* Mutant of PutCiphertext: the total is read first, the row is put after it.
PutCiphertextLast(w, a) ==
  /\ a \in known
  /\ \A p \in puts : p.call # w
  /\ lru' = Touched(a)
  /\ puts' = puts \cup {[call |-> w, id |-> a, total |-> TotalBytes]}
  /\ UNCHANGED <<uploadVars, viewing, plain, cutOff>>

(* The row is committed; several calls may put one attachment.             *)
PutCiphertext(w, a) ==
  /\ a \in known
  /\ \A p \in puts : p.call # w
  /\ lru' = Touched(a)
  /\ puts' = puts \cup {[call |-> w, id |-> a, total |-> 0]}
  /\ UNCHANGED <<uploadVars, viewing, plain, cutOff>>

(* evictIfOverCap: the sum, and in another transaction the deletions.      *)
ReadTotal(p) ==
  /\ p.total = 0
  /\ puts' = (puts \ {p}) \cup
       (IF TotalBytes > MaxBytes THEN {[p EXCEPT !.total = TotalBytes]} ELSE {})
  /\ cutOff' = FALSE
  /\ UNCHANGED <<uploadVars, viewing, lru, plain>>

Evicted(total) ==
  LET residual(k) == total - SizeOf({lru[i] : i \in 1..k})
  IN  Min({k \in 1..Len(lru) : residual(k) <= MaxBytes} \cup {Len(lru)})

Evict(p) ==
  /\ p.total > 0
  /\ puts' = puts \ {p}
  /\ lru' = IF p.total <= MaxBytes THEN lru
            ELSE SubSeq(lru, Evicted(p.total) + 1, Len(lru))
  /\ plain' = plain \cap ToSet(lru')
  /\ UNCHANGED <<uploadVars, viewing, cutOff>>

(* The page is loaded again, or IndexedDB aborts the transaction, between  *)
(* the commit of the row and that of the deletions.                        *)
PutCutOff(p) ==
  /\ puts' = puts \ {p}
  /\ cutOff' = TRUE
  /\ UNCHANGED <<uploadVars, viewing, lru, plain>>

----------------------------------------------------------------------------
(* AttachmentView: the cache, else GET /attachments/:id, then the cache.   *)

Shows(a, what) == viewing' = [viewing EXCEPT ![a] = what]

View(a) ==
  /\ a \in known
  /\ viewing[a] \in {"off", "error"}
  /\ Shows(a, "cache")
  /\ UNCHANGED <<uploadVars, cacheVars>>

GetByAttachmentId(a) ==
  /\ viewing[a] = "cache"
  /\ Shows(a, IF a \in plain THEN "shown" ELSE "row")
  /\ lru' = IF a \in ToSet(lru) THEN Touched(a) ELSE lru
  /\ UNCHANGED <<uploadVars, plain, puts, cutOff>>

ReadRow(a) ==
  /\ viewing[a] = "row"
  /\ Shows(a, IF a \in attachments THEN "head" ELSE "unavailable")
  /\ UNCHANGED <<uploadVars, cacheVars>>

HeadObject(a) ==
  /\ viewing[a] = "head"
  /\ Shows(a, IF a \in blobs THEN "body" ELSE "unavailable")
  /\ UNCHANGED <<uploadVars, cacheVars>>

(* getObject, the decryption and putPlaintext, which needs a row.          *)
GetObject(a) ==
  /\ viewing[a] = "body"
  /\ a \in blobs
  /\ Shows(a, "shown")
  /\ lru' = IF a \in ToSet(lru) THEN Touched(a) ELSE lru
  /\ plain' = IF a \in ToSet(lru) THEN plain \cup {a} ELSE plain
  /\ UNCHANGED <<uploadVars, puts, cutOff>>

GetFails(a) ==
  /\ viewing[a] \in {"row", "head", "body"}
  /\ Shows(a, "error")
  /\ UNCHANGED <<uploadVars, cacheVars>>

Unview(a) ==
  /\ viewing[a] \notin {"off"}
  /\ Shows(a, "off")
  /\ UNCHANGED <<uploadVars, cacheVars>>

AttachmentsNext ==
  \/ \E a \in Uploads :
       \/ Post(a) \/ InsertAttachment(a) \/ PutObject(a) \/ PostFails(a)
       \/ ReferenceReturned(a) \/ Vanish(a)
       \/ \E w \in Writes : PutCiphertext(w, a)
       \/ View(a) \/ GetByAttachmentId(a) \/ ReadRow(a) \/ HeadObject(a)
       \/ GetObject(a) \/ GetFails(a) \/ Unview(a)
  \/ \E p \in puts : ReadTotal(p) \/ Evict(p) \/ PutCutOff(p)

AttachmentsSpec == AttachmentsInit /\ [][AttachmentsNext]_attachmentVars

----------------------------------------------------------------------------
(* Properties.                                                             *)

(* When no call of putCiphertext is under way the cache is within its cap, *)
(* though each sums it up in one transaction and deletes in another, and   *)
(* others insert, touch and delete between them (cache.ts).  A call that a *)
(* reload or an aborted transaction ends early may leave it over the cap;  *)
(* that lasts no longer than to the next call that gets to its eviction.   *)
CacheSettles == puts = {} /\ ~cutOff => TotalBytes <= MaxBytes
=============================================================================
