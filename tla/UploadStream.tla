------------------------------ MODULE UploadStream ------------------------------
(***************************************************************************)
(* The bytes of one upload on their way from the request to object         *)
(* storage: the reader that hands out bounded chunks, the validation that  *)
(* takes the first few bytes and gives them back, the tee that hashes and  *)
(* counts, and the multipart upload of the S3 adapter.                     *)
(*                                                                         *)
(* A file is a sequence of symbols: a magic number is one symbol, and so   *)
(* is a character of text, but for the one of two bytes, "lead" and        *)
(* "tail".  Where only their order and number matter, bytes are the        *)
(* positions 1..Len(file).                                                 *)
(***************************************************************************)
EXTENDS Integers, Sequences, SequencesExt

CONSTANTS
    Files,          \* the files clients send
    AllowedTypes,   \* the allow-list of the settings
    SniffBytes,     \* _SNIFF_BYTES
    ReadChunk,      \* _READ_CHUNK, the most bytes of a chunk
    PartSize,       \* _PART_SIZE
    MaxFileSize,
    Faults          \* "storage": a call fails; "read": the request's stream raises;
                    \* "cancel": the request is cancelled

Symbols == {"pdf", "riff", "webp", "zip", "empty", "char", "lead", "tail", "control"}

ASSUME StreamAssumption ==
    /\ Files \subseteq Seq(Symbols)
    /\ {SniffBytes, ReadChunk, PartSize, MaxFileSize} \subseteq Nat \ {0}
    /\ Faults \subseteq {"storage", "read", "cancel"}

VARIABLES
    file,       \* what the client sends; fixed
    declared,   \* its declared content type; fixed
    taken,      \* how many bytes were read from the request
    held,       \* the chunks the validation has taken and not yet given back
    hashed,     \* the bytes that went through the tee
    buffer,     \* the adapter's, not yet sent as a part
    parts,      \* the parts it has sent
    multipart,  \* the multipart upload; "lingering": its abort has failed; "unknown": it
                \* was created, but the request never learned its id
    object,     \* the bytes stored under the key; a set of none or one sequence
    pc,
    answer      \* how the stream has ended, or is about to

fixed == <<file, declared>>
vars == <<fixed, taken, held, hashed, buffer, parts, multipart, object, pc, answer>>

\* "other" stands for a type the settings may allow without a signature for it.
Types == {"pdf", "webp", "zip", "docx", "text", "other", "exe"}

Steps == {"gate", "sniff", "open", "pull", "flush", "last", "complete", "abort", "done"}

Answers == {"none", "mime", "truncated", "mismatch", "undecodable", "too_large",
            "storage", "read", "cancelled", "stored"}

Positions == Seq(1 .. Len(file))

StreamTypeOK ==
    /\ file \in Files
    /\ declared \in Types
    /\ taken \in 0 .. Len(file)
    /\ held \in Seq(Positions)
    /\ {hashed, buffer} \subseteq Positions
    /\ parts \in Seq(Positions)
    /\ multipart \in {"none", "open", "completed", "aborted", "lingering", "unknown"}
    /\ \A bytes \in object : bytes \in Positions
    /\ pc \in Steps
    /\ answer \in Answers

Init ==
    /\ file \in Files
    /\ declared \in Types
    /\ taken = 0
    /\ held = <<>>
    /\ hashed = <<>>
    /\ buffer = <<>>
    /\ parts = <<>>
    /\ multipart = "none"
    /\ object = {}
    /\ pc = "gate"
    /\ answer = "none"

-----------------------------------------------------------------------------
(* What the first bytes say of the type *)

At(symbol, offset) == [symbol |-> symbol, offset |-> offset]

\* _MIME_SIGNATURES; the other types of the table are like pdf.
Signatures ==
    [pdf  |-> {At("pdf", 0)},
     webp |-> {At("riff", 0), At("webp", 1)},
     zip  |-> {At("zip", 0), At("empty", 0)},
     docx |-> {At("zip", 0)}]

AnyOfTypes == {"zip"}
TextTypes  == {"text"}

Matches(pattern, bytes) ==
    /\ Len(bytes) > pattern.offset
    /\ bytes[pattern.offset + 1] = pattern.symbol

SignatureMatches(bytes, type) ==
    IF type \in AnyOfTypes
    THEN \E p \in Signatures[type] : Matches(p, bytes)
    ELSE \A p \in Signatures[type] : Matches(p, bytes)

\* How many bytes the longest pattern of the type reaches over.
Required(type) == Max({p.offset + 1 : p \in Signatures[type]})

\* The window decides every signature.
ASSUME SniffAssumption == \A type \in DOMAIN Signatures : Required(type) <= SniffBytes

\* Strict UTF-8 without control bytes; the numbers of zip files hold some.
Decodable(bytes) ==
    \A i \in 1 .. Len(bytes) :
        /\ bytes[i] \notin {"control", "zip", "empty"}
        /\ bytes[i] = "lead" => i < Len(bytes) /\ bytes[i + 1] = "tail"
        /\ bytes[i] = "tail" => i > 1 /\ bytes[i - 1] = "lead"

\* Mutant: a type without a signature is accepted.
VerdictOpen(type, bytes, exhausted) ==
    IF type \in TextTypes THEN IF Decodable(bytes) THEN "valid" ELSE "undecodable"
    ELSE IF type \notin DOMAIN Signatures THEN "valid"
    ELSE IF exhausted /\ Len(bytes) < Required(type) THEN "truncated"
    ELSE IF SignatureMatches(bytes, type) THEN "valid" ELSE "mismatch"

\* validate_magic_bytes: fails closed for a type without a signature.
Verdict(type, bytes, exhausted) ==
    CASE type \in TextTypes ->
            IF Decodable(bytes) THEN "valid" ELSE "undecodable"
      [] type \notin TextTypes \union DOMAIN Signatures -> "mismatch"
      [] type \in DOMAIN Signatures ->
            IF exhausted /\ Len(bytes) < Required(type) THEN "truncated"
            ELSE IF SignatureMatches(bytes, type) THEN "valid" ELSE "mismatch"

-----------------------------------------------------------------------------
(* The validation *)

\* A chunk of the request's body.
Chunks == {[i \in 1 .. n |-> taken + i] :
              n \in {m \in 1 .. ReadChunk : taken + m <= Len(file)}}

Symbolic(positions) == [i \in 1 .. Len(positions) |-> file[positions[i]]]

Goto(step) == pc' = step /\ UNCHANGED answer

Refuse(a) == pc' = "done" /\ answer' = a

downstream == <<hashed, buffer, parts, multipart, object>>

Gate ==
    /\ pc = "gate"
    /\ IF declared \in AllowedTypes THEN Goto("sniff") ELSE Refuse("mime")
    /\ UNCHANGED <<fixed, taken, held, downstream>>

Judge(window, exhausted) ==
    LET verdict == Verdict(declared, Symbolic(window), exhausted)
    IN IF verdict = "valid" THEN Goto("open") ELSE Refuse(verdict)

\* Mutant: the tail of the chunk that crosses the window is dropped.
WithoutOverflow(window) == <<SubSeq(window, 1, SniffBytes)>>

\* What the replay gives back first: the sniffed bytes, then the rest of their chunk.
Replay(window) ==
    IF Len(window) = SniffBytes THEN <<window>>
    ELSE <<SubSeq(window, 1, SniffBytes), SubSeq(window, SniffBytes + 1, Len(window))>>

\* The window so far is the only thing held while sniffing.
Window == FlattenSeq(held)

Sniff ==
    /\ pc = "sniff"
    /\ \E chunk \in Chunks :
          LET window == Window \o chunk
          IN /\ taken' = taken + Len(chunk)
             /\ IF Len(window) >= SniffBytes
                THEN /\ Judge(SubSeq(window, 1, SniffBytes), FALSE)
                     /\ held' = Replay(window)
                ELSE /\ Goto("sniff")
                     /\ held' = <<window>>
    /\ UNCHANGED <<fixed, downstream>>

SniffEnd ==
    /\ pc = "sniff"
    /\ taken = Len(file)
    /\ Judge(Window, TRUE)
    /\ UNCHANGED <<fixed, taken, held, downstream>>

-----------------------------------------------------------------------------
(* The tee and the multipart upload *)

\* Mutant: an exception leaves without aborting the multipart upload.
FailLeaking(a) == pc' = "done" /\ answer' = a

\* Any exception aborts the multipart upload on its way out.
Fail(a) == pc' = "abort" /\ answer' = a

StorageFails == "storage" \in Faults /\ Fail("storage")

\* create_multipart_upload is outside the try that aborts: when its answer is lost,
\* the upload it has created all the same stays, and nobody knows its id.
Open ==
    /\ pc = "open"
    /\ \/ Goto("pull") /\ multipart' = "open"
       \/ "storage" \in Faults /\ Refuse("storage") /\ multipart' \in {"none", "unknown"}
    /\ UNCHANGED <<fixed, taken, held, hashed, buffer, parts, object>>

\* Mutants: the limit is checked before the chunk is counted; no part is cut off
\* before the end.
WithinLimitBefore(chunk) == Len(hashed) <= MaxFileSize
CutNever(bytes)          == "pull"

WithinLimit(chunk) == Len(hashed) + Len(chunk) <= MaxFileSize

\* The loop cuts parts off while there is a whole one.
Cut(bytes) == IF Len(bytes) >= PartSize THEN "flush" ELSE "pull"

\* The adapter takes a chunk through the tee.
Take(chunk) ==
    /\ hashed' = hashed \o chunk
    /\ IF WithinLimit(chunk)
       THEN /\ buffer' = buffer \o chunk
            /\ Goto(Cut(buffer'))
       ELSE Fail("too_large") /\ UNCHANGED buffer
    /\ UNCHANGED <<fixed, parts, multipart, object>>

Pull ==
    /\ pc = "pull"
    /\ \/ held # <<>> /\ held' = Tail(held) /\ Take(Head(held)) /\ UNCHANGED taken
       \/ /\ held = <<>>
          /\ \E chunk \in Chunks : taken' = taken + Len(chunk) /\ Take(chunk)
          /\ UNCHANGED held

\* The read of a chunk raises, in the validation or through the tee.
ReadFails ==
    /\ "read" \in Faults
    /\ \/ pc = "sniff" /\ Refuse("read")
       \/ pc = "pull" /\ held = <<>> /\ Fail("read")
    /\ UNCHANGED <<fixed, taken, held, downstream>>

PullEnd ==
    /\ pc = "pull"
    /\ held = <<>> /\ taken = Len(file)
    /\ Goto("last")
    /\ UNCHANGED <<fixed, taken, held, downstream>>

\* One turn of the loop that cuts parts off the buffer.
Flush ==
    /\ pc = "flush"
    /\ \/ /\ parts' = Append(parts, SubSeq(buffer, 1, PartSize))
          /\ buffer' = SubSeq(buffer, PartSize + 1, Len(buffer))
          /\ Goto(Cut(buffer'))
       \/ StorageFails /\ UNCHANGED <<buffer, parts>>
    /\ UNCHANGED <<fixed, taken, held, hashed, multipart, object>>

\* A last part for what is left; an object without bytes has one empty part.
NeedsLast == buffer # <<>> \/ parts = <<>>

SendLast ==
    /\ pc = "last"
    /\ \/ /\ parts' = IF NeedsLast THEN Append(parts, buffer) ELSE parts
          /\ Goto("complete")
       \/ NeedsLast /\ StorageFails /\ UNCHANGED parts
    /\ UNCHANGED <<fixed, taken, held, hashed, buffer, multipart, object>>

Stored == multipart' = "completed" /\ object' = {FlattenSeq(parts)}

\* A completion that seems to fail may have gone through.
Complete ==
    /\ pc = "complete"
    /\ \/ Refuse("stored") /\ Stored
       \/ StorageFails /\ (Stored \/ UNCHANGED <<multipart, object>>)
    /\ UNCHANGED <<fixed, taken, held, hashed, buffer, parts>>

\* The abort is suppressed when it fails, and in vain after a completion.
Abort ==
    /\ pc = "abort"
    /\ Goto("done")
    /\ \/ multipart = "open" /\ multipart' = "aborted"
       \/ "storage" \in Faults /\ multipart = "open" /\ multipart' = "lingering"
       \/ multipart = "completed" /\ UNCHANGED multipart
    /\ UNCHANGED <<fixed, taken, held, hashed, buffer, parts, object>>

\* CancelledError is no Exception: nothing aborts the multipart upload, and a call it
\* interrupts may have been carried out.
Cancel ==
    /\ "cancel" \in Faults
    /\ pc # "done"
    /\ Refuse("cancelled")
    /\ \/ UNCHANGED <<multipart, object>>
       \/ pc = "open" /\ multipart' = "unknown" /\ UNCHANGED object
       \/ pc = "complete" /\ Stored
    /\ UNCHANGED <<fixed, taken, held, hashed, buffer, parts>>

-----------------------------------------------------------------------------
Proceed ==
    \/ Gate \/ Sniff \/ SniffEnd \/ Open \/ Pull \/ ReadFails \/ PullEnd
    \/ Flush \/ SendLast \/ Complete \/ Abort

Next == Proceed \/ Cancel

\* The event loop runs the request on; every call to storage returns or times out.
Spec == Init /\ [][Next]_vars /\ WF_vars(Proceed)
-----------------------------------------------------------------------------
(* Properties *)

\* What the pipeline should say of a file, read whole: the reference the streaming
\* code is checked against.  Text is judged by its first SniffBytes.
Prefix == SubSeq(file, 1, Min({SniffBytes, Len(file)}))

Expected ==
    IF declared \notin AllowedTypes THEN "mime"
    ELSE IF declared \notin TextTypes \union DOMAIN Signatures THEN "mismatch"
    ELSE IF declared \in TextTypes /\ ~Decodable(Prefix) THEN "undecodable"
    ELSE IF declared \notin TextTypes /\ Len(file) < Required(declared) THEN "truncated"
    ELSE IF declared \notin TextTypes /\ ~SignatureMatches(file, declared) THEN "mismatch"
    ELSE IF Len(file) > MaxFileSize THEN "too_large"
    ELSE "stored"

\* However the network cuts the file into chunks, the same file has the same fate,
\* unless storage or a read fails or the request is cancelled.
FateOfContent ==
    pc = "done" => answer \in {Expected, "storage", "read", "cancelled"}

\* What is stored is every byte of a file that should be, once and in order; the
\* digest was taken of the same bytes; and all parts but the last have the size that
\* S3 demands.
StoredIsFile ==
    object # {} =>
        /\ Expected = "stored"
        /\ object = {[i \in 1 .. Len(file) |-> i]}
        /\ object = {hashed}
        /\ \A i \in 1 .. Len(parts) - 1 : Len(parts[i]) = PartSize

\* The bytes that were taken from the request and are not yet sent, wherever they
\* are, stay below one part or window and one chunk, whatever the size of the file.
BoundedMemory ==
    taken - Len(FlattenSeq(parts)) < Max({PartSize, SniffBytes}) + ReadChunk

\* "On failure the multipart upload is aborted so no orphaned parts linger": the request
\* leaves an upload it knows of open only when it is cancelled; one whose id it never
\* learned, because the answer to its creation was lost, does stay, but has no parts.
PartsCared ==
    /\ multipart = "open" => answer = "cancelled"
    /\ multipart = "unknown" => parts = <<>>

\* What StreamEnds says of the end, without saying that it comes.
EndedIsClosed == pc = "done" => PartsCared

\* Every stream comes to an end, and whatever call or read failed on the way leaves no
\* parts behind that nobody tried to remove, unless the request was cancelled.
StreamEnds == <>[](pc = "done" /\ PartsCared)
-----------------------------------------------------------------------------
(* The inductive invariant *)

FirstBytes(n) == [i \in 1 .. n |-> i]

Running == pc \notin {"abort", "done"}
Untouched == hashed = <<>> /\ buffer = <<>> /\ parts = <<>> /\ object = {}

\* No byte is lost or turned round between the request and the tee.
TakenInOrder == hashed \o FlattenSeq(held) = FirstBytes(taken)

\* Before the upload is opened the bytes are in the window, which does not overflow.
WindowInv ==
    /\ Len(held) <= 2
    /\ pc = "gate" => taken = 0 /\ held = <<>>
    /\ pc = "sniff" => Len(held) <= 1 /\ taken < SniffBytes /\ declared \in AllowedTypes
    /\ pc \in {"gate", "sniff", "open"} => Untouched /\ multipart = "none"

\* What was hashed is in the parts and the buffer; the parts are whole; the buffer
\* holds less than one but where the loop cuts it.
PartsInv ==
    /\ Running /\ pc # "complete" => FlattenSeq(parts) \o buffer = hashed
    /\ pc = "complete" =>
           /\ FlattenSeq(parts) = hashed
           /\ \A i \in 1 .. Len(parts) - 1 : Len(parts[i]) = PartSize
    /\ Running /\ pc # "complete" => \A i \in 1 .. Len(parts) : Len(parts[i]) = PartSize
    /\ pc \in {"open", "pull"} => Len(buffer) < PartSize
    /\ pc = "flush" => Len(buffer) >= PartSize
    /\ pc \in {"last", "complete"} => held = <<>> /\ taken = Len(file)

\* Only what the whole file would have passed goes on to storage, as long as it is
\* below the limit.
JudgedInv ==
    /\ Running => answer = "none"
    /\ pc \in {"open", "pull", "flush", "last", "complete"} =>
           Expected \in {"stored", "too_large"} /\ Len(hashed) <= MaxFileSize
    /\ pc = "abort" => answer \in {"storage", "read"} \/ (answer = "too_large" /\ Expected = "too_large")

UploadInv ==
    /\ pc \in {"pull", "flush", "last", "complete"} => multipart = "open" /\ object = {}
    /\ pc = "abort" => multipart \in {"open", "completed"}
    /\ EndedIsClosed

StreamInv ==
    /\ StreamTypeOK
    /\ TakenInOrder
    /\ WindowInv
    /\ PartsInv
    /\ JudgedInv
    /\ UploadInv
    /\ FateOfContent
    /\ StoredIsFile
    /\ BoundedMemory
================================================================================
