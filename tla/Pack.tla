-------------------------------- MODULE Pack --------------------------------
(***************************************************************************)
(* The container of small objects, src/pack.rs, from the encoder of one    *)
(* job through the blob store to the decoder of a later one.  Both are     *)
(* loops over records; a step of the model is one round of a loop.         *)
(*                                                                         *)
(* A record is a key length (4 bytes), the key, a body length (8 bytes)    *)
(* and the body.  Bytes are represented by the record they belong to: the  *)
(* container is the sequence of its records and its length in bytes, and   *)
(* what the decoder gets is a prefix of it, cut off at any byte.           *)
(***************************************************************************)
EXTENDS Naturals, Sequences

CONSTANTS
    Inputs,        \* the sequences of objects encode() may be given
    Limits         \* the values of max_bytes, StoreConfig.pack_limit

ASSUME PackAssumption ==
    /\ Inputs \subseteq Seq([key : STRING, klen : Nat, blen : Nat])
    /\ Limits \subseteq Nat

VARIABLES
    objects, limit,    \* the arguments of encode()
    i,                 \* the object encode() looks at next
    out, len,          \* encode(): the records written and out.len()
    size,              \* raw.len() of what decode() is given
    at,                \* decode(): the offset
    decoded,           \* decode(): the records pushed so far
    phase

vars == <<objects, limit, i, out, len, size, at, decoded, phase>>

MAGIC == 4         \* bytes of the magic number
KEY_LEN == 4       \* bytes of a key length
BODY_LEN == 8      \* bytes of a body length

Record(o) == KEY_LEN + o.klen + BODY_LEN + o.blen

Init ==
    /\ objects \in Inputs
    /\ limit \in Limits
    /\ i = 1 /\ out = <<>> /\ len = MAGIC
    /\ size = 0 /\ at = 0 /\ decoded = <<>>
    /\ phase = "encode"

\* Mutants of EncodeRecord: the magic number is not counted; the loop ends at
\* the first object that does not fit.
EncodeRecordLate ==
    /\ phase = "encode" /\ i <= Len(objects)
    /\ i' = i + 1
    /\ LET o == objects[i] IN
       IF len + Record(o) > limit + MAGIC
       THEN UNCHANGED <<out, len>>
       ELSE out' = Append(out, o) /\ len' = len + Record(o)
    /\ UNCHANGED <<objects, limit, size, at, decoded, phase>>

EncodeRecordStops ==
    /\ phase = "encode" /\ i <= Len(objects)
    /\ LET o == objects[i] IN
       IF len + Record(o) > limit
       THEN i' = Len(objects) + 1 /\ UNCHANGED <<out, len>>
       ELSE i' = i + 1 /\ out' = Append(out, o) /\ len' = len + Record(o)
    /\ UNCHANGED <<objects, limit, size, at, decoded, phase>>

\* An object that would take the container past the ceiling is skipped.
EncodeRecord ==
    /\ phase = "encode" /\ i <= Len(objects)
    /\ i' = i + 1
    /\ LET o == objects[i] IN
       IF len + Record(o) > limit
       THEN UNCHANGED <<out, len>>
       ELSE out' = Append(out, o) /\ len' = len + Record(o)
    /\ UNCHANGED <<objects, limit, size, at, decoded, phase>>

\* The blob a later job downloads is the container or what is left of it.
Deliver ==
    /\ phase = "encode" /\ i > Len(objects)
    /\ size' \in 0 .. len
    /\ phase' = "open"
    /\ UNCHANGED <<objects, limit, i, out, len, at, decoded>>

\* Data without the magic number is not a pack.
DecodeMagic ==
    /\ phase = "open"
    /\ IF size < MAGIC THEN phase' = "refused" /\ UNCHANGED at
                       ELSE phase' = "decode" /\ at' = MAGIC
    /\ UNCHANGED <<objects, limit, i, out, len, size, decoded>>

\* The record that starts at the offset: the lengths read there are its own,
\* the decoder having stepped over whole records.
Here == out[Len(decoded) + 1]

\* Mutant of Whole: the length of the body is not checked.
WholeKey == at + KEY_LEN <= size /\ at + KEY_LEN + Here.klen + BODY_LEN <= size

\* The three comparisons with raw.len() that a record has to pass.
Whole ==
    /\ at + KEY_LEN <= size
    /\ at + KEY_LEN + Here.klen + BODY_LEN <= size
    /\ at + KEY_LEN + Here.klen + BODY_LEN + Here.blen <= size

DecodeRecord ==
    /\ phase = "decode"
    /\ Whole
    /\ decoded' = Append(decoded, Here)
    /\ at' = at + Record(Here)
    /\ UNCHANGED <<objects, limit, i, out, len, size, phase>>

\* The loop ends at the end of the data, or breaks where a record is cut off.
DecodeEnds ==
    /\ phase = "decode"
    /\ ~Whole
    /\ phase' = "done"
    /\ UNCHANGED <<objects, limit, i, out, len, size, at, decoded>>

Finished == phase \in {"done", "refused"} /\ UNCHANGED vars

Next ==
    \/ EncodeRecord \/ Deliver \/ DecodeMagic \/ DecodeRecord \/ DecodeEnds
    \/ Finished

Spec == Init /\ [][Next]_vars

-----------------------------------------------------------------------------
(***************************************************************************)
(* Properties.                                                             *)
(***************************************************************************)

\* Where the m-th record of the container ends.
End == [m \in 0 .. Len(out) |->
           LET e[j \in 0 .. Len(out)] ==
                   IF j = 0 THEN MAGIC ELSE e[j - 1] + Record(out[j])
           IN  e[m]]

\* "Ceiling on the pack, so a job cannot fill the repository's cache budget
\* by itself" (store.rs, StoreConfig.pack_limit): a container that holds
\* anything is no longer than the limit, its framing included.
Ceiling == out = <<>> \/ len <= limit

\* "Skipping any that would take it past `max_bytes`" (pack::encode): only
\* those.  No object is left out that there would still be room for at the
\* end, however large the ones skipped before it.
NoRoomWasted ==
    phase # "encode" =>
        \A m \in DOMAIN objects :
            \/ \E n \in DOMAIN out : out[n] = objects[m]
            \/ len + Record(objects[m]) > limit

\* "A truncated container yields the records that were intact"
\* (pack::decode): all of those, in order, and nothing of the one that was
\* cut off, wherever the cut is.  An undamaged container yields everything.
YieldsIntact ==
    phase = "done" =>
        /\ Len(decoded) <= Len(out)
        /\ decoded = SubSeq(out, 1, Len(decoded))
        /\ \A m \in 0 .. Len(out) : m <= Len(decoded) <=> End[m] <= size
=============================================================================
