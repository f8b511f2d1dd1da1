----------------------------- MODULE PackProofs -----------------------------
(***************************************************************************)
(* What encode() puts into a container and what decode() gets out of any   *)
(* prefix of it, for any objects and any limit.                            *)
(***************************************************************************)
EXTENDS Pack, TLAPS

Object == [key : STRING, klen : Nat, blen : Nat]

Typed ==
    /\ objects \in Seq(Object) /\ out \in Seq(Object)
    /\ limit \in Nat /\ i \in Nat \ {0} /\ len \in Nat
    /\ phase # "encode" => i > Len(objects)

\* Every object looked at so far is in the container or has no room in it.
Considered ==
    \A m \in DOMAIN objects :
        m < i => \/ \E n \in DOMAIN out : out[n] = objects[m]
                 \/ len + Record(objects[m]) > limit

Inv == Typed /\ Ceiling /\ Considered

\* The size of a record is a number.
LEMMA RecordType == ASSUME NEW o \in Object PROVE Record(o) \in Nat
  BY DEF Object, Record, KEY_LEN, BODY_LEN

LEMMA InitInv == Init => Inv
  BY PackAssumption DEF Init, Inv, Typed, Ceiling, Considered, MAGIC, Object

LEMMA EncodeInv == ASSUME Inv, EncodeRecord PROVE Inv'
  <1> USE DEF Inv, EncodeRecord, Typed
  <1>1. i \in DOMAIN objects /\ objects[i] \in Object
    OBVIOUS
  <1>2. Record(objects[i]) \in Nat
    BY <1>1, RecordType
  <1>3. CASE len + Record(objects[i]) > limit
    <2>1. Typed' /\ Ceiling'
      BY <1>3 DEF Ceiling
    <2>2. Considered'
      BY <1>3 DEF Considered
    <2> QED
      BY <2>1, <2>2
  <1>4. CASE ~(len + Record(objects[i]) > limit)
    <2>1. /\ out' = Append(out, objects[i]) /\ len' = len + Record(objects[i])
          /\ objects' = objects /\ limit' = limit /\ i' = i + 1
      BY <1>4
    <2>2. Typed' /\ Ceiling'
      BY <1>1, <1>2, <1>4, <2>1 DEF Ceiling
    <2>3. ASSUME NEW m \in DOMAIN objects, m < i + 1
          PROVE  \/ \E n \in DOMAIN out' : out'[n] = objects[m]
                 \/ len' + Record(objects[m]) > limit
      <3>0. Record(objects[m]) \in Nat
        BY RecordType
      <3>1. CASE m = i
        <4>1. Len(out) + 1 \in DOMAIN out' /\ out'[Len(out) + 1] = objects[i]
          BY <1>1, <2>1
        <4> QED
          BY <3>1, <4>1
      <3>2. CASE \E n \in DOMAIN out : out[n] = objects[m]
        <4>1. PICK n \in DOMAIN out : out[n] = objects[m]
          BY <3>2
        <4>2. n \in DOMAIN out' /\ out'[n] = out[n]
          BY <1>1, <2>1, <4>1
        <4> QED
          BY <4>1, <4>2
      <3>3. CASE len + Record(objects[m]) > limit
        BY <1>2, <2>1, <3>0, <3>3
      <3> QED
        BY <2>3, <3>1, <3>2, <3>3 DEF Considered
    <2>4. Considered'
      BY <2>1, <2>3 DEF Considered
    <2> QED
      BY <2>2, <2>4
  <1> QED
    BY <1>3, <1>4

LEMMA StepInv == Inv /\ [Next]_vars => Inv'
  <1> SUFFICES ASSUME Inv, [Next]_vars PROVE Inv'
    OBVIOUS
  <1>1. CASE Deliver
    BY <1>1 DEF Deliver, Inv, Typed, Ceiling, Considered
  <1>2. CASE DecodeMagic
    BY <1>2 DEF DecodeMagic, Inv, Typed, Ceiling, Considered
  <1>3. CASE DecodeRecord
    BY <1>3 DEF DecodeRecord, Inv, Typed, Ceiling, Considered
  <1>4. CASE DecodeEnds
    BY <1>4 DEF DecodeEnds, Inv, Typed, Ceiling, Considered
  <1>5. CASE UNCHANGED vars
    BY <1>5 DEF vars, Inv, Typed, Ceiling, Considered
  <1> QED
    BY <1>1, <1>2, <1>3, <1>4, <1>5, EncodeInv DEF Next, Finished

LEMMA Invariance == Spec => []Inv
  BY InitInv, StepInv, PTL DEF Spec

\* For any objects and any limit: a pack that holds anything is no longer than
\* pack_limit, framing included (pack::encode).
THEOREM CeilingSafe == Spec => []Ceiling
  <1>1. Inv => Ceiling
    BY DEF Inv
  <1> QED
    BY <1>1, Invariance, PTL

\* For any objects and any limit: encode() skips an object only if there is no
\* room for it even at the end (pack::encode).
THEOREM SkipsOnlyWhatIsTooLarge == Spec => []NoRoomWasted
  <1>1. Inv => NoRoomWasted
    BY DEF Inv, Typed, Considered, NoRoomWasted
  <1> QED
    BY <1>1, Invariance, PTL

-----------------------------------------------------------------------------
(***************************************************************************)
(* Where the records are.  The offsets are the solution of a recurrence    *)
(* over the records written.  The invariant says of every solution what    *)
(* the decoder relies on; it is shown record by record, as encode()        *)
(* appends them, and so needs no induction over the container.             *)
(***************************************************************************)

\* Offsets by the recurrence of End.
Offsets(e, records) ==
    e = [j \in 0 .. Len(records) |->
            IF j = 0 THEN MAGIC ELSE e[j - 1] + Record(records[j])]

\* Records do not overlap and end where the container ends.
Apart(e, records, l) ==
    /\ \A j \in 0 .. Len(records) : e[j] \in Nat
    /\ \A j, m \in 0 .. Len(records) : j < m => e[j] + KEY_LEN <= e[m]
    /\ e[Len(records)] = l

\* The decoder stands at the end of the last record it has taken, and once it
\* is done the next one does not fit into what it was given.
Placed(e) ==
    /\ phase \in {"decode", "done"} => at = e[Len(decoded)] /\ at <= size
    /\ phase = "done" => Len(decoded) = Len(out) \/ e[Len(decoded) + 1] > size

Layout ==
    /\ \E e : Offsets(e, out)
    /\ \A e : Offsets(e, out) => Apart(e, out, len) /\ Placed(e)

Prefixed ==
    /\ decoded \in Seq(Object)
    /\ Len(decoded) <= Len(out)
    /\ \A m \in 1 .. Len(decoded) : decoded[m] = out[m]
    /\ phase \in {"encode", "open", "refused"} => decoded = <<>>
    /\ size \in Nat /\ at \in Nat
    /\ phase # "encode" => size <= len

DecodeInv == Inv /\ Layout /\ Prefixed

\* The offsets of a container are those of what was there before the last
\* record was appended, and one more.
LEMMA OffsetsAppend ==
    ASSUME NEW records \in Seq(Object), NEW o \in Object
    PROVE  /\ \A e : Offsets(e, records) =>
                  Offsets([j \in 0 .. Len(records) + 1 |->
                              IF j <= Len(records) THEN e[j]
                              ELSE e[Len(records)] + Record(o)], Append(records, o))
           /\ \A e : Offsets(e, Append(records, o)) =>
                  /\ Offsets([j \in 0 .. Len(records) |-> e[j]], records)
                  /\ e[Len(records) + 1] = e[Len(records)] + Record(o)
  <1> DEFINE n == Len(records)
             more == Append(records, o)
  <1>1. n \in Nat /\ Len(more) = n + 1 /\ more[n + 1] = o
    OBVIOUS
  <1>2. \A j \in 1 .. n : more[j] = records[j]
    OBVIOUS
  <1>3. ASSUME NEW e, Offsets(e, records)
        PROVE  Offsets([j \in 0 .. n + 1 |-> IF j <= n THEN e[j] ELSE e[n] + Record(o)],
                       more)
    <2> DEFINE f == [j \in 0 .. n + 1 |-> IF j <= n THEN e[j] ELSE e[n] + Record(o)]
    <2>1. \A j \in 0 .. n : e[j] = IF j = 0 THEN MAGIC ELSE e[j - 1] + Record(records[j])
      BY <1>3, Zenon DEF Offsets
    <2>2. ASSUME NEW j \in 0 .. n + 1
          PROVE  f[j] = IF j = 0 THEN MAGIC ELSE f[j - 1] + Record(more[j])
      <3>1. CASE j = 0
        BY <1>1, <2>1, <3>1
      <3>2. CASE j \in 1 .. n
        <4>1. f[j] = e[j] /\ f[j - 1] = e[j - 1] /\ more[j] = records[j]
          BY <1>1, <1>2, <3>2
        <4>2. e[j] = e[j - 1] + Record(records[j])
          BY <1>1, <2>1, <3>2
        <4> QED
          BY <3>2, <4>1, <4>2
      <3>3. CASE j = n + 1
        <4>1. f[j] = e[n] + Record(o) /\ f[j - 1] = e[n]
          BY <1>1, <3>3
        <4> QED
          BY <1>1, <3>3, <4>1
      <3> QED
        BY <1>1, <3>1, <3>2, <3>3
    <2>3. f = [j \in 0 .. n + 1 |-> IF j = 0 THEN MAGIC ELSE f[j - 1] + Record(more[j])]
      BY <2>2
    <2> QED
      BY <1>1, <2>3 DEF Offsets
  <1>4. ASSUME NEW e, Offsets(e, more)
        PROVE  /\ Offsets([j \in 0 .. n |-> e[j]], records)
               /\ e[n + 1] = e[n] + Record(o)
    <2> DEFINE g == [j \in 0 .. n |-> e[j]]
    <2>1. \A j \in 0 .. n + 1 : e[j] = IF j = 0 THEN MAGIC ELSE e[j - 1] + Record(more[j])
      BY <1>1, <1>4 DEF Offsets
    <2>2. ASSUME NEW j \in 0 .. n
          PROVE  g[j] = IF j = 0 THEN MAGIC ELSE g[j - 1] + Record(records[j])
      <3>1. CASE j = 0
        BY <1>1, <2>1, <3>1
      <3>2. CASE j \in 1 .. n
        <4>1. g[j] = e[j] /\ g[j - 1] = e[j - 1] /\ more[j] = records[j]
          BY <1>1, <1>2, <3>2
        <4>2. e[j] = e[j - 1] + Record(more[j])
          BY <1>1, <2>1, <3>2
        <4> QED
          BY <3>2, <4>1, <4>2
      <3> QED
        BY <1>1, <3>1, <3>2
    <2>3. g = [j \in 0 .. n |-> IF j = 0 THEN MAGIC ELSE g[j - 1] + Record(records[j])]
      BY <2>2
    <2>4. e[n + 1] = e[n] + Record(o)
      BY <1>1, <2>1
    <2> QED
      BY <2>3, <2>4 DEF Offsets
  <1> QED
    BY <1>3, <1>4

LEMMA DecodeInit == Init => DecodeInv
  <1> SUFFICES ASSUME Init PROVE DecodeInv
    OBVIOUS
  <1>1. out = <<>> /\ len = MAGIC /\ phase = "encode"
    BY DEF Init
  <1>2. \E e : Offsets(e, out)
    <2> DEFINE f == [j \in 0 .. 0 |-> MAGIC]
    <2>1. f = [j \in 0 .. 0 |-> IF j = 0 THEN MAGIC ELSE f[j - 1] + Record(out[j])]
      OBVIOUS
    <2> QED
      BY <1>1, <2>1 DEF Offsets
  <1>3. ASSUME NEW e, Offsets(e, out) PROVE Apart(e, out, len) /\ Placed(e)
    <2>1. e[0] = MAGIC
      BY <1>1, <1>3 DEF Offsets
    <2> QED
      BY <1>1, <2>1 DEF Apart, Placed, MAGIC, KEY_LEN
  <1>4. Prefixed
    BY DEF Init, Prefixed, Object
  <1> QED
    BY <1>2, <1>3, <1>4, InitInv DEF DecodeInv, Layout

LEMMA EncodeLayout == ASSUME DecodeInv, EncodeRecord PROVE Layout' /\ Prefixed'
  <1> DEFINE o == objects[i]
             n == Len(out)
  <1>1. o \in Object /\ Record(o) \in Nat /\ Record(o) >= KEY_LEN
    <2>1. o \in Object
      BY DEF DecodeInv, Inv, Typed, EncodeRecord
    <2> QED
      BY <2>1 DEF Object, Record, KEY_LEN, BODY_LEN
  <1>2. phase = "encode" /\ phase' = "encode" /\ decoded = <<>>
        /\ UNCHANGED <<size, at, decoded>>
    BY DEF DecodeInv, Prefixed, EncodeRecord
  <1>3. out \in Seq(Object) /\ n \in Nat /\ len \in Nat
    BY DEF DecodeInv, Inv, Typed
  <1>4. CASE UNCHANGED <<out, len>>
    BY <1>2, <1>4 DEF DecodeInv, Layout, Placed, Prefixed
  <1>5. CASE out' = Append(out, o) /\ len' = len + Record(o)
    <2>1. Len(out') = n + 1
      BY <1>3, <1>5
    <2>2. \E e : Offsets(e, out')
      BY <1>1, <1>3, <1>5, OffsetsAppend DEF DecodeInv, Layout
    <2>3. ASSUME NEW e, Offsets(e, out') PROVE Apart(e, out', len') /\ Placed(e)'
      <3> DEFINE g == [j \in 0 .. n |-> e[j]]
      <3>1. Offsets(g, out) /\ e[n + 1] = e[n] + Record(o)
        BY <1>1, <1>3, <1>5, <2>3, OffsetsAppend
      <3>2. Apart(g, out, len)
        BY <3>1 DEF DecodeInv, Layout
      <3>3. /\ \A j \in 0 .. n : e[j] \in Nat
            /\ \A j, m \in 0 .. n : j < m => e[j] + KEY_LEN <= e[m]
            /\ e[n] = len
        BY <1>3, <3>2 DEF Apart
      <3>4. \A j \in 0 .. n : e[j] <= e[n]
        BY <1>3, <3>3 DEF KEY_LEN
      <3>5. e[n + 1] = len' /\ e[n + 1] \in Nat
        BY <1>1, <1>3, <1>5, <3>1, <3>3
      <3>6. ASSUME NEW j \in 0 .. n + 1, NEW m \in 0 .. n + 1, j < m
            PROVE  e[j] + KEY_LEN <= e[m]
        <4>1. CASE m \in 0 .. n
          BY <1>3, <3>3, <3>6, <4>1
        <4>2. CASE m = n + 1
          <5>1. j \in 0 .. n
            BY <1>3, <3>6, <4>2
          <5>2. e[j] \in Nat /\ e[j] <= e[n] /\ e[n] \in Nat
            BY <1>3, <3>3, <3>4, <5>1
          <5> QED
            BY <1>1, <3>1, <4>2, <5>2 DEF KEY_LEN
        <4> QED
          BY <1>3, <4>1, <4>2
      <3>7. \A j \in 0 .. n + 1 : e[j] \in Nat
        BY <1>3, <3>3, <3>5
      <3> QED
        BY <1>2, <2>1, <3>5, <3>6, <3>7 DEF Apart, Placed
    <2>4. Prefixed'
      BY <1>2, <1>3, <2>1 DEF DecodeInv, Prefixed
    <2> QED
      BY <2>2, <2>3, <2>4 DEF Layout
  <1> QED
    BY <1>4, <1>5 DEF EncodeRecord

\* The record at the decoder's offset, if there is one.
LEMMA NextRecord ==
    ASSUME DecodeInv, phase = "decode", NEW e, Offsets(e, out)
    PROVE  /\ Apart(e, out, len) /\ at = e[Len(decoded)] /\ at \in Nat
           /\ Whole => Len(decoded) < Len(out)
           /\ Len(decoded) < Len(out) =>
                  /\ Here \in Object /\ Record(Here) \in Nat
                  /\ e[Len(decoded) + 1] = at + Record(Here)
                  /\ Whole <=> at + Record(Here) <= size
  <1> DEFINE d == Len(decoded)
             n == Len(out)
  <1>1. d \in Nat /\ n \in Nat /\ d <= n /\ out \in Seq(Object) /\ size \in Nat
        /\ at \in Nat /\ size <= len
    BY DEF DecodeInv, Prefixed, Inv, Typed
  <1>2. Apart(e, out, len) /\ at = e[d]
    BY DEF DecodeInv, Layout, Placed
  <1>3. ASSUME Whole PROVE d < n
    <2>1. at + KEY_LEN <= size
      BY <1>3 DEF Whole
    <2>2. CASE d = n
      BY <1>1, <1>2, <2>1, <2>2 DEF Apart, KEY_LEN
    <2> QED
      BY <1>1, <2>2
  <1>4. ASSUME d < n
        PROVE  /\ Here \in Object /\ Record(Here) \in Nat
               /\ e[d + 1] = at + Record(Here)
               /\ Whole <=> at + Record(Here) <= size
    <2>1. Here \in Object
      BY <1>1, <1>4 DEF Here
    <2>2. \A j \in 0 .. n : e[j] = IF j = 0 THEN MAGIC ELSE e[j - 1] + Record(out[j])
      BY <1>1, Zenon DEF Offsets
    <2>3. e[d + 1] = e[d] + Record(out[d + 1])
      BY <1>1, <1>4, <2>2
    <2>4. Whole <=> at + Record(Here) <= size
      BY <1>1, <2>1 DEF Whole, Object, Record, KEY_LEN, BODY_LEN
    <2> QED
      BY <1>2, <2>1, <2>3, <2>4, RecordType DEF Here
  <1> QED
    BY <1>1, <1>2, <1>3, <1>4

LEMMA DecodeRecordInv == ASSUME DecodeInv, DecodeRecord PROVE Layout' /\ Prefixed'
  <1> DEFINE d == Len(decoded)
  <1>1. PICK e : Offsets(e, out)
    BY DEF DecodeInv, Layout
  <1>2. /\ phase = "decode" /\ phase' = "decode" /\ Whole
        /\ decoded' = Append(decoded, Here) /\ at' = at + Record(Here)
        /\ UNCHANGED <<out, len, size>>
    BY DEF DecodeRecord
  <1>3. /\ d < Len(out) /\ Here \in Object /\ Record(Here) \in Nat /\ at \in Nat
        /\ at + Record(Here) <= size
    BY <1>1, <1>2, NextRecord
  <1>4. d \in Nat /\ decoded \in Seq(Object) /\ out \in Seq(Object) /\ Len(out) \in Nat
    BY DEF DecodeInv, Prefixed, Inv, Typed
  <1>5. Len(decoded') = d + 1 /\ decoded' \in Seq(Object)
    BY <1>2, <1>3, <1>4
  <1>6. ASSUME NEW f, Offsets(f, out) PROVE Apart(f, out, len) /\ Placed(f)'
    <2>1. f[d + 1] = at + Record(Here) /\ Apart(f, out, len)
      BY <1>2, <1>3, <1>6, NextRecord
    <2> QED
      BY <1>2, <1>3, <1>5, <2>1 DEF Placed
  <1>7. Layout'
    BY <1>1, <1>2, <1>6 DEF Layout
  <1>8. ASSUME NEW m \in 1 .. d + 1 PROVE decoded'[m] = out[m]
    <2>1. CASE m = d + 1
      BY <1>2, <1>3, <1>4, <2>1 DEF Here
    <2>2. CASE m \in 1 .. d
      <3>1. decoded'[m] = decoded[m]
        BY <1>2, <1>3, <1>4, <2>2
      <3> QED
        BY <2>2, <3>1 DEF DecodeInv, Prefixed
    <2> QED
      BY <1>4, <2>1, <2>2
  <1>9. Prefixed'
    BY <1>2, <1>3, <1>4, <1>5, <1>8 DEF DecodeInv, Prefixed
  <1> QED
    BY <1>7, <1>9

LEMMA DecodeEndsInv == ASSUME DecodeInv, DecodeEnds PROVE Layout' /\ Prefixed'
  <1>1. /\ phase = "decode" /\ phase' = "done" /\ ~Whole
        /\ UNCHANGED <<out, len, size, at, decoded>>
    BY DEF DecodeEnds
  <1>2. Len(decoded) \in Nat /\ Len(out) \in Nat /\ Len(decoded) <= Len(out)
        /\ size \in Nat
    BY DEF DecodeInv, Prefixed, Inv, Typed
  <1>3. ASSUME NEW e, Offsets(e, out) PROVE Placed(e)'
    <2>1. at = e[Len(decoded)] /\ at <= size
      BY <1>1, <1>3 DEF DecodeInv, Layout, Placed
    <2>2. CASE Len(decoded) = Len(out)
      BY <1>1, <2>1, <2>2 DEF Placed
    <2>3. CASE Len(decoded) < Len(out)
      <3>1. e[Len(decoded) + 1] = at + Record(Here) /\ at + Record(Here) \in Nat
            /\ ~(at + Record(Here) <= size)
        BY <1>1, <1>3, <2>3, NextRecord
      <3> QED
        BY <1>1, <1>2, <2>1, <3>1 DEF Placed
    <2> QED
      BY <1>2, <2>2, <2>3
  <1> QED
    BY <1>1, <1>3 DEF DecodeInv, Layout, Prefixed

LEMMA DecodeStep == DecodeInv /\ [Next]_vars => DecodeInv'
  <1> SUFFICES ASSUME DecodeInv, [Next]_vars PROVE DecodeInv'
    OBVIOUS
  <1>0. Inv'
    BY StepInv DEF DecodeInv
  <1>1. CASE EncodeRecord
    BY <1>0, <1>1, EncodeLayout DEF DecodeInv
  <1>2. CASE Deliver
    <2>1. size' \in Nat /\ size' <= len
      BY <1>2 DEF Deliver, DecodeInv, Inv, Typed
    <2> QED
      BY <1>0, <1>2, <2>1 DEF Deliver, DecodeInv, Layout, Placed, Prefixed
  <1>3. CASE DecodeMagic
    <2>1. \A e : Offsets(e, out) => e[0] = MAGIC
      BY DEF Offsets, DecodeInv, Inv, Typed
    <2> QED
      BY <1>0, <1>3, <2>1 DEF DecodeMagic, DecodeInv, Layout, Placed, Prefixed, MAGIC
  <1>4. CASE DecodeRecord
    BY <1>0, <1>4, DecodeRecordInv DEF DecodeInv
  <1>5. CASE DecodeEnds
    BY <1>0, <1>5, DecodeEndsInv DEF DecodeInv
  <1>6. CASE UNCHANGED vars
    BY <1>0, <1>6 DEF vars, DecodeInv, Layout, Placed, Prefixed
  <1> QED
    BY <1>1, <1>2, <1>3, <1>4, <1>5, <1>6 DEF Next, Finished

\* End is a solution of its recurrence, since there is one.
LEMMA EndOffsets ==
    ASSUME DecodeInv
    PROVE  \E e : Offsets(e, out) /\ End = [m \in 0 .. Len(out) |-> e[m]]
  <1> DEFINE e == CHOOSE e : e = [j \in 0 .. Len(out) |->
                      IF j = 0 THEN MAGIC ELSE e[j - 1] + Record(out[j])]
  <1>1. PICK f : Offsets(f, out)
    BY DEF DecodeInv, Layout
  <1>2. Offsets(e, out)
    BY <1>1 DEF Offsets
  <1>3. End = [m \in 0 .. Len(out) |-> e[m]]
    BY DEF End
  <1> QED
    BY <1>2, <1>3

\* For any objects, any limit and any cut: decode() yields the records that are
\* whole in what it is given, all of them and in order, and nothing of the one
\* that was cut off (pack::decode).
THEOREM DecodesWhatIsIntact == Spec => []YieldsIntact
  <1>1. DecodeInv => YieldsIntact
    <2> SUFFICES ASSUME DecodeInv, phase = "done"
                 PROVE  /\ Len(decoded) <= Len(out)
                        /\ decoded = SubSeq(out, 1, Len(decoded))
                        /\ \A m \in 0 .. Len(out) : m <= Len(decoded) <=> End[m] <= size
      BY DEF YieldsIntact
    <2> DEFINE d == Len(decoded)
    <2>1. /\ d \in Nat /\ Len(out) \in Nat /\ d <= Len(out) /\ size \in Nat
          /\ decoded \in Seq(Object) /\ out \in Seq(Object)
      BY DEF DecodeInv, Prefixed, Inv, Typed
    <2>2. decoded = SubSeq(out, 1, d)
      BY <2>1 DEF DecodeInv, Prefixed
    <2>3. PICK e : Offsets(e, out) /\ End = [m \in 0 .. Len(out) |-> e[m]]
      BY EndOffsets
    <2>4. /\ Apart(e, out, len) /\ e[d] <= size
          /\ d = Len(out) \/ e[d + 1] > size
      BY <2>3 DEF DecodeInv, Layout, Placed
    <2>5. ASSUME NEW m \in 0 .. Len(out) PROVE m <= d <=> e[m] <= size
      <3>1. e[m] \in Nat /\ e[d] \in Nat
        BY <2>1, <2>4 DEF Apart
      <3>2. CASE m <= d
        <4>1. e[m] <= e[d]
          BY <2>1, <2>4, <3>1, <3>2 DEF Apart, KEY_LEN
        <4> QED
          BY <2>1, <2>4, <3>1, <3>2, <4>1
      <3>3. CASE m > d
        <4>1. d + 1 \in 0 .. Len(out) /\ e[d + 1] \in Nat /\ e[d + 1] > size
          BY <2>1, <2>4, <3>3 DEF Apart
        <4>2. e[d + 1] <= e[m]
          BY <2>1, <2>4, <3>1, <3>3, <4>1 DEF Apart, KEY_LEN
        <4> QED
          BY <2>1, <3>1, <3>3, <4>1, <4>2
      <3> QED
        BY <2>1, <3>2, <3>3
    <2> QED
      BY <2>1, <2>2, <2>3, <2>5
  <1> QED
    BY <1>1, DecodeInit, DecodeStep, PTL DEF Spec
=============================================================================
