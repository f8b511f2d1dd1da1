----------------------------- MODULE JobsProofs -----------------------------
(***************************************************************************)
(* What manifests and packs hand on from job to job, for any jobs, scopes  *)
(* and objects and any number of jobs at a time.                           *)
(***************************************************************************)
EXTENDS Jobs, TLAPS

\* A client that is not exhausted knows only keys the service holds.
KnownIsHeld == \A j \in JobIds : j \in exhausted \/ known[j]["index"] \subseteq held

\* What a job read: nothing it got, nothing that was there, or the newest of the
\* documents that were.
HasRead(j, kind) ==
    \/ kind \in missed[j]
    \/ \A o \in 1 .. since[j][kind] : ~Matches(filed[o], Scope[j], kind)
    \/ \E n \in 1 .. since[j][kind] :
           /\ Matches(filed[n], Scope[j], kind)
           /\ \A o \in 1 .. since[j][kind] : Matches(filed[o], Scope[j], kind) => o <= n
           /\ filed[n].objects \subseteq known[j][kind]

Reading ==
    \A j \in JobIds, kind \in Kinds : since[j][kind] <= Len(filed) /\ HasRead(j, kind)

\* The n-th document kept what the m-th listed, or had one of the reasons not to.
Kept(n, m) ==
    LET d == filed[n]
        p == filed[m]
    IN  \/ p.scope # d.scope \/ p.kind # d.kind
        \/ \E o \in m + 1 .. n - 1 : filed[o].scope = d.scope /\ filed[o].kind = d.kind
        \/ p.objects \subseteq d.objects
        \/ m > d.read
        \/ d.blind
        \/ \E o \in m + 1 .. d.read : Foreign(o, d.scope, d.kind)
        \/ d.kind = "pack" /\ Cardinality(d.objects) = PackLimit

\* A document was read for among the documents before it.
ReadBefore == \A n \in DOMAIN filed : filed[n].read < n

Inv ==
    /\ TypeOK /\ ListedIsHeld /\ KnownIsHeld /\ Reading /\ ReadBefore /\ EntriesKept

-----------------------------------------------------------------------------
LEMMA KeptPairs == EntriesKept <=> \A n \in DOMAIN filed : \A m \in 1 .. n - 1 : Kept(n, m)
  BY DEF EntriesKept, Kept

\* Documents are appended, so the earlier ones stay.
LEMMA Appended ==
    ASSUME TypeOK, NEW d \in Documents, filed' = Append(filed, d)
    PROVE  /\ filed' \in Seq(Documents)
           /\ Len(filed) \in Nat /\ Len(filed') = Len(filed) + 1
           /\ DOMAIN filed = 1 .. Len(filed) /\ DOMAIN filed' = 1 .. Len(filed) + 1
           /\ \A n \in 1 .. Len(filed) : filed'[n] = filed[n]
           /\ filed'[Len(filed) + 1] = d
  BY DEF TypeOK

LEMMA InitInv == Init => Inv
  <1> SUFFICES ASSUME Init PROVE Inv
    OBVIOUS
  <1>1. TypeOK
    BY DEF Init, TypeOK, Phases, Documents
  <1>2. ListedIsHeld /\ KnownIsHeld /\ ReadBefore /\ EntriesKept
    BY DEF Init, ListedIsHeld, KnownIsHeld, ReadBefore, EntriesKept, Kinds
  <1>3. Reading
    BY DEF Init, Reading, HasRead
  <1> QED
    BY <1>1, <1>2, <1>3 DEF Inv

\* Steps that file nothing leave what is said of documents alone.
LEMMA NothingFiled ==
    ASSUME Inv, filed' = filed, held \subseteq held'
    PROVE  ListedIsHeld' /\ ReadBefore' /\ EntriesKept'
  <1>1. ListedIsHeld' /\ ReadBefore'
    BY DEF Inv, ListedIsHeld, ReadBefore
  <1>2. EntriesKept'
    BY DEF Inv, EntriesKept, Foreign, Matches
  <1> QED
    BY <1>1, <1>2

\* What a job has read stays read: documents do not change, and it forgets nothing.
LEMMA SameRead ==
    ASSUME NEW j \in JobIds, NEW kind \in Kinds, HasRead(j, kind),
           since'[j][kind] = since[j][kind], missed[j] \subseteq missed'[j],
           known[j][kind] \subseteq known'[j][kind],
           \A o \in 1 .. since[j][kind] : filed'[o] = filed[o]
    PROVE  HasRead(j, kind)'
  <1>1. CASE kind \in missed[j]
    BY <1>1 DEF HasRead
  <1>2. CASE \A o \in 1 .. since[j][kind] : ~Matches(filed[o], Scope[j], kind)
    BY <1>2 DEF HasRead, Matches
  <1>3. CASE \E n \in 1 .. since[j][kind] :
                 /\ Matches(filed[n], Scope[j], kind)
                 /\ \A o \in 1 .. since[j][kind] : Matches(filed[o], Scope[j], kind) => o <= n
                 /\ filed[n].objects \subseteq known[j][kind]
    <2>1. PICK n \in 1 .. since[j][kind] :
              /\ Matches(filed[n], Scope[j], kind)
              /\ \A o \in 1 .. since[j][kind] : Matches(filed[o], Scope[j], kind) => o <= n
              /\ filed[n].objects \subseteq known[j][kind]
      BY <1>3
    <2>2. /\ Matches(filed'[n], Scope[j], kind)
          /\ \A o \in 1 .. since'[j][kind] : Matches(filed'[o], Scope[j], kind) => o <= n
          /\ filed'[n].objects \subseteq known'[j][kind]
          /\ n \in 1 .. since'[j][kind]
      BY <2>1
    <2> QED
      BY <2>2 DEF HasRead, Matches
  <1> QED
    BY <1>1, <1>2, <1>3 DEF HasRead

LEMMA LoadInv ==
    ASSUME Inv, NEW j \in JobIds, NEW kind \in Kinds, Load(j, kind)
    PROVE  Inv'
  <1> USE DEF Inv
  <1>1. filed' = filed /\ held' = held /\ dirty' = dirty
    BY DEF Load
  <1>2. ListedIsHeld' /\ ReadBefore' /\ EntriesKept'
    BY <1>1, NothingFiled
  <1>3. /\ \A n \in DOMAIN filed : filed[n] \in Documents /\ filed[n].objects \subseteq Of(filed[n].kind)
        /\ Len(filed) \in Nat /\ DOMAIN filed = 1 .. Len(filed)
    BY DEF TypeOK
  <1>4. ASSUME NEW n \in DOMAIN filed, Newest(n, Scope[j], kind),
               known' = [known EXCEPT ![j][kind] = filed[n].objects]
        PROVE  /\ known' \in [JobIds -> [Kinds -> SUBSET (Large \cup Small)]]
               /\ known'[j][kind] = filed[n].objects /\ filed[n].objects \subseteq Of(kind)
               /\ kind = "index" => filed[n].objects \subseteq held
               /\ \A k \in JobIds, l \in Kinds : k # j \/ l # kind => known'[k][l] = known[k][l]
    <2>1. filed[n].objects \in SUBSET (Large \cup Small)
      BY <1>3 DEF Documents
    <2>2. filed[n].kind = kind
      BY <1>4 DEF Newest, Matches
    <2>3. known \in [JobIds -> [Kinds -> SUBSET (Large \cup Small)]]
      BY DEF TypeOK
    <2>4. known' \in [JobIds -> [Kinds -> SUBSET (Large \cup Small)]]
      BY <1>4, <2>1, <2>3
    <2>5. /\ known'[j][kind] = filed[n].objects
          /\ \A k \in JobIds, l \in Kinds : k # j \/ l # kind => known'[k][l] = known[k][l]
      BY <1>4, <2>3
    <2>6. filed[n].objects \subseteq Of(kind) /\ (kind = "index" => filed[n].objects \subseteq held)
      BY <1>3, <2>2 DEF ListedIsHeld
    <2> QED
      BY <2>4, <2>5, <2>6
  <1>5. \/ /\ UNCHANGED missed
           /\ \E n \in DOMAIN filed :
                  Newest(n, Scope[j], kind) /\ known' = [known EXCEPT ![j][kind] = filed[n].objects]
        \/ Nothing(Scope[j], kind) /\ UNCHANGED <<known, missed>>
        \/ missed' = [missed EXCEPT ![j] = @ \cup {kind}] /\ UNCHANGED known
    BY DEF Load
  <1>6. /\ known' \in [JobIds -> [Kinds -> SUBSET (Large \cup Small)]]
        /\ \A k \in JobIds, l \in Kinds : k # j \/ l # kind => known'[k][l] = known[k][l]
        /\ known'[j][kind] \subseteq Of(kind)
        /\ kind = "index" => known'[j][kind] = known[j][kind] \/ known'[j][kind] \subseteq held
    BY <1>4, <1>5 DEF TypeOK
  <1>7. missed' \in [JobIds -> SUBSET Kinds] /\ \A k \in JobIds : missed[k] \subseteq missed'[k]
    <2>1. missed' = missed \/ missed' = [missed EXCEPT ![j] = @ \cup {kind}]
      BY <1>5
    <2>2. missed \in [JobIds -> SUBSET Kinds]
      BY DEF TypeOK
    <2>3. CASE missed' = [missed EXCEPT ![j] = @ \cup {kind}]
      BY <2>2, <2>3
    <2> QED
      BY <2>1, <2>2, <2>3
  <1>8. /\ since' \in [JobIds -> [Kinds -> Nat]] /\ since'[j][kind] = Len(filed)
        /\ \A k \in JobIds, l \in Kinds : k # j \/ l # kind => since'[k][l] = since[k][l]
    <2>1. since' = [since EXCEPT ![j][kind] = Len(filed)] /\ since \in [JobIds -> [Kinds -> Nat]]
      BY DEF Load, TypeOK
    <2> QED
      BY <1>3, <2>1
  <1>9. phase' \in [JobIds -> Phases] /\ exhausted \subseteq exhausted' /\ exhausted' \subseteq JobIds
    BY DEF Load, TypeOK, Phases
  <1>10. TypeOK'
    <2>1. \A k \in JobIds, l \in Kinds : known'[k][l] \subseteq Of(l)
      BY <1>6 DEF TypeOK
    <2> QED
      BY <1>1, <1>6, <1>7, <1>8, <1>9, <2>1 DEF TypeOK
  <1>11. KnownIsHeld'
    BY <1>1, <1>6, <1>9 DEF KnownIsHeld, Kinds
  <1>12. Reading'
    <2>1. ASSUME NEW k \in JobIds, NEW l \in Kinds, k # j \/ l # kind
          PROVE  since'[k][l] <= Len(filed) /\ HasRead(k, l)'
      <3>1. since'[k][l] = since[k][l] /\ known'[k][l] = known[k][l] /\ missed[k] \subseteq missed'[k]
        BY <1>6, <1>7, <1>8, <2>1
      <3> QED
        BY <1>1, <3>1, SameRead DEF Reading
    <2>2. HasRead(j, kind)'
      <3>1. CASE \E n \in DOMAIN filed :
                     Newest(n, Scope[j], kind) /\ known' = [known EXCEPT ![j][kind] = filed[n].objects]
        <4>1. PICK n \in DOMAIN filed :
                  Newest(n, Scope[j], kind) /\ known' = [known EXCEPT ![j][kind] = filed[n].objects]
          BY <3>1
        <4>2. known'[j][kind] = filed[n].objects
          BY <1>4, <4>1
        <4>3. /\ Matches(filed[n], Scope[j], kind)
              /\ \A o \in DOMAIN filed : Matches(filed[o], Scope[j], kind) => o <= n
          BY <4>1 DEF Newest
        <4> QED
          BY <1>1, <1>3, <1>8, <4>2, <4>3 DEF HasRead, Matches
      <3>2. CASE Nothing(Scope[j], kind)
        BY <1>1, <1>3, <1>8, <3>2 DEF HasRead, Nothing, Matches
      <3>3. CASE missed' = [missed EXCEPT ![j] = @ \cup {kind}]
        BY <3>3 DEF HasRead, TypeOK
      <3> QED
        BY <1>5, <3>1, <3>2, <3>3
    <2> QED
      BY <1>1, <1>3, <1>8, <2>1, <2>2 DEF Reading
  <1> QED
    BY <1>2, <1>10, <1>11, <1>12

LEMMA WorkInv ==
    ASSUME Inv, NEW j \in JobIds, Work(j)
    PROVE  Inv'
  <1> USE DEF Inv
  <1>1. filed' = filed /\ held \subseteq held' /\ since' = since /\ missed' = missed
    BY DEF Work
  <1>2. ListedIsHeld' /\ ReadBefore' /\ EntriesKept'
    BY <1>1, NothingFiled
  <1>3. PICK confirmed \in SUBSET (Large \cap Fetches[j]), assumed \in SUBSET (Large \cap Fetches[j]),
             small \in SUBSET (Small \cap Fetches[j]) :
           /\ \/ assumed # {} /\ exhausted' = exhausted \cup {j}
              \/ assumed = {} /\ UNCHANGED exhausted
           /\ held' = held \cup confirmed
           /\ known' = [known EXCEPT ![j] = [kind \in Kinds |->
                  @[kind] \cup (IF kind = "index" THEN confirmed \cup assumed ELSE small)]]
           /\ dirty' = [dirty EXCEPT ![j] =
                            {kind \in Kinds : known'[j][kind] # known[j][kind]}]
    BY DEF Work
  <1>4. /\ known'[j]["index"] = known[j]["index"] \cup confirmed \cup assumed
        /\ known'[j]["pack"] = known[j]["pack"] \cup small
        /\ \A k \in JobIds : k # j => known'[k] = known[k]
    BY <1>3 DEF TypeOK, Kinds
  <1>5. TypeOK'
    <2>1. known' \in [JobIds -> [Kinds -> SUBSET (Large \cup Small)]]
      BY <1>3 DEF TypeOK
    <2>2. \A k \in JobIds, l \in Kinds : known'[k][l] \subseteq Of(l)
      BY <1>4 DEF TypeOK, Of, Kinds
    <2>3. /\ held' \subseteq Large /\ exhausted' \subseteq JobIds
          /\ dirty' \in [JobIds -> SUBSET Kinds] /\ phase' \in [JobIds -> Phases]
      BY <1>3 DEF Work, TypeOK, Phases
    <2> QED
      BY <1>1, <2>1, <2>2, <2>3 DEF TypeOK
  <1>6. KnownIsHeld'
    BY <1>3, <1>4 DEF KnownIsHeld
  <1>7. Reading'
    <2>1. \A k \in JobIds, l \in Kinds : known[k][l] \subseteq known'[k][l]
      BY <1>4 DEF Kinds
    <2>2. ASSUME NEW k \in JobIds, NEW l \in Kinds PROVE HasRead(k, l)'
      BY <1>1, <2>1, SameRead DEF Reading
    <2> QED
      BY <1>1, <2>2 DEF Reading
  <1> QED
    BY <1>2, <1>5, <1>6, <1>7

\* The document a job files keeps what the last one of its scope listed.
LEMMA FiledKeeps ==
    ASSUME Inv, NEW j \in JobIds, NEW kind \in Kinds, NEW objects \in SUBSET known[j][kind],
           Contents(j, kind, objects), Document(j, kind, objects) \in Documents,
           filed' = Append(filed, Document(j, kind, objects)),
           NEW n, n = Len(filed) + 1, NEW m \in 1 .. Len(filed)
    PROVE  Kept(n, m)'
  <1> DEFINE d == Document(j, kind, objects)
             p == filed[m]
  <1> USE DEF Inv
  <1>1. /\ Len(filed) \in Nat /\ filed'[n] = d /\ filed'[m] = p
        /\ \A o \in 1 .. Len(filed) : filed'[o] = filed[o]
    BY Appended
  <1>2. /\ d.scope = Scope[j] /\ d.kind = kind /\ d.objects = objects
        /\ d.read = since[j][kind] /\ (d.blind <=> kind \in missed[j])
    BY DEF Document
  <1>3. since[j][kind] \in Nat /\ since[j][kind] <= Len(filed) /\ HasRead(j, kind)
    BY DEF Reading, TypeOK
  <1>4. SUFFICES ASSUME p.scope = Scope[j], p.kind = kind,
                        \A o \in m + 1 .. Len(filed) : ~(filed[o].scope = Scope[j] /\ filed[o].kind = kind),
                        m <= since[j][kind], kind \notin missed[j],
                        \A o \in m + 1 .. since[j][kind] : ~Foreign(o, Scope[j], kind),
                        ~(kind = "pack" /\ Cardinality(objects) = PackLimit)
                 PROVE  p.objects \subseteq objects
    <2>1. ASSUME NEW o \in m + 1 .. since[j][kind], Foreign(o, Scope[j], kind)
          PROVE  Foreign(o, Scope[j], kind)'
      BY <1>1, <1>3, <2>1 DEF Foreign, Matches
    <2>2. n - 1 = Len(filed) /\ filed'[n] = d
      BY <1>1
    <2>3. CASE kind \in missed[j]
      BY <1>2, <2>2, <2>3 DEF Kept
    <2>4. CASE \E o \in m + 1 .. since[j][kind] : Foreign(o, Scope[j], kind)
      BY <1>2, <2>1, <2>2, <2>4 DEF Kept
    <2>5. CASE \E o \in m + 1 .. Len(filed) : filed[o].scope = Scope[j] /\ filed[o].kind = kind
      BY <1>1, <1>2, <2>2, <2>5 DEF Kept
    <2>6. CASE p.scope # Scope[j] \/ p.kind # kind \/ p.objects \subseteq objects
      BY <1>1, <1>2, <2>2, <2>6 DEF Kept
    <2>7. CASE ~(m <= since[j][kind]) \/ (kind = "pack" /\ Cardinality(objects) = PackLimit)
      BY <1>1, <1>2, <1>3, <2>2, <2>7 DEF Kept
    <2> QED
      BY <2>3, <2>4, <2>5, <2>6, <2>7
  <1>5. objects = known[j][kind]
    BY <1>4 DEF Contents
  <1>6. Matches(p, Scope[j], kind)
    BY <1>4, JobsAssumption DEF Matches
  <1>7. PICK o \in 1 .. since[j][kind] :
            /\ \A q \in 1 .. since[j][kind] : Matches(filed[q], Scope[j], kind) => q <= o
            /\ filed[o].objects \subseteq known[j][kind]
            /\ Matches(filed[o], Scope[j], kind)
    BY <1>3, <1>4, <1>6 DEF HasRead
  <1>8. o = m
    <2>1. m <= o
      BY <1>3, <1>4, <1>6, <1>7
    <2>2. CASE m < o
      <3>1. o \in m + 1 .. since[j][kind] /\ o \in m + 1 .. Len(filed)
        BY <1>1, <1>3, <2>2
      <3>2. filed[o].kind = kind
        BY <1>7 DEF Matches
      <3> QED
        BY <1>4, <1>7, <3>1, <3>2 DEF Foreign
    <2> QED
      BY <2>1, <2>2, <1>3
  <1> QED
    BY <1>5, <1>7, <1>8

LEMMA FileInv ==
    ASSUME Inv, NEW j \in JobIds, NEW kind \in Kinds, File(j, kind)
    PROVE  Inv'
  <1> USE DEF Inv
  <1>1. /\ held' = held /\ exhausted' = exhausted /\ known' = known /\ dirty' = dirty
        /\ since' = since /\ missed' = missed /\ phase' \in [JobIds -> Phases]
    BY DEF File, TypeOK, Phases
  <1>2. KnownIsHeld'
    BY <1>1 DEF KnownIsHeld
  <1>3. CASE filed' = filed
    <2>1. ListedIsHeld' /\ ReadBefore' /\ EntriesKept'
      BY <1>1, <1>3, NothingFiled
    <2>2. TypeOK' /\ Reading'
      BY <1>1, <1>3, SameRead DEF TypeOK, Reading
    <2> QED
      BY <1>2, <2>1, <2>2
  <1>4. ASSUME CanFile(j, kind), NEW objects \in SUBSET known[j][kind], Contents(j, kind, objects),
               filed' = Append(filed, Document(j, kind, objects))
        PROVE  Inv'
    <2> DEFINE d == Document(j, kind, objects)
    <2>1. d \in Documents
      BY JobsAssumption DEF Document, Documents, TypeOK
    <2>2. /\ filed' \in Seq(Documents) /\ Len(filed) \in Nat /\ Len(filed') = Len(filed) + 1
          /\ DOMAIN filed = 1 .. Len(filed) /\ DOMAIN filed' = 1 .. Len(filed) + 1
          /\ \A n \in 1 .. Len(filed) : filed'[n] = filed[n]
          /\ filed'[Len(filed) + 1] = d
      BY <1>4, <2>1, Appended
    <2>3. d.objects = objects /\ d.kind = kind /\ d.read = since[j][kind]
      BY DEF Document
    <2>4. TypeOK'
      <3>1. \A n \in DOMAIN filed' : filed'[n].objects \subseteq Of(filed'[n].kind)
        BY <2>2, <2>3 DEF TypeOK
      <3> QED
        BY <1>1, <2>2, <3>1 DEF TypeOK
    <2>5. ListedIsHeld'
      BY <1>1, <1>4, <2>2, <2>3 DEF ListedIsHeld, KnownIsHeld, CanFile
    <2>6. Reading'
      <3>1. ASSUME NEW k \in JobIds, NEW l \in Kinds PROVE HasRead(k, l)'
        <4>1. since[k][l] \in Nat /\ since[k][l] <= Len(filed) /\ HasRead(k, l)
          BY DEF Reading, TypeOK
        <4>2. \A o \in 1 .. since[k][l] : filed'[o] = filed[o]
          BY <2>2, <4>1
        <4> QED
          BY <1>1, <4>1, <4>2, SameRead
      <3>2. \A k \in JobIds, l \in Kinds : since'[k][l] <= Len(filed')
        BY <1>1, <2>2 DEF Reading, TypeOK
      <3> QED
        BY <3>1, <3>2 DEF Reading
    <2>7. ReadBefore'
      <3>1. since[j][kind] \in Nat /\ since[j][kind] < Len(filed) + 1
        BY <2>2 DEF Reading, TypeOK
      <3> QED
        BY <2>2, <2>3, <3>1 DEF ReadBefore
    <2>8. ASSUME NEW n \in DOMAIN filed', NEW m \in 1 .. n - 1 PROVE Kept(n, m)'
      <3>1. CASE n = Len(filed) + 1
        BY <1>4, <2>1, <2>2, <3>1, FiledKeeps
      <3>2. CASE n \in DOMAIN filed
        <4>1. Kept(n, m) /\ n \in Nat /\ m \in Nat /\ m < n /\ n <= Len(filed)
          BY <2>2, <3>2, KeptPairs
        <4>2. filed[n].read \in Nat /\ filed[n].read < n
          <5>1. filed[n] \in Documents
            BY <3>2 DEF TypeOK
          <5> QED
            BY <3>2, <5>1 DEF ReadBefore, Documents
        <4>3. \A o \in 1 .. n : filed'[o] = filed[o]
          BY <2>2, <4>1
        <4>4. filed'[n] = filed[n] /\ filed'[m] = filed[m]
          BY <4>1, <4>3
        <4>5. /\ \A o \in m + 1 .. n - 1 : filed'[o] = filed[o]
              /\ \A o \in m + 1 .. filed[n].read : filed'[o] = filed[o]
          BY <4>1, <4>2, <4>3
        <4> QED
          BY <4>1, <4>4, <4>5 DEF Kept, Foreign, Matches
      <3> QED
        BY <2>2, <3>1, <3>2
    <2>9. EntriesKept'
      BY <2>8 DEF EntriesKept, Kept
    <2> QED
      BY <1>2, <2>4, <2>5, <2>6, <2>7, <2>9
  <1> QED
    BY <1>3, <1>4 DEF File

LEMMA ExitInv ==
    ASSUME Inv, NEW j \in JobIds, Exit(j)
    PROVE  Inv'
  <1> USE DEF Inv
  <1>1. filed' = filed /\ held' = held
    BY DEF Exit
  <1>2. ListedIsHeld' /\ ReadBefore' /\ EntriesKept'
    BY <1>1, NothingFiled
  <1>3. TypeOK'
    BY DEF Exit, TypeOK, Phases
  <1>4. KnownIsHeld'
    BY DEF Exit, KnownIsHeld, TypeOK, Kinds
  <1>5. Reading'
    <2>1. ASSUME NEW k \in JobIds, NEW l \in Kinds
          PROVE  since'[k][l] <= Len(filed) /\ HasRead(k, l)'
      <3>1. CASE k = j
        <4>1. since'[k][l] = 0 /\ Len(filed) \in Nat
          BY <3>1 DEF Exit, TypeOK
        <4> QED
          BY <4>1 DEF HasRead
      <3>2. CASE k # j
        <4>1. since'[k] = since[k] /\ known'[k] = known[k] /\ missed'[k] = missed[k]
          BY <3>2 DEF Exit, TypeOK
        <4> QED
          BY <1>1, <4>1, SameRead DEF Reading
      <3> QED
        BY <3>1, <3>2
    <2> QED
      BY <1>1, <2>1 DEF Reading
  <1> QED
    BY <1>2, <1>3, <1>4, <1>5

LEMMA StepInv == Inv /\ [Next]_vars => Inv'
  <1> SUFFICES ASSUME Inv, [Next]_vars PROVE Inv'
    OBVIOUS
  <1>1. CASE UNCHANGED vars
    <2>1. ListedIsHeld' /\ ReadBefore' /\ EntriesKept'
      BY <1>1, NothingFiled DEF vars
    <2>2. TypeOK' /\ KnownIsHeld' /\ Reading'
      BY <1>1, SameRead DEF vars, Inv, TypeOK, KnownIsHeld, Reading
    <2> QED
      BY <2>1, <2>2 DEF Inv
  <1> QED
    BY <1>1, LoadInv, WorkInv, FileInv, ExitInv DEF Next, Job, Finished

-----------------------------------------------------------------------------
LEMMA Invariance == Spec => []Inv
  BY InitInv, StepInv, PTL DEF Spec

\* Types, and: a document of one kind is never taken for the other, for any
\* scopes (scoped_prefix, get_scoped).
THEOREM TypeCorrect == Spec => []TypeOK
  <1>1. Inv => TypeOK
    BY DEF Inv
  <1> QED
    BY <1>1, Invariance, PTL

\* Through any number of jobs no manifest lists a key that the service never
\* stored or reserved, although an exhausted client confirms keys blindly
\* (GhaCache::put, save_index).
THEOREM ManifestsHonest == Spec => []ListedIsHeld
  <1>1. Inv => ListedIsHeld
    BY DEF Inv
  <1> QED
    BY <1>1, Invariance, PTL

\* For any jobs, scopes and overlaps: a document keeps what the one before it in
\* its scope listed, but for the reasons EntriesKept names (save_index,
\* save_pack, get_scoped).
THEOREM NothingElseDropped == Spec => []EntriesKept
  <1>1. Inv => EntriesKept
    BY DEF Inv
  <1> QED
    BY <1>1, Invariance, PTL
=============================================================================
