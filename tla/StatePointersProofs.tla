------------------------ MODULE StatePointersProofs ------------------------
(***************************************************************************)
(* What a load makes of pointers and data, for every build, every memory   *)
(* and every contents that keep to the rules of docs/3ds-save-states.md.   *)
(***************************************************************************)
EXTENDS StatePointers, TLAPS

-----------------------------------------------------------------------------
(* What is where. *)

LEMMA Distinct == "rom" \in Space /\ "rom" \in Thing /\ "data" \notin Thing /\ "rom" # "data"
  BY BuildAssumption DEF Thing

\* Where things are in a build: no two overlap, and none is at the address 0.
LEMMA Places ==
  ASSUME NEW b \in Build
  PROVE  /\ DOMAIN b.at \subseteq Thing /\ DOMAIN b.size = DOMAIN b.at
         /\ \A t \in DOMAIN b.at : b.at[t] \in Nat /\ b.at[t] > 0 /\ b.size[t] \in Nat
         /\ \A t, u \in DOMAIN b.at : t # u => b.at[t] + b.size[t] <= b.at[u] \/ b.at[u] + b.size[u] <= b.at[t]
         /\ Holds(b, b.own)
         /\ \A n \in Vars(b) : \A k \in DOMAIN b.own[n] : Derived(n, k) => IsFromRom(n, k, b.own[n][k])
  BY BuildAssumption

\* A word is a place of a thing the build has, or data.
LEMMA WordIs ==
  ASSUME NEW b \in Build, NEW w \in Word(b)
  PROVE  IF Points(w) THEN /\ w.to \in DOMAIN b.at /\ w.off \in Nat /\ w.off < b.size[w.to]
                           /\ w = [to |-> w.to, off |-> w.off]
         ELSE w.to = "data" /\ w.off \in Nat
  <1>1. CASE \E t \in DOMAIN b.at : w \in {[to |-> t, off |-> o] : o \in 0 .. b.size[t] - 1}
    <2>1. PICK t \in DOMAIN b.at : \E o \in 0 .. b.size[t] - 1 : w = [to |-> t, off |-> o]
      BY <1>1
    <2>2. PICK o \in 0 .. b.size[t] - 1 : w = [to |-> t, off |-> o]
      BY <2>1
    <2>3. w.to = t /\ w.off = o /\ t \in Thing
      BY <2>2, Places
    <2>4. o \in Nat /\ o < b.size[t]
      BY Places
    <2> QED BY <2>2, <2>3, <2>4 DEF Points
  <1>2. CASE w \in [to : {"data"}, off : Nat]
    BY <1>2, Distinct DEF Points
  <1> QED BY <1>1, <1>2 DEF Word

\* The address of a place is that of no other thing, and not 0.
LEMMA Found ==
  ASSUME NEW b \in Build, NEW t \in DOMAIN b.at, NEW o \in Nat, o < b.size[t], NEW things
  PROVE  /\ b.at[t] + o \in Nat /\ b.at[t] + o # 0
         /\ t \in things => Classify(b, b.at[t] + o, things) = {[to |-> t, off |-> o]}
         /\ t \notin things => Classify(b, b.at[t] + o, things) = {}
  <1> DEFINE At2 == b.at[t] + o
  <1>1. b.at[t] \in Nat /\ b.at[t] > 0 /\ b.size[t] \in Nat
    BY Places
  <1>2. ASSUME NEW u \in DOMAIN b.at PROVE b.at[u] <= At2 /\ At2 < b.at[u] + b.size[u] <=> u = t
    <2>1. b.at[u] \in Nat /\ b.size[u] \in Nat
      BY Places
    <2>2. CASE u = t
      BY <1>1, <2>2
    <2>3. CASE u # t
      <3>1. b.at[t] + b.size[t] <= b.at[u] \/ b.at[u] + b.size[u] <= b.at[t]
        BY <2>3, Places
      <3> QED BY <3>1, <1>1, <2>1, <2>3
    <2> QED BY <2>2, <2>3
  <1>3. At2 - b.at[t] = o
    BY <1>1
  <1>4. {u \in DOMAIN b.at \cap things : b.at[u] <= At2 /\ At2 < b.at[u] + b.size[u]} = {t} \cap things
    BY <1>2
  <1>5. Classify(b, At2, things) = {[to |-> u, off |-> At2 - b.at[u]] : u \in {t} \cap things}
    BY <1>4 DEF Classify
  <1> HIDE DEF At2
  <1>6. t \in things => Classify(b, At2, things) = {[to |-> t, off |-> o]}
    BY <1>3, <1>5
  <1>7. t \notin things => Classify(b, At2, things) = {}
    BY <1>5
  <1> QED BY <1>1, <1>6, <1>7 DEF At2

\* The number 0 and the empty set of things give nothing.
LEMMA NotFound ==
  ASSUME NEW b \in Build, NEW word, NEW things, word = 0 \/ things = {}
  PROVE  Classify(b, word, things) = {}
  <1>1. ASSUME NEW t \in DOMAIN b.at PROVE ~ (b.at[t] <= 0)
    BY Places
  <1> QED BY <1>1 DEF Classify
-----------------------------------------------------------------------------
(* A saved word: what is found of it. *)

\* The memory of a build, word by word.
LEMMA Memory ==
  ASSUME NEW b \in Build, NEW c, Holds(b, c), NEW n \in Vars(b)
  PROVE  /\ DOMAIN Placed(b, c) = Vars(b)
         /\ DOMAIN c = Vars(b)
         /\ DOMAIN Placed(b, c)[n] = DOMAIN c[n]
         /\ \A k \in DOMAIN c[n] :
              /\ c[n][k] \in Word(b)
              /\ Placed(b, c)[n][k] = IF Points(c[n][k]) THEN At(b, c[n][k]) ELSE c[n][k].off
  BY DEF Placed, Holds

Here(b, mem, n, k) == {r \in PortStatePtrs_Collect(b, mem) : r.holder = n /\ r.word = k}

\* The relocations of a word are what Classify makes of it.
LEMMA Relocations ==
  ASSUME NEW b, NEW mem, NEW n, NEW k
  PROVE  Here(b, mem, n, k) =
           IF n \in Saved(b) /\ k \in DOMAIN mem[n]
           THEN {[holder |-> n, word |-> k, to |-> p] : p \in Classify(b, mem[n][k], Scanned(b, n, mem[n]))}
           ELSE {}
  <1> DEFINE Of(m, j) == {[holder |-> m, word |-> j, to |-> p] : p \in Classify(b, mem[m][j], Scanned(b, m, mem[m]))}
  <1>1. PortStatePtrs_Collect(b, mem) = UNION {UNION {Of(m, j) : j \in DOMAIN mem[m]} : m \in Saved(b)}
    BY DEF PortStatePtrs_Collect
  <1>2. \A m, j : \A r \in Of(m, j) : r.holder = m /\ r.word = j
    OBVIOUS
  <1> HIDE DEF Of
  <1>3. ASSUME NEW r
        PROVE  r \in Here(b, mem, n, k) <=> n \in Saved(b) /\ k \in DOMAIN mem[n] /\ r \in Of(n, k)
    <2>1. r \in PortStatePtrs_Collect(b, mem) <=> \E m \in Saved(b) : \E j \in DOMAIN mem[m] : r \in Of(m, j)
      BY <1>1
    <2> QED BY <2>1, <1>2 DEF Here
  <1> QED BY <1>3 DEF Of

\* A pointer of a saved variable is found, and for what it is; or PortGen_All_Init makes it again.
LEMMA PointerIsFound ==
  ASSUME NEW b \in Build, NEW c, Holds(b, c), Respects(b, c), NEW n \in Saved(b), NEW k \in DOMAIN c[n],
         Points(c[n][k])
  PROVE  \/ Here(b, Placed(b, c), n, k) = {[holder |-> n, word |-> k, to |-> c[n][k]]}
         \/ Here(b, Placed(b, c), n, k) = {} /\ IsFromRom(n, k, c[n][k])
  <1> DEFINE mem == Placed(b, c)
             p == c[n][k]
             things == Scanned(b, n, mem[n])
  <1>0. n \in Vars(b)
    BY DEF Saved
  <1>1. /\ DOMAIN mem[n] = DOMAIN c[n]
        /\ \A j \in DOMAIN c[n] : c[n][j] \in Word(b) /\ mem[n][j] = IF Points(c[n][j]) THEN At(b, c[n][j]) ELSE c[n][j].off
    BY <1>0, Memory
  <1> HIDE DEF mem
  <1>2. ASSUME NEW j \in DOMAIN c[n], Points(c[n][j]), NEW some
        PROVE  /\ mem[n][j] # 0
               /\ c[n][j].to \in Thing
               /\ c[n][j].to \in some => Classify(b, mem[n][j], some) = {c[n][j]}
    <2>1. c[n][j] \in Word(b)
      BY <1>1
    <2> DEFINE w == c[n][j]
    <2>2. w.to \in DOMAIN b.at /\ w.off \in Nat /\ w.off < b.size[w.to] /\ w = [to |-> w.to, off |-> w.off]
      BY <1>2, <2>1, WordIs
    <2>3. mem[n][j] = b.at[w.to] + w.off
      BY <1>1, <1>2 DEF At
    <2>4. w.to \in Thing
      BY <1>2 DEF Points
    <2> HIDE DEF w
    <2>5. PICK t \in DOMAIN b.at, o \in Nat : o < b.size[t] /\ w = [to |-> t, off |-> o]
      BY <2>2
    <2>6. mem[n][j] = b.at[t] + o /\ w.to = t
      BY <2>3, <2>5
    <2>7. mem[n][j] # 0 /\ (t \in some => Classify(b, mem[n][j], some) = {[to |-> t, off |-> o]})
      BY <2>5, <2>6, Found
    <2> QED BY <2>4, <2>5, <2>6, <2>7 DEF w
  <1>3. Here(b, mem, n, k) = {[holder |-> n, word |-> k, to |-> q] : q \in Classify(b, mem[n][k], things)}
    BY <1>1, Relocations
  <1>4. CASE n \in DOMAIN Mixed
    <2>1. things = Mixed[n] \cup Func
      BY <1>4 DEF Scanned
    <2>2. p.to \in Mixed[n] \cup Func
      BY <1>4 DEF Respects, MixedIsListed
    <2>3. Classify(b, mem[n][k], things) = {p}
      BY <1>2, <2>1, <2>2
    <2> QED BY <1>3, <2>3 DEF mem
  <1>5. CASE n \notin DOMAIN Mixed
    <2>1. IsPlain(b, n, c)
      BY <1>5 DEF Respects
    <2>2. CASE \A j \in DOMAIN c[n] : ~ Points(c[n][j]) => c[n][j].off = 0
      <3>1. \E j \in DOMAIN mem[n] : mem[n][j] # 0
        BY <1>1, <1>2
      <3>2. ASSUME NEW j \in DOMAIN mem[n], mem[n][j] # 0 PROVE Classify(b, mem[n][j], Thing) # {}
        <4>1. Points(c[n][j])
          BY <1>1, <2>2, <3>2
        <4> QED BY <4>1, <1>1, <1>2
      <3>3. things = Thing
        BY <1>5, <3>1, <3>2 DEF Scanned, IsTable
      <3>4. Classify(b, mem[n][k], things) = {p}
        BY <1>2, <3>3
      <3> QED BY <1>3, <3>4 DEF mem
    <2>3. CASE /\ ~ IsTable(b, Placed(b, c)[n])
               /\ \A j \in DOMAIN c[n] : Points(c[n][j]) => IsFromRom(n, j, c[n][j])
      <3>1. things = {}
        BY <1>5, <2>3 DEF Scanned, mem
      <3>2. Classify(b, mem[n][k], things) = {}
        BY <3>1, NotFound
      <3> QED BY <1>3, <2>3, <3>2 DEF mem
    <2> QED BY <2>1, <2>2, <2>3 DEF IsPlain
  <1> QED BY <1>4, <1>5

\* Nothing is found where data is.
LEMMA DataIsNotFound ==
  ASSUME NEW b \in Build, NEW c, Holds(b, c), Respects(b, c), NEW n \in Saved(b), NEW k \in DOMAIN c[n],
         ~ Points(c[n][k])
  PROVE  Here(b, Placed(b, c), n, k) = {}
  <1> DEFINE mem == Placed(b, c)
             things == Scanned(b, n, mem[n])
  <1>0. n \in Vars(b)
    BY DEF Saved
  <1>1. DOMAIN mem[n] = DOMAIN c[n] /\ mem[n][k] = c[n][k].off
    BY <1>0, Memory
  <1> HIDE DEF mem
  <1>2. Classify(b, mem[n][k], things) = {} => Here(b, mem, n, k) = {}
    BY <1>1, Relocations
  <1>3. CASE n \in DOMAIN Mixed
    BY <1>1, <1>2, <1>3 DEF Respects, MixedIsListed, Scanned, mem
  <1>4. CASE n \notin DOMAIN Mixed
    <2>1. CASE c[n][k].off = 0
      BY <1>1, <1>2, <2>1, NotFound DEF mem
    <2>2. CASE ~ IsTable(b, mem[n])
      <3>1. things = {}
        BY <1>4, <2>2 DEF Scanned
      <3> QED BY <1>2, <3>1, NotFound DEF mem
    <2> QED BY <1>4, <2>1, <2>2 DEF Respects, IsPlain, mem
  <1> QED BY <1>3, <1>4
-----------------------------------------------------------------------------
(* A word of the loading build, after the load. *)

\* A word of what the loading build had: where FromRom has a place, it is that place.
LEMMA Before ==
  ASSUME NEW to \in Build, NEW n \in Vars(to), NEW k \in DOMAIN to.own[n], Derived(n, k)
  PROVE  /\ Placed(to, to.own)[n][k] = to.at["rom"] + FromRom[n][k]
         /\ "rom" \in DOMAIN to.at /\ FromRom[n][k] < to.size["rom"]
  <1> DEFINE w == to.own[n][k]
  <1>1. w = [to |-> "rom", off |-> FromRom[n][k]]
    BY Places DEF IsFromRom
  <1>2. w \in Word(to) /\ Placed(to, to.own)[n][k] = IF Points(w) THEN At(to, w) ELSE w.off
    BY Places, Memory
  <1>3. Points(w)
    BY <1>1, Distinct DEF Points
  <1>4. w.to \in DOMAIN to.at /\ w.off < to.size[w.to]
    BY <1>2, <1>3, WordIs
  <1> HIDE DEF w
  <1> QED BY <1>1, <1>2, <1>3, <1>4 DEF At

\* Word k of n after a load: relocated, or from the ROM, or of the state, or as before.
LEMMA WordLoaded ==
  ASSUME NEW from \in Build, NEW c, Holds(from, c), NEW to \in Build, NEW n \in Vars(to), NEW k \in DOMAIN to.own[n]
  PROVE  LET here == Here(from, Placed(from, c), n, k)
             p == (CHOOSE r \in here : TRUE).to
         IN  Loaded(from, to, c)[n][k] =
               IF here # {} THEN IF Has(to, p) THEN At(to, p) ELSE 0
               ELSE IF Derived(n, k) THEN to.at["rom"] + FromRom[n][k]
               ELSE IF n \in Saved(from) /\ n \notin to.kept /\ k \in DOMAIN c[n] THEN Placed(from, c)[n][k]
               ELSE Placed(to, to.own)[n][k]
  <1> DEFINE mem == Placed(from, c)
             held == Placed(to, to.own)
             body == Ss4WriteBody(from, mem)
             copied == CopyVars(to, held, body.vars)
             inited == PortGen_All_Init(to, copied)
             here == {r \in body.relocs : r.holder = n /\ r.word = k}
  <1>1. /\ body.relocs = PortStatePtrs_Collect(from, mem)
        /\ DOMAIN body.vars = Saved(from)
        /\ n \in Saved(from) => body.vars[n] = mem[n]
    BY DEF Ss4WriteBody
  <1>2. DOMAIN held[n] = DOMAIN to.own[n] /\ (n \in Saved(from) => DOMAIN mem[n] = DOMAIN c[n])
    BY Places, Memory DEF Saved
  <1>3. Loaded(from, to, c) = Apply(to, inited, body.relocs)
    BY DEF Loaded, Ss4Load
  <1> HIDE DEF mem, held, body
  <1>4. /\ DOMAIN copied[n] = DOMAIN held[n]
        /\ copied[n][k] = IF n \in Saved(from) /\ n \notin to.kept /\ k \in DOMAIN c[n] THEN mem[n][k] ELSE held[n][k]
    BY <1>1, <1>2 DEF CopyVars
  <1> HIDE DEF copied
  <1>5. /\ DOMAIN inited[n] = DOMAIN held[n]
        /\ inited[n][k] = IF Derived(n, k) THEN to.at["rom"] + FromRom[n][k] ELSE copied[n][k]
    BY <1>2, <1>4 DEF PortGen_All_Init
  <1> HIDE DEF inited
  <1>6. Apply(to, inited, body.relocs)[n][k] =
          IF here = {} THEN inited[n][k]
          ELSE IF Has(to, (CHOOSE r \in here : TRUE).to) THEN At(to, (CHOOSE r \in here : TRUE).to) ELSE 0
    BY <1>2, <1>5 DEF Apply
  <1>7. here = Here(from, mem, n, k)
    BY <1>1 DEF Here
  <1> HIDE DEF here
  <1> QED BY <1>3, <1>4, <1>5, <1>6, <1>7 DEF mem, held

\* What is chosen of a set of one.
LEMMA OneOfOne ==
  ASSUME NEW e
  PROVE  (CHOOSE r \in {e} : TRUE) = e
  OBVIOUS

\* A pointer, in whatever build it is loaded.
LEMMA PointerLoaded ==
  ASSUME NEW from \in Build, NEW c, Holds(from, c), Respects(from, c), NEW to \in Build,
         NEW n \in Carried(from, to), NEW k \in DOMAIN c[n] \cap DOMAIN to.own[n], Points(c[n][k])
  PROVE  Names(to, c[n][k], Loaded(from, to, c)[n][k])
  <1> DEFINE here == Here(from, Placed(from, c), n, k)
             p == c[n][k]
             word == Loaded(from, to, c)[n][k]
  <1>1. n \in Saved(from) /\ n \in Vars(to)
    BY DEF Carried
  <1>2. word = LET q == (CHOOSE r \in here : TRUE).to IN
                 IF here # {} THEN IF Has(to, q) THEN At(to, q) ELSE 0
                 ELSE IF Derived(n, k) THEN to.at["rom"] + FromRom[n][k]
                 ELSE IF n \in Saved(from) /\ n \notin to.kept /\ k \in DOMAIN c[n] THEN Placed(from, c)[n][k]
                 ELSE Placed(to, to.own)[n][k]
    BY <1>1, WordLoaded
  <1>3. \/ here = {[holder |-> n, word |-> k, to |-> p]}
        \/ here = {} /\ IsFromRom(n, k, p)
    BY <1>1, PointerIsFound
  <1> HIDE DEF here, word
  <1>4. CASE here = {[holder |-> n, word |-> k, to |-> p]}
    <2> DEFINE found == [holder |-> n, word |-> k, to |-> p]
    <2>0. found.to = p
      OBVIOUS
    <2> HIDE DEF found
    <2>1. (CHOOSE r \in {found} : TRUE).to = p /\ {found} # {}
      BY <2>0, OneOfOne
    <2>2. word = IF Has(to, p) THEN At(to, p) ELSE 0
      BY <1>2, <1>4, <2>1 DEF found
    <2> HIDE DEF p
    <2>3. Names(to, p, word)
      BY <2>2 DEF Names, Has, At, Vars
    <2> QED BY <2>3 DEF p, word
  <1>5. CASE here = {} /\ IsFromRom(n, k, p)
    <2>1. Derived(n, k) /\ p = [to |-> "rom", off |-> FromRom[n][k]]
      BY <1>5 DEF IsFromRom
    <2>2. word = At(to, p)
      BY <1>2, <1>5, <2>1 DEF At
    <2>3. p.to \in DOMAIN to.at /\ p.off < to.size[p.to]
      BY <1>1, <2>1, Before
    <2> QED BY <2>2, <2>3 DEF Names, word
  <1> QED BY <1>3, <1>4, <1>5

\* Every pointer comes back, in every build, whatever was saved.
THEOREM PointersBack == Spec => []PointersComeBack
  <1>1. ASSUME NEW saved \in Content PROVE LosePointers(saved[1], saved[2]) = {}
    <2>1. saved[1] \in Build /\ Holds(saved[1], saved[2]) /\ Respects(saved[1], saved[2])
      BY ContentAssumption
    <2> QED BY <2>1, PointerLoaded DEF LosePointers
  <1>2. PointersComeBack
    BY <1>1 DEF PointersComeBack, LostPointers
  <1> QED BY <1>2, PTL

\* A word of data, and a word the state does not have.
LEMMA DataLoaded ==
  ASSUME NEW from \in Build, NEW c, Holds(from, c), Respects(from, c), NEW to \in Build,
         NEW n \in Vars(to), NEW k \in DOMAIN to.own[n]
  PROVE  IF n \in Carried(from, to) /\ k \in DOMAIN c[n]
         THEN ~ Points(c[n][k]) /\ ~ Derived(n, k) => Loaded(from, to, c)[n][k] = c[n][k].off
         ELSE \/ Loaded(from, to, c)[n][k] = Placed(to, to.own)[n][k]
              \/ n \in to.kept \cap Saved(from) /\ k \in DOMAIN c[n] /\ Points(c[n][k])
  <1> DEFINE here == Here(from, Placed(from, c), n, k)
             word == Loaded(from, to, c)[n][k]
             held == Placed(to, to.own)[n][k]
  <1>1. here = {} => word = IF Derived(n, k) THEN to.at["rom"] + FromRom[n][k]
                            ELSE IF n \in Saved(from) /\ n \notin to.kept /\ k \in DOMAIN c[n]
                                 THEN Placed(from, c)[n][k] ELSE held
    BY WordLoaded
  <1>2. n \in Carried(from, to) <=> n \in Saved(from) /\ n \notin to.kept
    BY DEF Carried
  <1>3. n \in Saved(from) /\ k \in DOMAIN c[n] /\ ~ Points(c[n][k]) => here = {}
    BY DataIsNotFound
  <1>4. n \in Saved(from) => DOMAIN Placed(from, c)[n] = DOMAIN c[n]
    BY Memory DEF Saved
  <1>5. ~ (n \in Saved(from) /\ k \in DOMAIN c[n]) => here = {}
    BY <1>4, Relocations
  <1>6. n \in Saved(from) /\ k \in DOMAIN c[n] /\ ~ Points(c[n][k]) => Placed(from, c)[n][k] = c[n][k].off
    BY Memory DEF Saved
  <1>7. Derived(n, k) => held = to.at["rom"] + FromRom[n][k]
    BY Before
  <1> HIDE DEF here, word, held
  <1>8. CASE n \in Carried(from, to) /\ k \in DOMAIN c[n]
    BY <1>1, <1>2, <1>3, <1>6, <1>8 DEF word
  <1>9. CASE ~ (n \in Carried(from, to) /\ k \in DOMAIN c[n])
    BY <1>1, <1>2, <1>3, <1>5, <1>7, <1>9 DEF word, held
  <1> QED BY <1>8, <1>9

\* No data is changed, in any build, whatever was saved.
THEOREM DataStays == Spec => []DataIsLeftAlone
  <1>1. ASSUME NEW saved \in Content PROVE ChangeData(saved[1], saved[2]) = {}
    <2>1. saved[1] \in Build /\ Holds(saved[1], saved[2]) /\ Respects(saved[1], saved[2])
      BY ContentAssumption
    <2> QED BY <2>1, DataLoaded DEF ChangeData
  <1>2. DataIsLeftAlone
    BY <1>1 DEF DataIsLeftAlone, ChangedData
  <1> QED BY <1>2, PTL
=============================================================================
