--------------------------- MODULE StatePointers ---------------------------
(***************************************************************************)
(* What a save state does with the host pointers in the game's variables   *)
(* (platform/3ds/source/port_state_ptrs.c, port_state_vars.c, and the body *)
(* of format 4 in port_save_state.c).                                      *)
(*                                                                         *)
(* A state is written by one build of the program and loaded by another,   *)
(* or by the same one with the ROM elsewhere in memory.  A build says where*)
(* everything is that a pointer can name, as far as it has it: the arrays  *)
(* that stand for the GBA's memory and the ROM, functions, and variables.  *)
(* A word of memory is a number and a pointer is an address: nothing in    *)
(* memory tells them apart, which is what the three rules of               *)
(* port_state_ptrs.c are for.  Offsets count words; every variable is      *)
(* aligned; memory for the list of pointers does not run out.              *)
(* To SaveStates the machine's contents are a name that comes and goes     *)
(* whole; here is what of it is in the variables, whenever a load is due.  *)
(***************************************************************************)
EXTENDS SaveStates, Integers, Sequences

CONSTANTS
  Space, Func, Var,  \* what a pointer can name: arrays, functions, variables
  Build,             \* [at, size: by thing, kept: the variables of kNotSaved, own: what they hold at a load]
  Mixed,             \* kRules: what the pointers of a mixed variable may name, but for functions: spaces, and
                     \* with F_VARS every variable
  FromRom,           \* what PortGen_All_Init derives: offsets in the ROM, by variable and word
  Content            \* what the variables may hold when a state is saved: <<build, words by variable>>

Thing == Space \cup Func \cup Var
Vars(b) == DOMAIN b.at \cap Var
Saved(b) == Vars(b) \ b.kept

-----------------------------------------------------------------------------
(* Writing: port_state_ptrs.c finds the pointers. *)

\* What a word points to among some things: at most one, for no two overlap.
Classify(b, word, things) ==
  {[to |-> t, off |-> word - b.at[t]] :
     t \in {u \in DOMAIN b.at \cap things : b.at[u] <= word /\ word < b.at[u] + b.size[u]}}

\* Rule 1: nothing but zeros and pointers, and not zeros only.
IsTable(b, words) ==
  /\ \E k \in DOMAIN words : words[k] # 0
  /\ \A k \in DOMAIN words : words[k] # 0 => Classify(b, words[k], Thing) # {}

\* Seeded defect: mixed variables are scanned like tables.
DefectScansAll(b, n, words) == Thing

\* What the words of a variable may point to: rule 2, or rule 1.
Scanned(b, n, words) ==
  IF n \in DOMAIN Mixed THEN Mixed[n] \cup Func ELSE IF IsTable(b, words) THEN Thing ELSE {}

PortStatePtrs_Collect(b, mem) ==
  UNION {UNION {{[holder |-> n, word |-> k, to |-> p] : p \in Classify(b, mem[n][k], Scanned(b, n, mem[n]))} :
                  k \in DOMAIN mem[n]} : n \in Saved(b)}

Ss4WriteBody(b, mem) ==
  [vars |-> [n \in Saved(b) |-> mem[n]], relocs |-> PortStatePtrs_Collect(b, mem)]

-----------------------------------------------------------------------------
(* Loading: variables by name, the tables of ROM pointers, the pointers.   *)

\* The smaller of the two sizes is copied; a variable that is kept stays as it is.
CopyVars(b, before, block) ==
  [n \in Vars(b) |->
     [k \in DOMAIN before[n] |-> IF n \in DOMAIN block \ b.kept /\ k \in DOMAIN block[n] THEN block[n][k] ELSE before[n][k]]]

Derived(n, k) == n \in DOMAIN FromRom /\ k \in DOMAIN FromRom[n]
PortGen_All_Init(b, mem) ==
  [n \in Vars(b) |->
     [k \in DOMAIN mem[n] |-> IF Derived(n, k) THEN b.at["rom"] + FromRom[n][k] ELSE mem[n][k]]]

\* Of a variable the place past its end counts, of an array it does not.
Has(b, p) ==
  /\ p.to \in DOMAIN b.at
  /\ p.off < b.size[p.to] \/ (p.to \in Var /\ p.off = b.size[p.to])
At(b, p) == b.at[p.to] + p.off

\* Seeded defect: a pointer whose target is gone is left as it was.
DefectLeavesStale(b, mem, relocs) ==
  [n \in Vars(b) |->
     [k \in DOMAIN mem[n] |->
        LET here == {r \in relocs : r.holder = n /\ r.word = k /\ Has(b, r.to)}
        IN  IF here = {} THEN mem[n][k] ELSE At(b, (CHOOSE r \in here : TRUE).to)]]

\* PortStatePtrs_Apply of every relocation: null where the target is gone.
Apply(b, mem, relocs) ==
  [n \in Vars(b) |->
     [k \in DOMAIN mem[n] |->
        LET here == {r \in relocs : r.holder = n /\ r.word = k}
            p == (CHOOSE r \in here : TRUE).to
        IN  IF here = {} THEN mem[n][k] ELSE IF Has(b, p) THEN At(b, p) ELSE 0]]

Ss4Load(b, before, body) ==
  Apply(b, PortGen_All_Init(b, CopyVars(b, before, body.vars)), body.relocs)

-----------------------------------------------------------------------------
(* What the game's variables have to respect: docs/3ds-save-states.md.     *)

\* A word of a variable is a place in a thing, or data (to = "data", with the data as off).
Points(word) == word.to \in Thing
Word(b) ==
  [to : {"data"}, off : Nat] \cup UNION {{[to |-> t, off |-> o] : o \in 0 .. b.size[t] - 1} : t \in DOMAIN b.at}

\* The memory of a build whose variables hold c.
Placed(b, c) ==
  [n \in Vars(b) |-> [k \in DOMAIN c[n] |-> IF Points(c[n][k]) THEN At(b, c[n][k]) ELSE c[n][k].off]]

IsFromRom(n, k, word) == Derived(n, k) /\ word = [to |-> "rom", off |-> FromRom[n][k]]

\* Pointers name what the rule of a mixed variable lists, and its data does not look like such a pointer.
MixedIsListed(b, n, words) ==
  \A k \in DOMAIN words :
    IF Points(words[k]) THEN words[k].to \in Mixed[n] \cup Func
    ELSE Classify(b, words[k].off, Mixed[n] \cup Func) = {}
\* Any other variable is a table, or has data no table has and no pointer that does not come from the ROM.
IsPlain(b, n, c) ==
  \/ \A k \in DOMAIN c[n] : ~ Points(c[n][k]) => c[n][k].off = 0
  \/ /\ ~ IsTable(b, Placed(b, c)[n])
     /\ \A k \in DOMAIN c[n] : Points(c[n][k]) => IsFromRom(n, k, c[n][k])

Holds(b, c) ==
  /\ DOMAIN c = Vars(b)
  /\ \A n \in Vars(b) :
       /\ DOMAIN c[n] = 1 .. b.size[n]
       /\ \A k \in DOMAIN c[n] : c[n][k] \in Word(b)
Respects(b, c) ==
  \A n \in Saved(b) : IF n \in DOMAIN Mixed THEN MixedIsListed(b, n, c[n]) ELSE IsPlain(b, n, c)

ASSUME BuildAssumption ==
  /\ "rom" \in Space /\ "data" \notin Thing
  /\ \A b \in Build :
       /\ DOMAIN b.at \subseteq Thing /\ DOMAIN b.size = DOMAIN b.at
       /\ "rom" \in DOMAIN b.at /\ b.kept \subseteq Var
       /\ \A t \in DOMAIN b.at :
            /\ b.at[t] \in Nat \ {0} /\ b.size[t] \in Nat /\ (t \in Func => b.size[t] = 1)
            /\ \A u \in DOMAIN b.at \ {t} : b.at[t] + b.size[t] <= b.at[u] \/ b.at[u] + b.size[u] <= b.at[t]
       /\ Holds(b, b.own)
       /\ \A n \in Vars(b) : \A k \in DOMAIN b.own[n] : Derived(n, k) => IsFromRom(n, k, b.own[n][k])
ASSUME ContentAssumption == \A saved \in Content : saved[1] \in Build /\ Holds(saved[1], saved[2]) /\ Respects(saved[1], saved[2])

-----------------------------------------------------------------------------
(* What it promises. *)

Loaded(from, to, c) == Ss4Load(to, Placed(to, to.own), Ss4WriteBody(from, Placed(from, c)))

\* The variables a state takes from one build to another.
Carried(from, to) == (Saved(from) \cap Vars(to)) \ to.kept

\* The service is about to serve a load (SsDoLoad).
LoadIsDue == sJob = "LOAD"

\* A loaded word names p; where p is gone it is null, or the end of the variable p was in.
Names(to, p, word) ==
  IF p.to \in DOMAIN to.at /\ p.off < to.size[p.to] THEN word = At(to, p)
  ELSE word = 0 \/ (p.to \in Vars(to) /\ word = to.at[p.to] + to.size[p.to])

\* The builds that lose a pointer of a state.
LosePointers(from, c) ==
  {to \in Build :
     LET after == Loaded(from, to, c)
     IN  \E n \in Carried(from, to) : \E k \in DOMAIN c[n] \cap DOMAIN to.own[n] :
           Points(c[n][k]) /\ ~ Names(to, c[n][k], after[n][k])}
LostPointers == UNION {LosePointers(saved[1], saved[2]) : saved \in Content}

\* A pointer that is loaded by another build, or after the ROM has moved, names what it named.  When that
\* is gone it is null, never what stands at its old place now; only where a variable has shrunk
\* (port_state_ptrs.c:257 takes the end for part of it) it may be the end of that variable.
PointersComeBack == LoadIsDue => LostPointers = {}

\* The builds that change data with a state.
ChangeData(from, c) ==
  {to \in Build :
     LET after == Loaded(from, to, c)
         before == Placed(to, to.own)
     IN  \E n \in Vars(to) : \E k \in DOMAIN to.own[n] :
           IF n \in Carried(from, to) /\ k \in DOMAIN c[n]
           THEN ~ Points(c[n][k]) /\ ~ Derived(n, k) /\ after[n][k] # c[n][k].off
           ELSE /\ after[n][k] # before[n][k]
                /\ ~ (n \in to.kept \cap Saved(from) /\ k \in DOMAIN c[n] /\ Points(c[n][k]))}
ChangedData == UNION {ChangeData(saved[1], saved[2]) : saved \in Content}

\* Data comes back as it was, also where it looks like an address of a space the variable has no pointers
\* into.  What the state does not have, and what the build keeps (the audio engine, the save thread),
\* stays as it was, but for pointers of a state from a build that did not keep it yet.
DataIsLeftAlone == LoadIsDue => ChangedData = {}
=============================================================================
