---------------------------- MODULE MCSaveStates ----------------------------
(* Small instances of SaveStates, with what an earlier session left on the   *)
(* card; and of StatePointers, with builds that differ.                      *)
EXTENDS StatePointers, TLC

CONSTANTS s1, s2

\* A current state, one of another ROM, a version 3 file of another build, and a
\* file cut short after its header.
LeftBehind(version, owner, regions, whole) ==
  [version |-> version, owner |-> owner, regions |-> regions, sizes |-> TRUE,
   whole |-> whole, snap |-> s1, at |-> 1]
\* Without a date: the run that loads them looks at no date.
MCMixedFiles ==
  {[f EXCEPT !.at = 0] : f \in
     {LeftBehind(4, "rom", 8, TRUE), LeftBehind(5, "other", 8, TRUE), LeftBehind(3, "build", 10, FALSE),
      LeftBehind(2, "other", 10, TRUE), LeftBehind(6, "rom", 8, TRUE)}}
MCTwoFiles == {LeftBehind(3, "other", 10, TRUE), LeftBehind(5, "rom", 8, FALSE)}
MCOneFile == {LeftBehind(5, "rom", 8, TRUE)}

-----------------------------------------------------------------------------
(* Builds: one; the same with the ROM elsewhere; a later one with everything   *)
(* moved, a longer table and a function gone; an older one with a shorter      *)
(* table, a variable less and one saved that is kept since.                    *)

MCMixed == ("sprite" :> {"rom"}) @@ ("menu" :> {"ewram"} \cup Var)
MCFromRom == [titles |-> <<1>>]
Places(rom, ewram, f, table, sprite, menu, titles, lives, music) ==
  [rom |-> rom, ewram |-> ewram, f |-> f, table |-> table, sprite |-> sprite, menu |-> menu, titles |-> titles,
   lives |-> lives, music |-> music]
Sizes(tableSize) == Places(2, 2, 1, tableSize, 2, 2, 2, 1, 1)
Without(r, t) == [u \in DOMAIN r \ {t} |-> r[u]]
First == [at |-> Places(10, 12, 14, 15, 17, 19, 21, 23, 24), size |-> Sizes(2), kept |-> {"music"}]
Moved == [First EXCEPT !.at["rom"] = 30]
Rebuilt == [at |-> Without(Places(40, 10, 0, 12, 15, 17, 19, 21, 22), "f"), size |-> Without(Sizes(3), "f"), kept |-> {"music"}]
Older == [at |-> Without(Places(20, 22, 18, 16, 14, 0, 12, 11, 10), "menu"), size |-> Without(Sizes(1), "menu"), kept |-> {}]
To(t, off) == [to |-> t, off |-> off]
Held(b) ==
  [n \in DOMAIN b.at \cap Var |->
     CASE n = "table" -> [k \in 1 .. b.size[n] |-> To("data", 0)]
       [] n = "titles" -> <<To("rom", 1), To("data", 7)>>
       [] n = "lives" -> <<To("data", 3)>>
       [] n = "music" -> <<To("rom", 0)>>
       [] OTHER -> <<To("data", 5), To("data", 0)>>]
Some(b, things) ==
  {To("data", 0)} \cup UNION {{To(t, off) : off \in 0 .. b.size[t] - 1} : t \in DOMAIN b.at \cap things}
Mix(b, n) ==
  {[Held(b) EXCEPT ![n] = <<v, w>>] :
     v \in Some(b, MCMixed[n]), w \in {To("data", b.at[t]) : t \in Space \ MCMixed[n]}}
Tables(b) ==
  {[Held(b) EXCEPT !["table"] = ws] :
     ws \in [1 .. b.size["table"] -> Some(b, {"rom", "ewram", "f", "table", "music"})]}
MCBuild == {[own |-> Held(b)] @@ b : b \in {First, Moved, Rebuilt, Older}}
MCContent ==
  UNION {{b} \X (Tables(b) \cup UNION {Mix(b, n) : n \in DOMAIN MCMixed \cap DOMAIN b.at}) : b \in MCBuild}
=============================================================================
