----------------------------- MODULE PullProofs ------------------------------
(***************************************************************************)
(* The sharded walk asks each address once and forgets none, for any       *)
(* address space, seeds, halves, threshold and cap, whatever the provider  *)
(* answers; and what it takes for complete has as many results as its      *)
(* totals say.  Two parts: the walk itself, then what it counts.           *)
(***************************************************************************)
EXTENDS Pull, FiniteSetTheorems, WellFoundedInduction, TLAPS

(* The ranges at hand, those that could not be sized, those not split *)
AtHands == Fated({"pulling"})
Unsized == Fated({"unsized"})
Unsplit == Fated(Fate \ {"split"})

WalkInv ==
    /\ walk \in [DOMAIN walk -> Fate] /\ sharded \in BOOLEAN
    /\ pc \in {"size", "walk", "page", "judge", "end"} /\ query \in Query
    /\ Tiles(Unsplit, Address)

(* At most one range is at hand, and only while it is paged *)
AtHandInv ==
    IF pc = "page" /\ Walked THEN \E r \in DOMAIN walk : AtHands = {r} ELSE AtHands = {}

(* What was given up or left over is not forgotten on the way to the exit  *)
(* code                                                                    *)
Settled == Fated(Fate) = Fated({"split", "pruned", "pulled"})

FlagInv ==
    /\ pc \in {"size", "walk"} => Walked
    /\ Walked /\ pc \in {"size", "walk", "page"} /\ ~lost => Unsized = {}
    /\ Walked /\ pc \in {"judge", "end"} /\ ~lost => Settled
    /\ sharded /\ query = "rescue" /\ ~incomplete => Settled
    /\ code # None => pc = "end" /\ query = "rescue"
    /\ code = 0 => ~incomplete

IInv == WalkInv /\ AtHandInv /\ FlagInv

-----------------------------------------------------------------------------
(* A range that is not split may be replaced by its halves. *)
LEMMA SplitTiles ==
  ASSUME NEW S, NEW r \in S, NEW H, Tiles(S, Address), Tiles(H, r)
  PROVE  Tiles((S \ {r}) \cup H, Address)
  <1> DEFINE T == (S \ {r}) \cup H
  <1>1. UNION T = Address
    BY DEF Tiles
  <1>2. \A h \in H : h \subseteq r
    BY DEF Tiles
  <1>3. ASSUME NEW s \in T, NEW t \in T, s # t PROVE s \cap t = {}
    <2>1. CASE s \in H /\ t \in H
      BY <1>3, <2>1 DEF Tiles
    <2>2. CASE s \in S \ {r} /\ t \in S \ {r}
      BY <1>3, <2>2 DEF Tiles
    <2>3. CASE s \in H /\ t \in S \ {r}
      BY <1>2, <2>3 DEF Tiles
    <2>4. CASE s \in S \ {r} /\ t \in H
      BY <1>2, <2>4 DEF Tiles
    <2>5. QED
      BY <1>3, <2>1, <2>2, <2>3, <2>4
  <1>4. {} \notin T
    BY DEF Tiles
  <1>5. QED
    BY <1>1, <1>3, <1>4 DEF Tiles

(* The walk stands still where none of its variables changes. *)
LEMMA WalkStands ==
  ASSUME WalkInv, UNCHANGED walk
  PROVE  UNCHANGED <<AtHands, Unsized, Unsplit, Settled>>
  BY DEF Settled, Fated, AtHands, Unsized, Unsplit

(* One range gets another fate. *)
LEMMA BecomesFate ==
  ASSUME WalkInv, NEW r \in DOMAIN walk, NEW f \in Fate \ {"split"}, walk[r] # "split", Becomes(r, f)
  PROVE  /\ walk' \in [DOMAIN walk' -> Fate] /\ DOMAIN walk' = DOMAIN walk /\ walk'[r] = f
         /\ \A s \in DOMAIN walk \ {r} : walk'[s] = walk[s]
         /\ Tiles(Unsplit, Address)'
  <1>1. /\ walk' \in [DOMAIN walk' -> Fate] /\ DOMAIN walk' = DOMAIN walk /\ walk'[r] = f
        /\ \A s \in DOMAIN walk \ {r} : walk'[s] = walk[s]
    BY DEF WalkInv, Becomes
  <1>2. Unsplit' = Unsplit
    BY <1>1 DEF Fated, AtHands, Unsized, Unsplit, WalkInv
  <1>3. Tiles(Unsplit, Address)
    BY DEF WalkInv
  <1>4. Tiles(Unsplit, Address)'
    BY <1>2, <1>3 DEF Tiles
  <1>5. QED
    BY <1>1, <1>4

-----------------------------------------------------------------------------
(* The invariant holds at the start. *)
LEMMA InitInv == Init => IInv
  <1> SUFFICES ASSUME Init PROVE IInv
    OBVIOUS
  <1>1. walk = [r \in Seed |-> "stacked"] /\ DOMAIN walk = Seed /\ \A r \in Seed : walk[r] = "stacked"
    BY DEF Init
  <1>2. Unsplit = Seed /\ AtHands = {} /\ Unsized = {}
    BY <1>1 DEF Fated, AtHands, Unsized, Unsplit, Fate
  <1>3. WalkInv
    BY <1>1, <1>2, PullAssumption DEF Init, WalkInv, Fate, Query
  <1>4. AtHandInv
    BY <1>2 DEF Init, AtHandInv, Walked
  <1>5. FlagInv
    BY <1>2 DEF Init, FlagInv, Walked, None
  <1>6. QED
    BY <1>3, <1>4, <1>5 DEF IInv

(* The walk is sized, ends or is cut off. *)
LEMMA WalkStep == ASSUME IInv, SizeWhole \/ ShardCap \/ WalkEnds PROVE IInv'
  <1> USE DEF IInv
  <1>1. UNCHANGED <<walk, sharded, query, code, incomplete, Walked>>
    BY DEF SizeWhole, ShardCap, WalkEnds, sizing, world, verdict, Walked
  <1>2. UNCHANGED <<AtHands, Unsized, Unsplit, Settled>>
    BY <1>1, WalkStands
  <1>3. WalkInv'
    BY <1>1, <1>2 DEF SizeWhole, ShardCap, WalkEnds, WalkInv, Tiles
  <1>4. pc \in {"size", "walk"} /\ pc' \in {"walk", "judge"} /\ AtHands = {}
    BY DEF SizeWhole, ShardCap, WalkEnds, AtHandInv
  <1>5. AtHandInv'
    BY <1>2, <1>4 DEF AtHandInv
  <1>6. code' = None /\ query' = "primary" /\ Walked /\ Walked'
    BY <1>1, <1>4 DEF FlagInv, Walked
  <1>7. pc' = "walk" /\ ~lost' => Unsized' = {}
    <2>1. pc' = "walk" => UNCHANGED lost
      BY DEF SizeWhole, ShardCap, WalkEnds
    <2>2. QED
      BY <1>2, <1>4, <1>6, <2>1 DEF FlagInv
  <1>8. pc' = "judge" /\ ~lost' => Settled'
    <2>1. pc' = "judge" /\ ~lost' => ~lost /\ Fated({"stacked"}) = {}
      BY DEF SizeWhole, ShardCap, WalkEnds
    <2>2. pc' = "judge" /\ ~lost' => Settled
      BY <1>4, <1>6, <2>1 DEF FlagInv, Settled, Fated, AtHands, Unsized, Unsplit, Fate
    <2>3. QED
      BY <1>2, <2>2
  <1>9. FlagInv'
    BY <1>4, <1>6, <1>7, <1>8 DEF FlagInv, None
  <1>10. QED
    BY <1>3, <1>5, <1>9

(* A range is sized. *)
LEMMA RangeStep == ASSUME IInv, SizeRange PROVE IInv'
  <1> USE DEF IInv
  <1>1. PICK r \in Fated({"stacked"}), n \in None .. Most :
           \/ n = 0 /\ Becomes(r, "pruned") /\ UNCHANGED <<lost, pc, cnt, page>>
           \/ n < 0 /\ Becomes(r, "unsized") /\ lost' = TRUE /\ UNCHANGED <<pc, cnt, page>>
           \/ n > Threshold /\ r \in DOMAIN Halves /\ Split(r)
           \/ /\ n > 0 /\ (n <= Threshold \/ r \notin DOMAIN Halves)
              /\ Becomes(r, "pulling") /\ cnt' = n /\ pc' = "page" /\ page' = 1 /\ UNCHANGED lost
    BY DEF SizeRange
  <1>2. r \in DOMAIN walk /\ walk[r] = "stacked"
    BY DEF Fated, AtHands, Unsized, Unsplit
  <1>3. UNCHANGED <<sharded, query, code, incomplete, Walked>>
    BY DEF SizeRange, world, verdict, Walked
  <1>4. pc = "walk" /\ Walked /\ query = "primary" /\ AtHands = {} /\ code = None
    BY DEF SizeRange, FlagInv, AtHandInv, Walked
  <1>5. \A s \in DOMAIN walk : walk[s] # "pulling"
    BY <1>4 DEF Fated, AtHands, Unsized, Unsplit
  <1>6. CASE Becomes(r, "pruned") /\ UNCHANGED <<lost, pc>>
    <2>1. /\ walk' \in [DOMAIN walk' -> Fate] /\ DOMAIN walk' = DOMAIN walk /\ walk'[r] = "pruned"
          /\ \A s \in DOMAIN walk \ {r} : walk'[s] = walk[s]
          /\ Tiles(Unsplit, Address)'
      BY <1>2, <1>6, BecomesFate DEF Fate
    <2>2. WalkInv'
      BY <1>3, <1>6, <2>1 DEF WalkInv
    <2>3. AtHandInv'
      BY <1>3, <1>4, <1>5, <1>6, <2>1 DEF AtHandInv, Fated, AtHands, Unsized, Unsplit
    <2>4. ~lost' => Unsized' = {}
      BY <1>4, <1>6, <2>1 DEF FlagInv, Fated, AtHands, Unsized, Unsplit
    <2>5. FlagInv'
      BY <1>3, <1>4, <1>6, <2>4 DEF FlagInv, None
    <2>6. QED
      BY <2>2, <2>3, <2>5
  <1>7. CASE Becomes(r, "unsized") /\ lost' = TRUE /\ UNCHANGED pc
    <2>1. /\ walk' \in [DOMAIN walk' -> Fate] /\ DOMAIN walk' = DOMAIN walk /\ walk'[r] = "unsized"
          /\ \A s \in DOMAIN walk \ {r} : walk'[s] = walk[s]
          /\ Tiles(Unsplit, Address)'
      BY <1>2, <1>7, BecomesFate DEF Fate
    <2>2. WalkInv'
      BY <1>3, <1>7, <2>1 DEF WalkInv
    <2>3. AtHandInv'
      BY <1>3, <1>4, <1>5, <1>7, <2>1 DEF AtHandInv, Fated, AtHands, Unsized, Unsplit
    <2>4. FlagInv'
      BY <1>3, <1>4, <1>7 DEF FlagInv, None
    <2>5. QED
      BY <2>2, <2>3, <2>4
  <1>8. CASE r \in DOMAIN Halves /\ Split(r)
    <2> DEFINE H == Halves[r]
    <2>1. Tiles(H, r) /\ r \notin H
      BY <1>8, PullAssumption
    <2>2. /\ walk' = [s \in DOMAIN walk \cup H |-> IF s \in H THEN "stacked" ELSE IF s = r THEN "split" ELSE walk[s]]
          /\ UNCHANGED <<lost, pc>>
      BY <1>8 DEF Split
    <2> HIDE DEF H
    <2>3. /\ DOMAIN walk' = DOMAIN walk \cup H /\ walk'[r] = "split"
          /\ \A s \in H : walk'[s] = "stacked"
          /\ \A s \in DOMAIN walk \ (H \cup {r}) : walk'[s] = walk[s]
      BY <1>2, <2>1, <2>2
    <2>4. walk' \in [DOMAIN walk' -> Fate]
      BY <2>2, <2>3 DEF WalkInv, Fate
    <2>5. Unsplit' = (Unsplit \ {r}) \cup H
      BY <1>2, <2>1, <2>3 DEF Fated, AtHands, Unsized, Unsplit, Fate, WalkInv
    <2>6. r \in Unsplit /\ Tiles(Unsplit, Address)
      BY <1>2 DEF Fated, AtHands, Unsized, Unsplit, Fate, WalkInv
    <2>7. Tiles((Unsplit \ {r}) \cup H, Address)
      BY <2>1, <2>6, SplitTiles
    <2>8. WalkInv'
      BY <1>3, <2>2, <2>4, <2>5, <2>7 DEF WalkInv
    <2>9. AtHandInv'
      BY <1>3, <1>4, <1>5, <2>2, <2>3 DEF AtHandInv, Fated, AtHands, Unsized, Unsplit
    <2>10. ~lost' => Unsized' = {}
      BY <1>4, <2>2, <2>3 DEF FlagInv, Fated, AtHands, Unsized, Unsplit
    <2>11. FlagInv'
      BY <1>3, <1>4, <2>2, <2>10 DEF FlagInv, None
    <2>12. QED
      BY <2>8, <2>9, <2>11
  <1>9. CASE Becomes(r, "pulling") /\ pc' = "page" /\ UNCHANGED lost
    <2>1. /\ walk' \in [DOMAIN walk' -> Fate] /\ DOMAIN walk' = DOMAIN walk /\ walk'[r] = "pulling"
          /\ \A s \in DOMAIN walk \ {r} : walk'[s] = walk[s]
          /\ Tiles(Unsplit, Address)'
      BY <1>2, <1>9, BecomesFate DEF Fate
    <2>2. WalkInv'
      BY <1>3, <1>9, <2>1 DEF WalkInv
    <2>3. AtHands' = {r}
      BY <1>2, <1>5, <2>1 DEF Fated, AtHands, Unsized, Unsplit
    <2>4. AtHandInv'
      BY <1>2, <1>3, <1>4, <1>9, <2>1, <2>3 DEF AtHandInv
    <2>5. ~lost' => Unsized' = {}
      BY <1>4, <1>9, <2>1 DEF FlagInv, Fated, AtHands, Unsized, Unsplit
    <2>6. FlagInv'
      BY <1>3, <1>4, <1>9, <2>5 DEF FlagInv, None
    <2>7. QED
      BY <2>2, <2>4, <2>6
  <1>10. QED
    BY <1>1, <1>6, <1>7, <1>8, <1>9

(* The pages of a range, or of a query, come to an end. *)
LEMMA PagesEndStep ==
  ASSUME IInv, pc = "page", PagesEnd, UNCHANGED <<world, query, verdict>>, ~lost' => ~lost
  PROVE  IInv'
  <1> USE DEF IInv
  <1>1. UNCHANGED <<sharded, query, code, incomplete, Walked>>
    BY DEF world, verdict, Walked
  <1>2. code = None
    BY DEF FlagInv
  <1>3. CASE Walked
    <2>1. PICK r \in DOMAIN walk : AtHands = {r}
      BY <1>3 DEF AtHandInv
    <2>2. At = r /\ walk[r] = "pulling" /\ \A s \in DOMAIN walk \ {r} : walk[s] # "pulling"
      BY <2>1 DEF At, Fated, AtHands, Unsized, Unsplit
    <2>3. Becomes(r, "pulled") /\ pc' = "walk"
      BY <1>3, <2>2 DEF PagesEnd
    <2>4. /\ walk' \in [DOMAIN walk' -> Fate] /\ DOMAIN walk' = DOMAIN walk /\ walk'[r] = "pulled"
          /\ \A s \in DOMAIN walk \ {r} : walk'[s] = walk[s]
          /\ Tiles(Unsplit, Address)'
      BY <2>2, <2>3, BecomesFate DEF Fate
    <2>5. WalkInv'
      BY <1>1, <2>3, <2>4 DEF WalkInv
    <2>6. AtHandInv'
      BY <2>2, <2>3, <2>4 DEF AtHandInv, Fated, AtHands, Unsized, Unsplit
    <2>7. ~lost' => Unsized' = {}
      BY <1>3, <2>4 DEF FlagInv, Fated, AtHands, Unsized, Unsplit
    <2>8. query = "primary"
      BY <1>3 DEF Walked
    <2>9. FlagInv'
      BY <1>1, <1>2, <1>3, <2>3, <2>7, <2>8 DEF FlagInv, None
    <2>10. QED
      BY <2>5, <2>6, <2>9
  <1>4. CASE ~Walked
    <2>1. UNCHANGED walk /\ pc' = "judge"
      BY <1>4 DEF PagesEnd, sizing
    <2>2. UNCHANGED <<AtHands, Unsized, Unsplit, Settled>>
      BY <2>1, WalkStands
    <2>3. WalkInv'
      BY <1>1, <2>1, <2>2 DEF WalkInv
    <2>4. AtHandInv'
      BY <1>4, <2>1, <2>2 DEF AtHandInv
    <2>5. Settled' <=> Settled
      BY <2>2 DEF Settled
    <2>6. FlagInv'
      BY <1>1, <1>2, <1>4, <2>1, <2>5 DEF FlagInv, None
    <2>7. QED
      BY <2>3, <2>4, <2>6
  <1>5. QED
    BY <1>3, <1>4

(* A page is answered, well or badly. *)
LEMMA PageStep == ASSUME IInv, PageComes \/ PageUntrue \/ PageLost PROVE IInv'
  <1>1. CASE PageLost
    BY <1>1, PagesEndStep DEF PageLost
  <1>2. CASE PageComes \/ PageUntrue
    <2>1. PICK t, m, d : PageGives(t, m, d)
      BY <1>2 DEF PageComes, PageUntrue
    <2>2. pc = "page" /\ UNCHANGED <<world, query, lost, verdict>>
      BY <1>2 DEF PageComes, PageUntrue
    <2>3. PagesEnd \/ UNCHANGED <<pc, sizing>>
      BY <2>1 DEF PageGives
    <2>4. CASE PagesEnd
      BY <2>2, <2>4, PagesEndStep
    <2>5. CASE UNCHANGED <<pc, sizing>>
      <3>1. UNCHANGED <<walk, pc, sharded, query, lost, incomplete, code, Walked>>
        BY <2>2, <2>5 DEF sizing, world, verdict, Walked
      <3>2. UNCHANGED <<AtHands, Unsized, Unsplit, Settled>>
        BY <3>1, WalkStands DEF IInv
      <3>3. WalkInv' /\ AtHandInv' /\ FlagInv'
        BY <3>1, <3>2 DEF IInv, WalkInv, AtHandInv, FlagInv, Settled
      <3>4. QED
        BY <3>3 DEF IInv
    <2>6. QED
      BY <2>3, <2>4, <2>5
  <1>3. QED
    BY <1>1, <1>2

(* A query is judged. *)
LEMMA JudgeStep == ASSUME IInv, Judge PROVE IInv'
  <1> USE DEF IInv
  <1>1. UNCHANGED <<walk, sharded>> /\ pc = "judge" /\ (~incomplete' => ~incomplete /\ ~lost)
    BY DEF Judge, sizing, world
  <1>2. UNCHANGED <<AtHands, Unsized, Unsplit, Settled>>
    BY <1>1, WalkStands
  <1>3. (Settled' <=> Settled) /\ code = None /\ AtHands = {}
    BY <1>1, <1>2 DEF Settled, FlagInv, AtHandInv
  <1>4. CASE query = "primary"
    <2>1. query' = "rescue" /\ pc' = "page" /\ UNCHANGED code /\ ~Walked'
      BY <1>4 DEF Judge, Walked
    <2>2. WalkInv'
      BY <1>1, <1>2, <2>1 DEF WalkInv, Query
    <2>3. AtHandInv'
      BY <1>2, <1>3, <2>1 DEF AtHandInv
    <2>4. sharded /\ ~incomplete' => Settled
      BY <1>1, <1>4 DEF FlagInv, Walked
    <2>5. FlagInv'
      BY <1>1, <1>3, <2>1, <2>4 DEF FlagInv, None
    <2>6. QED
      BY <2>2, <2>3, <2>5
  <1>5. CASE query # "primary"
    <2>1. /\ query = "rescue" /\ query' = "rescue" /\ pc' = "end" /\ ~Walked'
          /\ (code' = 0 => ~incomplete')
      BY <1>5 DEF Judge, Walked
    <2>2. WalkInv'
      BY <1>1, <1>2, <2>1 DEF WalkInv
    <2>3. AtHandInv'
      BY <1>2, <1>3, <2>1 DEF AtHandInv
    <2>4. FlagInv'
      BY <1>1, <1>3, <2>1 DEF FlagInv
    <2>5. QED
      BY <2>2, <2>3, <2>4
  <1>6. QED
    BY <1>4, <1>5

(* The invariant holds throughout. *)
LEMMA Inductive == Spec => []IInv
  <1>1. ASSUME IInv, UNCHANGED vars PROVE IInv'
    <2>1. UNCHANGED <<walk, pc, sharded, query, lost, incomplete, code, Walked>>
      BY <1>1 DEF vars, sizing, world, verdict, Walked
    <2>2. UNCHANGED <<AtHands, Unsized, Unsplit, Settled>>
      BY <1>1, <2>1, WalkStands DEF IInv
    <2>3. QED
      BY <1>1, <2>1, <2>2 DEF IInv, WalkInv, AtHandInv, FlagInv, Settled
  <1>2. IInv /\ [Next]_vars => IInv'
    BY <1>1, WalkStep, RangeStep, PageStep, JudgeStep DEF Next
  <1>3. QED
    BY <1>2, InitInv, PTL DEF Spec

(* Whatever the provider answers, a sharded walk asks each address once,   *)
(* and with exit code 0 none was given up or left over                     *)
(* (shodan_collect.py collect_sharded).                                    *)
THEOREM NoAddressForgotten == Spec => []EveryAddressAsked
  <1>1. IInv => EveryAddressAsked
    BY DEF IInv, WalkInv, FlagInv, Settled, Unsplit, EveryAddressAsked, None
  <1>2. QED
    BY <1>1, Inductive, PTL

-----------------------------------------------------------------------------
(* What the library's fold takes from a set *)
Any(s) == CHOOSE x \in s : TRUE

(* g adds f up over the subsets of S, the way the library's fold does. *)
Adds(f, S, g) == g = [s \in SUBSET S |-> IF s = {} THEN 0 ELSE f[Any(s)] + g[s \ {Any(s)}]]

(* Of a family of finite sets one has no other below it. *)
LEMMA SmallestSet ==
  ASSUME NEW A, IsFiniteSet(A), NEW F \in SUBSET SUBSET A, F # {}
  PROVE  \E S \in F : \A T \in F : T \subseteq S => T = S
  <1>1. F \subseteq FiniteSubsetsOf(A)
    BY FS_Subset DEF FiniteSubsetsOf
  <1>2. PICK S \in F : \A T \in F : ~(<<T, S>> \in StrictSubsetOrdering(A))
    BY <1>1, FS_StrictSubsetOrderingWellFounded, WFMin
  <1>3. ASSUME NEW T \in F, T \subseteq S, T # S PROVE FALSE
    <2>1. <<T, S>> \in StrictSubsetOrdering(A)
      BY <1>3 DEF StrictSubsetOrdering
    <2>2. QED
      BY <1>2, <2>1
  <1>4. QED
    BY <1>3

(* A sum is what the library's fold says it is. *)
LEMMA SumMeaning ==
  ASSUME NEW f, NEW S
  PROVE  SumFunctionOnSet(f, S) = (CHOOSE g : Adds(f, S, g))[S]
  BY DEF SumFunctionOnSet, FoldFunctionOnSet, MapThenFoldSet, Adds, Any

(* A sum's own recursion, at one set. *)
LEMMA AddsStep ==
  ASSUME NEW f, NEW S, NEW g, Adds(f, S, g), NEW s \in SUBSET S
  PROVE  g[s] = IF s = {} THEN 0 ELSE f[Any(s)] + g[s \ {Any(s)}]
  <1> HIDE DEF Any
  <1>1. g = [t \in SUBSET S |-> IF t = {} THEN 0 ELSE f[Any(t)] + g[t \ {Any(t)}]]
    BY DEF Adds
  <1>2. QED
    BY <1>1

(* A set that is not empty has an element. *)
LEMMA AnyIsIn == ASSUME NEW s, s # {} PROVE Any(s) \in s
  BY DEF Any

(* There is one way to add up. *)
LEMMA AddsAgree ==
  ASSUME NEW f, NEW A, IsFiniteSet(A), NEW S \in SUBSET A, NEW T \in SUBSET S,
         NEW g, Adds(f, S, g), NEW h, Adds(f, T, h)
  PROVE  g[T] = h[T]
  <1> DEFINE F == {s \in SUBSET T : g[s] # h[s]}
  <1>1. SUFFICES ASSUME F # {} PROVE FALSE
    OBVIOUS
  <1>2. IsFiniteSet(T)
    BY FS_Subset
  <1>3. PICK s \in F : \A t \in F : t \subseteq s => t = s
    <2>1. F \in SUBSET SUBSET T
      OBVIOUS
    <2> HIDE DEF F
    <2>2. QED
      BY <1>1, <1>2, <2>1, SmallestSet
  <1>4. /\ g[s] = IF s = {} THEN 0 ELSE f[Any(s)] + g[s \ {Any(s)}]
        /\ h[s] = IF s = {} THEN 0 ELSE f[Any(s)] + h[s \ {Any(s)}]
    BY AddsStep
  <1>5. CASE s = {}
    BY <1>4, <1>5
  <1>6. CASE s # {}
    <2>1. s \ {Any(s)} \subseteq s /\ s \ {Any(s)} # s
      BY <1>6, AnyIsIn
    <2>2. s \ {Any(s)} \notin F
      BY <1>3, <2>1
    <2>3. g[s \ {Any(s)}] = h[s \ {Any(s)}]
      BY <2>1, <2>2
    <2>4. QED
      BY <1>4, <1>6, <2>3
  <1>7. QED
    BY <1>5, <1>6

(* One can add up over the subsets of a finite set. *)
LEMMA AddsExists ==
  ASSUME NEW f, NEW A, IsFiniteSet(A), NEW S \in SUBSET A
  PROVE  \E g : Adds(f, S, g)
  <1> DEFINE Has(s) == \E g : Adds(f, s, g)
             F == {s \in SUBSET A : ~Has(s)}
  <1>1. SUFFICES ASSUME F # {} PROVE FALSE
    OBVIOUS
  <1>2. PICK T \in F : \A t \in F : t \subseteq T => t = T
    <2>1. F \in SUBSET SUBSET A
      OBVIOUS
    <2> HIDE DEF F
    <2>2. QED
      BY <1>1, <2>1, SmallestSet
  <1> DEFINE Of(s) == CHOOSE g : Adds(f, s, g)
             G == [s \in SUBSET T |-> IF s = {} THEN 0 ELSE f[Any(s)] + Of(s \ {Any(s)})[s \ {Any(s)}]]
  <1>3. ASSUME NEW t \in SUBSET T, t # T PROVE Adds(f, t, Of(t))
    <2>1. Has(t)
      BY <1>2, <1>3
    <2>2. QED
      BY <2>1
  <1> HIDE DEF Of
  <1>4. ASSUME NEW u \in SUBSET T, u # T PROVE G[u] = Of(u)[u]
    <2> HIDE DEF Any
    <2>1. u \in SUBSET T /\ u # T
      BY <1>4
    <2>2. Adds(f, u, Of(u))
      BY <1>3, <2>1
    <2>3. Of(u)[u] = IF u = {} THEN 0 ELSE f[Any(u)] + Of(u)[u \ {Any(u)}]
      BY <2>2, AddsStep
    <2>4. G[u] = IF u = {} THEN 0 ELSE f[Any(u)] + Of(u \ {Any(u)})[u \ {Any(u)}]
      BY <2>1
    <2> HIDE DEF G
    <2>5. CASE u = {}
      BY <2>3, <2>4, <2>5
    <2>6. CASE u # {}
      <3> DEFINE v == u \ {Any(u)}
      <3>1. v \in SUBSET u /\ v # T /\ v \in SUBSET T /\ u \in SUBSET A
        <4>1. Any(u) \in u /\ Any(u) \notin v
          BY <2>6, AnyIsIn
        <4>2. QED
          BY <2>1, <4>1
      <3> HIDE DEF v
      <3>2. Adds(f, v, Of(v))
        BY <1>3, <3>1
      <3>3. Of(u)[v] = Of(v)[v]
        BY <2>2, <3>1, <3>2, AddsAgree
      <3>4. Of(u)[u] = f[Any(u)] + Of(u)[v] /\ G[u] = f[Any(u)] + Of(v)[v]
        BY <2>3, <2>4, <2>6 DEF v
      <3>5. QED
        BY <3>3, <3>4
    <2>7. QED
      BY <2>5, <2>6
  <1>5. G = [s \in SUBSET T |-> IF s = {} THEN 0 ELSE f[Any(s)] + G[s \ {Any(s)}]]
    <2> DEFINE H == [s \in SUBSET T |-> IF s = {} THEN 0 ELSE f[Any(s)] + G[s \ {Any(s)}]]
    <2>1. ASSUME NEW s \in SUBSET T PROVE G[s] = H[s]
      <3>1. CASE s = {}
        BY <3>1
      <3>2. CASE s # {}
        <4>1. G[s] = f[Any(s)] + Of(s \ {Any(s)})[s \ {Any(s)}]
          BY <3>2
        <4> DEFINE u == s \ {Any(s)}
        <4>2. u \in SUBSET T /\ u # T
          <5>1. Any(s) \in s /\ Any(s) \notin u
            BY <3>2, AnyIsIn
          <5>2. QED
            BY <5>1
        <4> HIDE DEF G
        <4>3. G[u] = Of(u)[u]
          <5> HIDE DEF u
          <5>1. QED
            BY <1>4, <4>2
        <4>4. H[s] = f[Any(s)] + G[s \ {Any(s)}]
          BY <3>2
        <4> HIDE DEF H
        <4>5. QED
          BY <4>1, <4>3, <4>4
      <3>3. QED
        BY <3>1, <3>2
    <2>2. DOMAIN G = SUBSET T /\ DOMAIN H = SUBSET T /\ G = [s \in DOMAIN G |-> G[s]] /\ H = [s \in DOMAIN H |-> H[s]]
      OBVIOUS
    <2>3. G = H
      <3> HIDE DEF G, H
      <3>1. QED
        BY <2>1, <2>2
    <2>4. QED
      BY <2>3
  <1>6. Adds(f, T, G)
    <2> HIDE DEF G
    <2>1. QED
      BY <1>5 DEF Adds
  <1>7. Has(T)
    BY <1>6
  <1>8. QED
    BY <1>2, <1>7

(* A sum takes out one of its terms. *)
LEMMA SumUnfolds ==
  ASSUME NEW f, NEW A, IsFiniteSet(A), NEW S \in SUBSET A
  PROVE  SumFunctionOnSet(f, S) =
            IF S = {} THEN 0 ELSE f[Any(S)] + SumFunctionOnSet(f, S \ {Any(S)})
  <1> DEFINE T == S \ {Any(S)}
             g == CHOOSE g : Adds(f, S, g)
             h == CHOOSE h : Adds(f, T, h)
  <1>1. T \in SUBSET S /\ T \in SUBSET A
    OBVIOUS
  <1> HIDE DEF T
  <1>2. Adds(f, S, g)
    BY AddsExists
  <1>3. Adds(f, T, h)
    BY <1>1, AddsExists
  <1>4. SumFunctionOnSet(f, S) = g[S]
    BY SumMeaning
  <1>5. SumFunctionOnSet(f, T) = h[T]
    BY SumMeaning
  <1> HIDE DEF g, h
  <1>6. g[S] = IF S = {} THEN 0 ELSE f[Any(S)] + g[T]
    BY <1>2, AddsStep DEF T
  <1>7. g[T] = h[T]
    BY <1>1, <1>2, <1>3, AddsAgree
  <1>8. QED
    BY <1>4, <1>5, <1>6, <1>7 DEF T

(* A sum of natural numbers is one. *)
LEMMA SumNat ==
  ASSUME NEW A, IsFiniteSet(A), NEW f \in [A -> Nat], NEW S \in SUBSET A
  PROVE  SumFunctionOnSet(f, S) \in Nat
  <1> DEFINE F == {s \in SUBSET A : SumFunctionOnSet(f, s) \notin Nat}
  <1>1. SUFFICES ASSUME F # {} PROVE FALSE
    OBVIOUS
  <1>2. PICK T \in F : \A t \in F : t \subseteq T => t = T
    <2>1. F \in SUBSET SUBSET A
      OBVIOUS
    <2> HIDE DEF F
    <2>2. QED
      BY <1>1, <2>1, SmallestSet
  <1>3. SumFunctionOnSet(f, T) = IF T = {} THEN 0 ELSE f[Any(T)] + SumFunctionOnSet(f, T \ {Any(T)})
    BY SumUnfolds
  <1>4. CASE T = {}
    BY <1>3, <1>4
  <1>5. CASE T # {}
    <2> DEFINE U == T \ {Any(T)}
    <2>1. Any(T) \in T /\ Any(T) \notin U
      BY <1>5, AnyIsIn
    <2>2. SumFunctionOnSet(f, U) \in Nat
      BY <1>2, <2>1
    <2>3. f[Any(T)] \in Nat
      BY <2>1
    <2> HIDE DEF U
    <2>4. QED
      BY <1>3, <1>5, <2>2, <2>3 DEF U
  <1>6. QED
    BY <1>4, <1>5

(* One more term makes a sum larger by it. *)
LEMMA SumOne ==
  ASSUME NEW A, IsFiniteSet(A), NEW f \in [A -> Nat], NEW S \in SUBSET A, NEW y \in A \ S
  PROVE  SumFunctionOnSet(f, S \cup {y}) = SumFunctionOnSet(f, S) + f[y]
  <1> DEFINE Sum(s) == SumFunctionOnSet(f, s)
             F == {s \in SUBSET A : \E z \in A \ s : Sum(s \cup {z}) # Sum(s) + f[z]}
  <1>1. \A s \in SUBSET A : /\ Sum(s) = IF s = {} THEN 0 ELSE f[Any(s)] + Sum(s \ {Any(s)})
                            /\ Sum(s) \in Nat
    BY SumUnfolds, SumNat
  <1> HIDE DEF Sum
  <1>2. SUFFICES ASSUME F # {} PROVE FALSE
    BY DEF Sum
  <1>3. PICK T \in F : \A t \in F : t \subseteq T => t = T
    <2>1. F \in SUBSET SUBSET A
      OBVIOUS
    <2> HIDE DEF F
    <2>2. QED
      BY <1>2, <2>1, SmallestSet
  <1>4. PICK x \in A \ T : Sum(T \cup {x}) # Sum(T) + f[x]
    BY <1>3
  <1> DEFINE U == T \cup {x}
             c == Any(U)
  <1>5. U \in SUBSET A /\ U # {} /\ c \in U /\ T \in SUBSET A /\ x \notin T
    BY <1>3, <1>4, AnyIsIn
  <1>6. Sum(U) = f[c] + Sum(U \ {c})
    BY <1>1, <1>5
  <1> HIDE DEF c
  <1>7. CASE c = x
    <2>1. U \ {c} = T
      BY <1>5, <1>7
    <2>2. f[x] \in Nat /\ Sum(T) \in Nat
      BY <1>1, <1>5
    <2>3. QED
      BY <1>4, <1>6, <1>7, <2>1, <2>2
  <1>8. CASE c # x
    <2> DEFINE V == T \ {c}
    <2>1. c \in T /\ V \in SUBSET A /\ V \subseteq T /\ V # T /\ x \notin V
      BY <1>5, <1>8
    <2>2. U \ {c} = V \cup {x} /\ T = V \cup {c} /\ c \notin V /\ V \cup {x} \in SUBSET A
      BY <1>5, <1>8
    <2> HIDE DEF V, U
    <2>3. \A z \in A \ V : Sum(V \cup {z}) = Sum(V) + f[z]
      <3>1. V \notin F
        <4> HIDE DEF F
        <4>1. QED
          BY <1>3, <2>1
      <3>2. QED
        BY <2>1, <3>1
    <2>4. Sum(V \cup {x}) = Sum(V) + f[x] /\ Sum(T) = Sum(V) + f[c]
      BY <1>5, <2>1, <2>2, <2>3
    <2>5. f[c] \in Nat /\ f[x] \in Nat /\ Sum(V) \in Nat /\ Sum(V \cup {x}) \in Nat
      BY <1>1, <1>5, <2>1, <2>2
    <2>6. QED
      BY <1>6, <1>4, <2>2, <2>4, <2>5 DEF U
  <1>9. QED
    BY <1>7, <1>8

(* Two disjoint sets: the sums add up. *)
LEMMA SumOfTwo ==
  ASSUME NEW A, IsFiniteSet(A), NEW f \in [A -> Nat], NEW R \in SUBSET A, NEW S \in SUBSET A, R \cap S = {}
  PROVE  SumFunctionOnSet(f, R \cup S) = SumFunctionOnSet(f, R) + SumFunctionOnSet(f, S)
  <1> DEFINE Sum(s) == SumFunctionOnSet(f, s)
             F == {s \in SUBSET A : R \cap s = {} /\ Sum(R \cup s) # Sum(R) + Sum(s)}
  <1>1. SUFFICES ASSUME F # {} PROVE FALSE
    OBVIOUS
  <1>2. PICK T \in F : \A t \in F : t \subseteq T => t = T
    <2>1. F \in SUBSET SUBSET A
      OBVIOUS
    <2> HIDE DEF F
    <2>2. QED
      BY <1>1, <2>1, SmallestSet
  <1>3. \A s \in SUBSET A : Sum(s) \in Nat
    BY SumNat
  <1>4. T # {}
    <2>1. Sum({}) = 0
      BY SumUnfolds
    <2>2. Sum(R) \in Nat /\ R \cup {} = R
      BY <1>3
    <2> HIDE DEF Sum
    <2>3. ASSUME T = {} PROVE FALSE
      <3>1. Sum(R \cup {}) # Sum(R) + Sum({})
        BY <1>2, <2>3
      <3>2. QED
        BY <2>1, <2>2, <3>1
    <2>4. QED
      BY <2>3
  <1>5. PICK x \in T : TRUE
    BY <1>4
  <1> DEFINE V == T \ {x}
             Q == R \cup V
  <1>6. /\ V \in SUBSET A /\ V \subseteq T /\ V # T /\ R \cap V = {} /\ x \in A \ V /\ T = V \cup {x}
        /\ Q \in SUBSET A /\ x \in A \ Q /\ R \cup T = Q \cup {x}
    BY <1>5
  <1>7. Sum(Q) = Sum(R) + Sum(V)
    <2>1. V \notin F
      <3> HIDE DEF F, V
      <3>1. QED
        BY <1>2, <1>6
    <2>2. QED
      BY <1>6, <2>1
  <1> HIDE DEF V, Q
  <1>8. Sum(V \cup {x}) = Sum(V) + f[x]
    BY <1>6, SumOne
  <1>9. Sum(Q \cup {x}) = Sum(Q) + f[x]
    BY <1>6, SumOne
  <1>10. Sum(R) \in Nat /\ Sum(V) \in Nat /\ f[x] \in Nat
    BY <1>3, <1>6
  <1>11. Sum(R \cup T) # Sum(R) + Sum(T)
    BY <1>2
  <1> HIDE DEF Sum, F
  <1>12. Sum(R \cup T) = Sum(R) + Sum(V) + f[x]
    BY <1>6, <1>7, <1>9
  <1>13. Sum(T) = Sum(V) + f[x]
    BY <1>6, <1>8
  <1>14. QED
    BY <1>10, <1>11, <1>12, <1>13

-----------------------------------------------------------------------------
(* A range is paged only below the cap. *)
CapInv == pc = "page" /\ Walked => shards < MaxShards

(* The addresses of the ranges of some fates *)
Over(F) == UNION Fated(F)

(* The count of the whole query was too low, and nothing else untrue *)
Misled == slips <= 1 /\ global < Truth

(* Then the counts of the ranges are true: what was pulled sums up to      *)
(* leafTotal, what was pruned to nothing.                                  *)
LeafInv ==
    /\ pc = "size" => slips = 0 /\ Over({"pruned", "pulled"}) = {} /\ leafTotal = 0
    /\ Walked /\ pc # "size" /\ Misled =>
          /\ slips = 1
          /\ Hits(Over({"pruned"})) = 0
          /\ leafTotal = Hits(Over({"pulled"}))
          /\ pc = "page" => cnt = Hits(At)

(* When the primary query was judged well, enough of it was fetched. *)
EnoughInv ==
    sharded /\ query = "rescue" /\ ~incomplete /\ (slips <= 1 \/ Larger(global, leafTotal) >= Truth)
        => raw["primary"] * 100 >= MinPct * Truth

CountInv == TypeOK /\ CapInv /\ LeafInv /\ EnoughInv

(* What the provider has in two places is the sum of the two. *)
LEMMA HitsAdd ==
  ASSUME TypeOK
  PROVE  /\ \A R \in SUBSET Address : Hits(R) \in Nat
         /\ Hits({}) = 0
         /\ \A R, S \in SUBSET Address : R \cap S = {} => Hits(R \cup S) = Hits(R) + Hits(S)
  <1>1. IsFiniteSet(Address) /\ MaxHits \in Nat
    BY PullAssumption
  <1>2. hits \in [Address -> Nat]
    BY <1>1 DEF TypeOK
  <1>3. QED
    BY <1>1, <1>2, SumNat, SumUnfolds, SumOfTwo DEF Hits

(* Ranges of different fates have no address in common. *)
LEMMA Apart ==
  ASSUME WalkInv, NEW F \in SUBSET (Fate \ {"split"})
  PROVE  /\ Over(F) \in SUBSET Address
         /\ \A G \in SUBSET (Fate \ {"split"}) : F \cap G = {} => Over(F) \cap Over(G) = {}
  <1>1. Fated(F) \subseteq Unsplit
    BY DEF Unsplit, Fated
  <1>2. Over(F) \subseteq UNION Unsplit
    BY <1>1 DEF Over
  <1>4. ASSUME NEW G \in SUBSET (Fate \ {"split"}), F \cap G = {}
        PROVE  Over(F) \cap Over(G) = {}
    <2>1. ASSUME NEW r \in Fated(F), NEW s \in Fated(G) PROVE r \cap s = {}
      <3>1. r \in Unsplit /\ s \in Unsplit /\ walk[r] \in F /\ walk[s] \in G
        BY <1>4, <2>1 DEF Unsplit, Fated
      <3>2. r # s
        BY <1>4, <3>1
      <3>3. \A p, q \in Unsplit : p # q => p \cap q = {}
        BY DEF WalkInv, Tiles
      <3>4. QED
        BY <3>1, <3>2, <3>3
    <2>2. QED
      BY <2>1 DEF Over
  <1>5. QED
    BY <1>2, <1>4 DEF WalkInv, Tiles

(* The range that is paged is one of the walk. *)
LEMMA AtIsRange ==
  ASSUME IInv, pc = "page", Walked
  PROVE  /\ At \in DOMAIN walk /\ walk[At] = "pulling" /\ At \in SUBSET Address
         /\ \A s \in DOMAIN walk : walk[s] = "pulling" => s = At
  <1>1. PICK r \in DOMAIN walk : AtHands = {r}
    BY DEF IInv, AtHandInv
  <1>2. At \in AtHands
    BY <1>1 DEF At, AtHands
  <1>3. At = r
    BY <1>1, <1>2
  <1>4. walk[r] = "pulling" /\ \A s \in DOMAIN walk : walk[s] = "pulling" => s = r
    <2>1. AtHands = {s \in DOMAIN walk : walk[s] = "pulling"}
      BY DEF AtHands, Fated
    <2>2. QED
      BY <1>1, <2>1
  <1>5. r \in Unsplit
    BY <1>4 DEF Unsplit, Fated, Fate
  <1>6. UNION Unsplit = Address
    BY DEF IInv, WalkInv, Tiles
  <1>7. r \in SUBSET Address
    BY <1>5, <1>6
  <1>8. QED
    BY <1>3, <1>4, <1>7

(* There is a number of results left on a page. *)
LEMMA ResultsLeft ==
  ASSUME IInv, TypeOK, pc = "page"
  PROVE  Matching \in Nat /\ Remaining(Matching - (page - 1) * PageSize) \in Nat
  <1>1. Matching \in Nat
    <2>1. Elsewhere \in Nat
      BY PullAssumption
    <2>2. Truth \in Nat
      BY HitsAdd DEF Truth
    <2>3. Walked => Hits(At) \in Nat
      BY AtIsRange, HitsAdd
    <2>4. QED
      BY <2>1, <2>2, <2>3 DEF Matching, Walked, TypeOK, Query
  <1>2. (page - 1) * PageSize \in Int /\ PageSize \in Nat
    BY PullAssumption DEF TypeOK
  <1> DEFINE n == Matching - (page - 1) * PageSize
  <1>3. n \in Int
    BY <1>1, <1>2
  <1> HIDE DEF n
  <1>4. Remaining(n) \in Nat
    BY <1>2, <1>3 DEF Remaining
  <1>5. QED
    BY <1>1, <1>4 DEF n

(* A query's pages end with every variable of its type. *)
LEMMA PagesEndType ==
  ASSUME IInv, TypeOK, CapInv, pc = "page", PagesEnd
  PROVE  /\ DOMAIN walk' = DOMAIN walk /\ walk' \in [DOMAIN walk' -> Fate] /\ pc' \in {"walk", "judge"}
         /\ shards' \in 0 .. MaxShards /\ leafTotal' \in Nat /\ UNCHANGED <<global, cnt>>
  <1>1. CASE Walked
    <2>1. DOMAIN walk' = DOMAIN walk /\ walk' \in [DOMAIN walk' -> Fate]
      BY <1>1 DEF PagesEnd, Becomes, TypeOK, Fate
    <2>2. MaxShards \in Nat /\ shards < MaxShards /\ shards \in Nat
      BY <1>1, PullAssumption DEF CapInv, TypeOK
    <2>3. QED
      BY <1>1, <2>1, <2>2 DEF PagesEnd, TypeOK
  <1>2. CASE ~Walked
    BY <1>2 DEF PagesEnd, sizing, TypeOK
  <1>3. QED
    BY <1>1, <1>2

(* An answered page leaves every variable of its type. *)
LEMMA PageGivesType ==
  ASSUME IInv, TypeOK, CapInv, pc = "page", NEW t \in Nat, NEW m \in Nat, NEW d \in 0 .. m,
         PageGives(t, m, d), UNCHANGED <<world, query, lost, verdict>>, slips' \in 0 .. MaxSlips
  PROVE  TypeOK' /\ CapInv'
  <1>1. /\ raw' \in [Query -> Nat] /\ dropped' \in Nat /\ kept' \in BOOLEAN /\ expect' \in Nat
        /\ page' \in Nat \ {0}
    <2>1. raw' \in [Query -> Nat]
      BY DEF PageGives, TypeOK
    <2>2. dropped' \in Nat /\ kept' \in BOOLEAN /\ expect' \in Nat
      BY DEF PageGives, TypeOK
    <2>3. page' \in Nat \ {0}
      BY DEF PageGives, TypeOK
    <2>4. QED
      BY <2>1, <2>2, <2>3
  <1>2. UNCHANGED <<hits, leaky, sharded, query, lost, incomplete, suspect, code, Walked>>
    BY DEF world, verdict, Walked
  <1>3. /\ DOMAIN walk' = DOMAIN walk /\ walk' \in [DOMAIN walk' -> Fate] /\ pc' \in {"walk", "judge", "page"}
        /\ shards' \in 0 .. MaxShards /\ leafTotal' \in Nat /\ UNCHANGED <<global, cnt>>
        /\ pc' = "page" => UNCHANGED shards
    <2>1. CASE PagesEnd
      BY <2>1, PagesEndType
    <2>2. CASE UNCHANGED <<pc, sizing>>
      BY <2>2 DEF sizing, TypeOK
    <2>3. QED
      BY <2>1, <2>2 DEF PageGives
  <1>4. CapInv'
    BY <1>2, <1>3 DEF CapInv
  <1>5. TypeOK'
    BY <1>1, <1>2, <1>3 DEF TypeOK
  <1>6. QED
    BY <1>4, <1>5

(* Every step keeps the types and the cap. *)
LEMMA TypeStep == ASSUME IInv, TypeOK, CapInv, Next PROVE TypeOK' /\ CapInv'
  <1>0. MaxSlips \in Nat /\ MaxShards \in Nat /\ PageSize \in Nat
    BY PullAssumption
  <1>1. ASSUME Slip PROVE slips' \in 0 .. MaxSlips
    BY <1>0, <1>1 DEF Slip, TypeOK
  <1>2. CASE SizeWhole
    <2>1. slips' \in 0 .. MaxSlips
      BY <1>1, <1>2 DEF SizeWhole, Counted, TypeOK
    <2>2. global' \in Nat \cup {None}
      BY <1>2 DEF SizeWhole, None
    <2>3. QED
      BY <1>2, <2>1, <2>2 DEF SizeWhole, TypeOK, CapInv, world, paging, verdict
  <1>3. CASE ShardCap \/ WalkEnds
    BY <1>3 DEF ShardCap, WalkEnds, TypeOK, CapInv, world, sizing, paging, verdict
  <1>4. CASE SizeRange
    <2>1. PICK r \in Fated({"stacked"}), n \in None .. Most :
           /\ Counted(r, n)
           /\ \/ n = 0 /\ Becomes(r, "pruned") /\ UNCHANGED <<lost, pc, cnt, page>>
              \/ n < 0 /\ Becomes(r, "unsized") /\ lost' = TRUE /\ UNCHANGED <<pc, cnt, page>>
              \/ n > Threshold /\ r \in DOMAIN Halves /\ Split(r)
              \/ /\ n > 0 /\ (n <= Threshold \/ r \notin DOMAIN Halves)
                 /\ Becomes(r, "pulling") /\ cnt' = n /\ pc' = "page" /\ page' = 1 /\ UNCHANGED lost
      BY <1>4 DEF SizeRange
    <2>2. slips' \in 0 .. MaxSlips
      BY <1>1, <2>1 DEF Counted, TypeOK
    <2>3. r \in DOMAIN walk
      BY DEF Fated
    <2>4. DOMAIN walk' \subseteq SUBSET Address /\ walk' \in [DOMAIN walk' -> Fate]
      <3>1. CASE \E f \in Fate : Becomes(r, f)
        BY <2>3, <3>1 DEF Becomes, TypeOK
      <3>2. CASE r \in DOMAIN Halves /\ Split(r)
        <4>1. DOMAIN walk' = DOMAIN walk \cup Halves[r] /\ walk' \in [DOMAIN walk' -> Fate]
          BY <3>2 DEF Split, TypeOK, Fate
        <4>2. UNION Halves[r] = r
          BY <3>2, PullAssumption DEF Tiles
        <4>3. QED
          BY <2>3, <4>1, <4>2 DEF TypeOK
      <3>3. QED
        BY <2>1, <3>1, <3>2 DEF Fate
    <2>5. cnt' \in Nat /\ page' \in Nat \ {0} /\ lost' \in BOOLEAN /\ pc' \in {"walk", "page"}
      <3>1. pc = "walk"
        BY <1>4 DEF SizeRange
      <3>2. n > 0 => n \in Nat
        BY DEF None
      <3>3. cnt' \in Nat
        BY <2>1, <3>2 DEF Split, TypeOK
      <3>4. page' \in Nat \ {0} /\ pc' \in {"walk", "page"}
        BY <2>1, <3>1 DEF Split, TypeOK
      <3>5. lost' \in BOOLEAN
        BY <2>1, Zenon DEF Split, TypeOK
      <3>6. QED
        BY <3>3, <3>4, <3>5
    <2>6. CapInv'
      BY <1>0, <1>4 DEF SizeRange, BelowCap, CapInv, TypeOK
    <2>7. QED
      BY <1>4, <2>2, <2>4, <2>5, <2>6 DEF SizeRange, TypeOK, world, verdict
  <1>5. CASE PageComes
    <2>1. PICK m, d : /\ m = Remaining(Matching - (page - 1) * PageSize) /\ d \in 0 .. m
                      /\ PageGives(Matching, m, d)
      BY <1>5 DEF PageComes
    <2>2. pc = "page" /\ UNCHANGED <<world, query, lost, verdict, slips>>
      BY <1>5 DEF PageComes
    <2>3. Matching \in Nat /\ m \in Nat
      BY <2>1, <2>2, ResultsLeft
    <2>4. slips' \in 0 .. MaxSlips
      BY <2>2 DEF TypeOK
    <2>5. QED
      BY <2>1, <2>2, <2>3, <2>4, PageGivesType
  <1>6. CASE PageUntrue
    <2>1. PICK t \in 0 .. Most, m \in 0 .. Remaining(Matching - (page - 1) * PageSize) :
             \E d \in 0 .. m : PageGives(t, m, d)
      BY <1>6 DEF PageUntrue
    <2>2. pc = "page" /\ UNCHANGED <<world, query, lost, verdict>> /\ slips' \in 0 .. MaxSlips
      BY <1>1, <1>6 DEF PageUntrue
    <2>3. t \in Nat /\ m \in Nat
      OBVIOUS
    <2>4. QED
      BY <2>1, <2>2, <2>3, PageGivesType
  <1>7. CASE PageLost
    <2>1. pc = "page" /\ PagesEnd /\ slips' \in 0 .. MaxSlips /\ lost' = TRUE
      BY <1>1, <1>7 DEF PageLost
    <2>2. /\ DOMAIN walk' = DOMAIN walk /\ walk' \in [DOMAIN walk' -> Fate] /\ pc' \in {"walk", "judge"}
          /\ shards' \in 0 .. MaxShards /\ leafTotal' \in Nat /\ UNCHANGED <<global, cnt>>
      BY <2>1, PagesEndType
    <2>3. expect' \in Nat
      BY <1>7 DEF PageLost, TypeOK
    <2>4. UNCHANGED <<hits, leaky, sharded, query, incomplete, suspect, code, page, raw, dropped, kept>>
      BY <1>7 DEF PageLost, world, verdict
    <2>5. CapInv'
      BY <2>2 DEF CapInv
    <2>6. QED
      BY <2>1, <2>2, <2>3, <2>4, <2>5 DEF TypeOK
  <1>8. CASE Judge
    <2>1. UNCHANGED <<hits, leaky, sharded, walk, shards, leafTotal, global, cnt, expect, raw, dropped, kept, slips>>
      BY <1>8 DEF Judge, world, sizing
    <2>2. incomplete' \in BOOLEAN /\ suspect' \in BOOLEAN
      BY <1>8 DEF Judge
    <2>3. /\ pc' \in {"page", "end"} /\ query' = "rescue" /\ page' \in Nat \ {0} /\ lost' \in BOOLEAN
          /\ code' \in {None, 0, 2, 3, 4}
      <3>1. CASE query = "primary"
        <4>1. pc' = "page" /\ query' = "rescue" /\ page' = 1 /\ lost' = FALSE /\ UNCHANGED code
          BY <1>8, <3>1 DEF Judge
        <4>2. code' \in {None, 0, 2, 3, 4}
          BY <4>1 DEF TypeOK
        <4>3. lost' \in BOOLEAN
          BY <4>1
        <4>4. page' \in Nat \ {0}
          BY <4>1
        <4>5. QED
          BY <4>1, <4>2, <4>3, <4>4
      <3>2. CASE query # "primary"
        <4>1. pc' = "end" /\ query' = "rescue" /\ UNCHANGED <<page, lost>>
          BY <1>8, <3>2 DEF Judge
        <4>2. code' \in {None, 0, 2, 3, 4}
          BY <1>8, <3>2 DEF Judge
        <4>3. lost' \in BOOLEAN
          BY <4>1, Zenon DEF TypeOK
        <4>4. page' \in Nat \ {0}
          BY <4>1 DEF TypeOK
        <4>5. QED
          BY <4>1, <4>2, <4>3, <4>4
      <3>3. QED
        BY <3>1, <3>2
    <2>4. CapInv'
      BY <2>3 DEF CapInv, Walked
    <2>5. QED
      BY <2>1, <2>2, <2>3, <2>4 DEF TypeOK, Query
  <1>9. QED
    BY <1>2, <1>3, <1>4, <1>5, <1>6, <1>7, <1>8 DEF Next

-----------------------------------------------------------------------------
(* An untrue or failed answer ends the case that LeafInv is about, except  *)
(* the first one. *)
LEMMA SlipOnce ==
  ASSUME TypeOK, Slip, UNCHANGED <<hits, global>>, Misled => slips = 1
  PROVE  ~Misled'
  <1>1. slips \in Nat /\ slips' = slips + 1
    BY PullAssumption DEF TypeOK, Slip
  <1>2. Misled' => Misled /\ slips = 0
    BY <1>1 DEF Misled, Truth, Hits
  <1>3. QED
    BY <1>1, <1>2

(* One more range whose count is true. *)
LEMMA TrueLeaf ==
  ASSUME IInv, TypeOK, NEW r \in DOMAIN walk, walk[r] \in {"stacked", "pulling"},
         NEW f \in {"pruned", "pulled", "pulling", "unsized"}, Becomes(r, f), NEW g \in {"pruned", "pulled"}
  PROVE  /\ f # g => Over({g})' = Over({g})
         /\ f = g => Hits(Over({g})') = Hits(Over({g})) + Hits(r)
  <1>1. walk' = [walk EXCEPT ![r] = f] /\ DOMAIN walk' = DOMAIN walk
    BY DEF Becomes
  <1>2. Fated({g})' = {s \in DOMAIN walk : walk'[s] = g} /\ Fated({g}) = {s \in DOMAIN walk : walk[s] = g}
    BY <1>1 DEF Fated
  <1>3. CASE f # g
    <2>1. \A s \in DOMAIN walk : walk'[s] = g <=> walk[s] = g
      BY <1>1, <1>3
    <2>2. Fated({g})' = Fated({g})
      BY <1>2, <2>1
    <2>3. QED
      BY <1>3, <2>2 DEF Over
  <1>4. CASE f = g
    <2>1. \A s \in DOMAIN walk : walk'[s] = g <=> (walk[s] = g \/ s = r)
      BY <1>1, <1>4
    <2>2. Fated({g})' = Fated({g}) \cup {r}
      BY <1>2, <2>1
    <2>3. Over({g})' = Over({g}) \cup r
      BY <2>2 DEF Over
    <2> DEFINE h == walk[r]
    <2>4. {g} \in SUBSET (Fate \ {"split"}) /\ {h} \in SUBSET (Fate \ {"split"}) /\ {g} \cap {h} = {}
      BY DEF Fate
    <2>5. Over({g}) \in SUBSET Address /\ Over({h}) \in SUBSET Address /\ Over({g}) \cap Over({h}) = {}
      <3> HIDE DEF h
      <3>1. QED
        BY <2>4, Apart DEF IInv
    <2>6. r \subseteq Over({h})
      BY DEF Over, Fated
    <2>7. r \in SUBSET Address /\ Over({g}) \cap r = {}
      BY <2>5, <2>6
    <2>8. Hits(Over({g}) \cup r) = Hits(Over({g})) + Hits(r)
      BY <2>5, <2>7, HitsAdd
    <2>9. QED
      BY <1>4, <2>3, <2>8
  <1>5. QED
    BY <1>3, <1>4

(* What is found while a range is paged or sized is kept until it is judged. *)
LEMMA LeafStep == ASSUME IInv, TypeOK, LeafInv, Next PROVE LeafInv'
  <1> DEFINE Pruned == Over({"pruned"})
             Pulled == Over({"pulled"})
             Right  == /\ slips = 1 /\ Hits(Pruned) = 0 /\ leafTotal = Hits(Pulled)
                       /\ pc = "page" => cnt = Hits(At)
  <1>1. /\ pc = "size" => slips = 0 /\ Over({"pruned", "pulled"}) = {} /\ leafTotal = 0
        /\ Walked /\ pc # "size" /\ Misled => Right
    BY DEF LeafInv
  <1>2. pc' # "size"
    BY DEF Next, SizeWhole, ShardCap, WalkEnds, SizeRange, Split, PageComes, PageUntrue, PageLost, PageGives, PagesEnd, Judge
  <1>3. SUFFICES Walked' /\ Misled' => Right'
    BY <1>2 DEF LeafInv
  <1>4. UNCHANGED hits /\ \A r : Hits(r)' = Hits(r)
    BY DEF Next, SizeWhole, ShardCap, WalkEnds, SizeRange, PageComes, PageUntrue, PageLost, Judge, world, Hits
  <1> HIDE DEF Right
  <1>5. CASE SizeWhole
    <2>1. PICK n \in None .. Most : Counted(Address, n) /\ global' = n
      BY <1>5 DEF SizeWhole
    <2>2. slips = 0 /\ Over({"pruned", "pulled"}) = {} /\ leafTotal = 0
      BY <1>1, <1>5 DEF SizeWhole
    <2>3. Pruned = {} /\ Pulled = {}
      BY <2>2 DEF Over, Fated
    <2>4. UNCHANGED <<walk, leafTotal, cnt>> /\ pc' = "walk"
      BY <1>5 DEF SizeWhole
    <2>5. Pruned' = {} /\ Pulled' = {}
      BY <2>3, <2>4 DEF Over, Fated
    <2>6. n = Truth => ~Misled'
      <3>1. Truth' = Truth /\ Truth \in Nat
        BY <1>4, HitsAdd DEF Truth
      <3>2. QED
        BY <2>1, <3>1 DEF Misled
    <2>7. n # Truth => slips' = 1
      BY <2>1, <2>2 DEF Counted, Slip, Truth
    <2>8. Hits({})' = 0
      BY <1>4, HitsAdd
    <2>9. QED
      BY <1>2, <2>2, <2>4, <2>5, <2>6, <2>7, <2>8 DEF Right
  <1>6. ASSUME Slip, UNCHANGED global, Walked \/ ~Walked', pc # "size"
        PROVE  Walked' /\ Misled' => Right'
    <2>1. CASE Walked
      <3>1. Misled => slips = 1
        BY <1>1, <1>6, <2>1 DEF Right
      <3>2. QED
        BY <1>4, <1>6, <3>1, SlipOnce
    <2>2. CASE ~Walked'
      BY <2>2
    <2>3. QED
      BY <1>6, <2>1, <2>2
  <1>7. ASSUME UNCHANGED <<global, slips>> PROVE Misled' => Misled
    BY <1>4, <1>7 DEF Misled, Truth
  <1>8. CASE ShardCap \/ WalkEnds
    <2>1. /\ UNCHANGED <<walk, leafTotal, cnt, global, slips, Walked>> /\ pc' = "judge" /\ pc = "walk"
      BY <1>8 DEF ShardCap, WalkEnds, sizing, world, Walked
    <2>2. Pruned' = Pruned /\ Pulled' = Pulled
      BY <2>1 DEF Over, Fated
    <2>3. QED
      BY <1>1, <1>2, <1>4, <1>7, <2>1, <2>2 DEF Right
  <1>9. CASE SizeRange
    <2>1. PICK r \in Fated({"stacked"}), n \in None .. Most :
           /\ Counted(r, n)
           /\ \/ n = 0 /\ Becomes(r, "pruned") /\ UNCHANGED <<lost, pc, cnt, page>>
              \/ n < 0 /\ Becomes(r, "unsized") /\ lost' = TRUE /\ UNCHANGED <<pc, cnt, page>>
              \/ n > Threshold /\ r \in DOMAIN Halves /\ Split(r)
              \/ /\ n > 0 /\ (n <= Threshold \/ r \notin DOMAIN Halves)
                 /\ Becomes(r, "pulling") /\ cnt' = n /\ pc' = "page" /\ page' = 1 /\ UNCHANGED lost
      BY <1>9 DEF SizeRange
    <2>2. pc = "walk" /\ UNCHANGED <<leafTotal, global, Walked>> /\ Walked
      BY <1>9 DEF SizeRange, world, Walked, IInv, FlagInv
    <2>3. CASE Slip
      BY <1>6, <2>2, <2>3
    <2>4. CASE n = Hits(r) /\ UNCHANGED slips
      <3>1. SUFFICES ASSUME Misled PROVE Right'
        BY <1>7, <2>2, <2>4
      <3>2. slips = 1 /\ Hits(Pruned) = 0 /\ leafTotal = Hits(Pulled)
        BY <1>1, <2>2, <3>1 DEF Right
      <3>3. r \in DOMAIN walk /\ walk[r] = "stacked"
        BY DEF Fated
      <3>4. CASE n = 0 /\ Becomes(r, "pruned") /\ UNCHANGED pc
        <4>1. Pulled' = Pulled /\ Hits(Pruned') = Hits(Pruned) + Hits(r)
          BY <3>3, <3>4, TrueLeaf
        <4>2. QED
          BY <1>4, <2>2, <2>4, <3>2, <3>4, <4>1 DEF Right
      <3>5. CASE Becomes(r, "unsized") /\ UNCHANGED pc
        <4>1. Pulled' = Pulled /\ Pruned' = Pruned
          BY <3>3, <3>5, TrueLeaf
        <4>2. QED
          BY <1>4, <2>2, <2>4, <3>2, <3>5, <4>1 DEF Right
      <3>6. CASE r \in DOMAIN Halves /\ Split(r)
        <4>1. /\ DOMAIN walk' = DOMAIN walk \cup Halves[r] /\ UNCHANGED pc
              /\ \A s \in DOMAIN walk' : walk'[s] = IF s \in Halves[r] THEN "stacked" ELSE IF s = r THEN "split" ELSE walk[s]
          BY <3>6 DEF Split
        <4>2. UNION Halves[r] = r /\ {} \notin Halves[r]
          BY <3>6, PullAssumption DEF Tiles
        <4>3. ASSUME NEW g \in {"pruned", "pulled"}, NEW s \in DOMAIN walk, walk[s] = g, s \in Halves[r] PROVE FALSE
          <5>1. s # {} /\ s \subseteq r
            BY <4>2, <4>3
          <5>2. s \in Unsplit /\ r \in Unsplit /\ s # r
            BY <3>3, <4>3 DEF Unsplit, Fated, Fate
          <5>3. s \cap r = {}
            BY <5>2 DEF IInv, WalkInv, Tiles
          <5>4. QED
            BY <5>1, <5>3
        <4>4. \A g \in {"pruned", "pulled"} : Fated({g})' = Fated({g})
          <5>1. ASSUME NEW g \in {"pruned", "pulled"}, NEW s PROVE s \in Fated({g})' <=> s \in Fated({g})
            <6>1. s \in Fated({g})' <=> s \in DOMAIN walk' /\ walk'[s] = g
              BY DEF Fated
            <6>2. s \in Fated({g}) <=> s \in DOMAIN walk /\ walk[s] = g
              BY DEF Fated
            <6>3. CASE s \in Halves[r]
              BY <4>1, <4>3, <6>1, <6>2, <6>3
            <6>4. CASE s = r /\ s \notin Halves[r]
              BY <3>3, <4>1, <6>1, <6>2, <6>4
            <6>5. CASE s # r /\ s \notin Halves[r]
              BY <4>1, <6>1, <6>2, <6>5
            <6>6. QED
              BY <6>3, <6>4, <6>5
          <5>2. QED
            BY <5>1
        <4>5. Pruned' = Pruned /\ Pulled' = Pulled
          BY <4>4 DEF Over
        <4>6. QED
          BY <1>4, <2>2, <2>4, <3>2, <4>1, <4>5 DEF Right
      <3>7. CASE Becomes(r, "pulling") /\ cnt' = n
        <4>1. Pulled' = Pulled /\ Pruned' = Pruned
          BY <3>3, <3>7, TrueLeaf
        <4>2. At' = r
          <5>1. \A s \in DOMAIN walk : walk[s] # "pulling"
            BY <2>2 DEF IInv, AtHandInv, AtHands, Fated
          <5>2. DOMAIN walk' = DOMAIN walk /\ \A s \in DOMAIN walk : walk'[s] = "pulling" <=> s = r
            BY <3>3, <3>7, <5>1 DEF Becomes
          <5>3. Fated({"pulling"})' = {r}
            BY <3>3, <5>2 DEF Fated
          <5>4. At' \in Fated({"pulling"})'
            BY <5>3 DEF At
          <5>5. QED
            BY <5>3, <5>4
        <4>3. QED
          BY <1>4, <2>2, <2>4, <3>2, <3>7, <4>1, <4>2 DEF Right
      <3>8. QED
        BY <2>1, <3>4, <3>5, <3>6, <3>7
    <2>5. QED
      BY <2>1, <2>3, <2>4 DEF Counted
  <1>10. CASE PageComes
    <2>1. PICK t, m, d : PageGives(t, m, d)
      BY <1>10 DEF PageComes
    <2>2. pc = "page" /\ UNCHANGED <<Walked, slips>>
      BY <1>10 DEF PageComes, world, Walked
    <2>3. CASE ~Walked
      BY <2>2, <2>3
    <2>4. CASE Walked /\ PagesEnd
      <3>1. /\ Becomes(At, "pulled") /\ leafTotal' = leafTotal + cnt /\ pc' = "walk" /\ UNCHANGED global
        BY <2>4 DEF PagesEnd
      <3>2. SUFFICES ASSUME Misled PROVE Right'
        BY <1>7, <2>2, <3>1
      <3>3. slips = 1 /\ Hits(Pruned) = 0 /\ leafTotal = Hits(Pulled) /\ cnt = Hits(At)
        BY <1>1, <2>2, <2>4, <3>2 DEF Right
      <3>4. At \in DOMAIN walk /\ walk[At] = "pulling"
        BY <2>2, <2>4, AtIsRange
      <3>5. Pruned' = Pruned /\ Hits(Pulled') = Hits(Pulled) + Hits(At)
        BY <3>1, <3>4, TrueLeaf
      <3>6. QED
        BY <1>4, <2>2, <3>1, <3>3, <3>5 DEF Right
    <2>5. CASE UNCHANGED <<pc, sizing>>
      <3>1. UNCHANGED <<pc, walk, leafTotal, cnt, global, At, Pruned, Pulled>>
        BY <2>5 DEF sizing, At, Over, Fated
      <3>2. QED
        BY <1>1, <1>2, <1>4, <1>7, <2>2, <3>1 DEF Right
    <2>6. QED
      BY <2>1, <2>3, <2>4, <2>5 DEF PageGives
  <1>11. CASE PageUntrue \/ PageLost
    <2>1. Slip /\ pc = "page" /\ UNCHANGED Walked
      BY <1>11 DEF PageUntrue, PageLost, world, Walked
    <2>2. UNCHANGED global
      BY <1>11 DEF PageUntrue, PageLost, PageGives, PagesEnd, sizing
    <2>3. QED
      BY <1>6, <2>1, <2>2
  <1>12. CASE Judge
    <2>1. ~Walked'
      BY <1>12 DEF Judge, Walked
    <2>2. QED
      BY <2>1
  <1>13. QED
    BY <1>3, <1>2, <1>5, <1>8, <1>9, <1>10, <1>11, <1>12 DEF Next

(* A percentage not below p is p hundredths at least. *)
LEMMA PctMeans ==
  ASSUME NEW a \in Nat, NEW b \in Nat, b > 0, NEW p \in Nat, ~(a \div b < p), NEW c \in Nat, c <= b
  PROVE  a >= p * c
  <1> DEFINE q == a \div b
  <1>1. q \in Nat /\ b * q <= a
    OBVIOUS
  <1> HIDE DEF q
  <1>2. p <= q
    BY <1>1 DEF q
  <1>3. p * c <= p * b
    OBVIOUS
  <1>4. p * b <= q * b
    BY <1>1, <1>2
  <1>5. p * c \in Nat /\ p * b \in Nat /\ q * b \in Nat /\ b * q = q * b
    BY <1>1
  <1>6. QED
    BY <1>1, <1>3, <1>4, <1>5

(* All ranges together have what the provider has. *)
LEMMA LeavesAreAll ==
  ASSUME IInv, TypeOK, Settled, Hits(Over({"pruned"})) = 0, leafTotal = Hits(Over({"pulled"}))
  PROVE  leafTotal = Truth
  <1> DEFINE Pruned == Over({"pruned"})
             Pulled == Over({"pulled"})
  <1>1. Pruned \in SUBSET Address /\ Pulled \in SUBSET Address /\ Pruned \cap Pulled = {}
    <2>1. {"pruned"} \in SUBSET (Fate \ {"split"}) /\ {"pulled"} \in SUBSET (Fate \ {"split"})
      BY DEF Fate
    <2>2. {"pruned"} \cap {"pulled"} = {}
      OBVIOUS
    <2>3. QED
      BY <2>1, <2>2, Apart DEF IInv
  <1>2. Unsplit \subseteq Fated({"pruned"}) \cup Fated({"pulled"})
    <2>1. ASSUME NEW r \in Unsplit PROVE r \in Fated({"pruned"}) \cup Fated({"pulled"})
      <3>1. r \in DOMAIN walk /\ walk[r] \in Fate /\ walk[r] # "split"
        BY DEF Unsplit, Fated
      <3>2. r \in Fated({"split", "pruned", "pulled"})
        BY <3>1 DEF Settled, Fated
      <3>3. QED
        BY <3>1, <3>2 DEF Fated
    <2>2. QED
      BY <2>1
  <1>3. UNION Unsplit = Address
    BY DEF IInv, WalkInv, Tiles
  <1>4. Address = Pruned \cup Pulled
    BY <1>1, <1>2, <1>3 DEF Over
  <1>5. Hits(Pruned \cup Pulled) = Hits(Pruned) + Hits(Pulled) /\ Hits(Pulled) \in Nat
    BY <1>1, HitsAdd
  <1>6. QED
    BY <1>4, <1>5 DEF Truth

(* Enough of the primary query was fetched when it is judged well, and that *)
(* stays so while the other query is paged. *)
LEMMA EnoughStep == ASSUME IInv, TypeOK, LeafInv, EnoughInv, Next PROVE EnoughInv'
  <1>1. UNCHANGED <<hits, sharded>> /\ Truth' = Truth
    BY DEF Next, SizeWhole, ShardCap, WalkEnds, SizeRange, PageComes, PageUntrue, PageLost, Judge, world, Truth, Hits
  <1>2. CASE query = "rescue"
    <2>1. ~Walked /\ pc \notin {"size", "walk"}
      BY <1>2 DEF Walked, IInv, FlagInv
    <2>2. PageComes \/ PageUntrue \/ PageLost \/ Judge
      BY <2>1 DEF Next, SizeWhole, ShardCap, WalkEnds, SizeRange
    <2>3. UNCHANGED <<global, leafTotal>>
      BY <2>1, <2>2 DEF PageComes, PageUntrue, PageLost, PageGives, PagesEnd, Judge, sizing
    <2>4. raw'["primary"] = raw["primary"]
      BY <1>2, <2>2 DEF PageComes, PageUntrue, PageLost, PageGives, Judge, TypeOK, Query
    <2>5. slips' <= 1 => slips <= 1
      BY <2>2, PullAssumption DEF PageComes, PageUntrue, PageLost, Judge, Slip, TypeOK
    <2>6. ~incomplete' => ~incomplete
      BY <2>2 DEF PageComes, PageUntrue, PageLost, Judge, verdict
    <2>7. QED
      BY <1>1, <1>2, <2>3, <2>4, <2>5, <2>6 DEF EnoughInv, Larger
  <1>3. CASE query # "rescue" /\ query' = "rescue" /\ sharded /\ ~incomplete' /\ (slips' <= 1 \/ Larger(global, leafTotal)' >= Truth)
    <2>1. Judge
      BY <1>3 DEF Next, SizeWhole, ShardCap, WalkEnds, SizeRange, PageComes, PageUntrue, PageLost
    <2>2. query = "primary" /\ Walked /\ pc = "judge"
      BY <1>3, <2>1 DEF Judge, Walked, TypeOK, Query
    <2>3. UNCHANGED <<global, leafTotal, raw, slips>>
      BY <2>1 DEF Judge, sizing
    <2>4. ~lost /\ Total # 0 /\ ~(Total > 0 /\ Pct < MinPct)
      BY <1>3, <2>1, <2>2 DEF Judge
    <2>5. Settled
      BY <2>2, <2>4 DEF IInv, FlagInv
    <2>6. Truth \in Nat /\ global \in Nat \cup {None} /\ leafTotal \in Nat /\ MinPct \in Nat
      BY HitsAdd, PullAssumption DEF Truth, TypeOK
    <2>7. Total = Larger(0, Larger(global, leafTotal))
      BY <2>2 DEF Total, ReferenceTotal
    <2>8. Larger(global, leafTotal) >= Truth
      <3>1. CASE slips <= 1 /\ global < Truth
        <4>1. Hits(Over({"pruned"})) = 0 /\ leafTotal = Hits(Over({"pulled"}))
          BY <2>2, <3>1 DEF LeafInv, Misled
        <4>2. leafTotal = Truth
          BY <2>5, <4>1, LeavesAreAll
        <4>3. QED
          BY <2>6, <4>2 DEF Larger, None
      <3>2. CASE slips <= 1 /\ ~(global < Truth)
        BY <2>6, <3>2 DEF Larger, None
      <3>3. CASE ~(slips <= 1)
        <4>1. Larger(global, leafTotal)' = Larger(global, leafTotal)
          BY <2>3 DEF Larger
        <4>2. QED
          BY <1>3, <2>3, <3>3, <4>1
      <3>4. QED
        BY <3>1, <3>2, <3>3
    <2>9. Total \in Nat /\ Total > 0 /\ Truth <= Total
      BY <2>4, <2>6, <2>7, <2>8 DEF Larger, None
    <2> DEFINE a == raw["primary"] * 100
    <2>10. a \in Nat /\ ~(a \div Total < MinPct)
      <3>1. raw["primary"] \in Nat
        BY DEF TypeOK, Query
      <3>2. Pct = a \div Total
        BY <2>2 DEF Pct
      <3>3. QED
        BY <2>4, <2>9, <3>1, <3>2
    <2> HIDE DEF a
    <2>11. a >= MinPct * Truth
      BY <2>6, <2>9, <2>10, PctMeans
    <2>12. QED
      BY <1>1, <2>3, <2>11 DEF EnoughInv, a
  <1>4. CASE query # "rescue" /\ ~(query' = "rescue" /\ sharded /\ ~incomplete' /\ (slips' <= 1 \/ Larger(global, leafTotal)' >= Truth))
    BY <1>1, <1>4 DEF EnoughInv
  <1>5. QED
    BY <1>2, <1>3, <1>4

(* The counts hold at the start. *)
LEMMA CountInit == Init => CountInv
  <1> SUFFICES ASSUME Init PROVE CountInv
    OBVIOUS
  <1>1. walk = [r \in Seed |-> "stacked"]
    BY DEF Init
  <1>2. UNION Seed = Address /\ MaxShards \in Nat /\ MaxSlips \in Nat
    BY PullAssumption DEF Tiles
  <1>3. DOMAIN walk \subseteq SUBSET Address /\ walk \in [DOMAIN walk -> Fate]
    BY <1>1, <1>2 DEF Fate
  <1>4. TypeOK
    <2>1. hits \in [Address -> 0 .. MaxHits] /\ leaky \in BOOLEAN /\ sharded \in BOOLEAN
      BY DEF Init
    <2>2. pc \in {"size", "walk", "page", "judge", "end"} /\ query \in Query
      BY DEF Init, Query
    <2>3. shards \in 0 .. MaxShards /\ leafTotal \in Nat /\ global \in Nat \cup {None} /\ cnt \in Nat
      BY <1>2 DEF Init
    <2>4. page \in Nat \ {0} /\ expect \in Nat /\ raw \in [Query -> Nat] /\ dropped \in Nat
      BY DEF Init
    <2>5. kept \in BOOLEAN /\ lost \in BOOLEAN /\ incomplete \in BOOLEAN /\ suspect \in BOOLEAN
      BY DEF Init
    <2>6. code \in {None, 0, 2, 3, 4} /\ slips \in 0 .. MaxSlips
      BY <1>2 DEF Init
    <2>7. QED
      BY <1>3, <2>1, <2>2, <2>3, <2>4, <2>5, <2>6 DEF TypeOK
  <1>5. pc = (IF sharded THEN "size" ELSE "page") /\ query = "primary" /\ slips = 0 /\ leafTotal = 0
    BY DEF Init
  <1>6. CapInv /\ EnoughInv
    BY <1>5 DEF CapInv, EnoughInv, Walked
  <1>7. Over({"pruned", "pulled"}) = {}
    BY <1>1 DEF Over, Fated
  <1>8. LeafInv
    BY <1>5, <1>7 DEF LeafInv, Walked
  <1>9. QED
    BY <1>4, <1>6, <1>8 DEF CountInv

(* ... and throughout. *)
LEMMA CountHolds == Spec => [](IInv /\ CountInv)
  <1>1. IInv /\ CountInv /\ Next => CountInv'
    BY TypeStep, LeafStep, EnoughStep DEF CountInv
  <1>2. ASSUME CountInv, UNCHANGED vars PROVE CountInv'
    <2>1. UNCHANGED <<hits, leaky, sharded, pc, query, walk, shards, leafTotal, global, cnt, page, expect, raw,
                      dropped, kept, lost, incomplete, suspect, code, slips>>
      BY <1>2 DEF vars, world, sizing, paging, verdict
    <2>2. TypeOK'
      BY <1>2, <2>1 DEF CountInv, TypeOK
    <2>3. CapInv' /\ EnoughInv'
      BY <1>2, <2>1 DEF CountInv, CapInv, EnoughInv, Walked, Larger, Truth, Hits
    <2>4. LeafInv'
      BY <1>2, <2>1 DEF CountInv, LeafInv, Walked, Misled, Truth, Hits, Over, Fated, At
    <2>5. QED
      BY <2>2, <2>3, <2>4 DEF CountInv
  <1>3. IInv /\ CountInv /\ [Next]_vars => CountInv'
    BY <1>1, <1>2
  <1>4. QED
    BY <1>3, CountInit, Inductive, PTL DEF Spec

(* Every variable of the download keeps its type, whatever the provider    *)
(* answers (shodan_collect.py main, collect_sharded, _collect_query).      *)
THEOREM Typing == Spec => []TypeOK
  <1>1. CountInv => TypeOK
    BY DEF CountInv
  <1>2. QED
    BY <1>1, CountHolds, PTL

(* One failed or untrue answer, or any number that leave one of the two    *)
(* totals not too low, do not let a sharded run that fetched too little    *)
(* pass for complete (shodan_collect.py reference_total, main).            *)
THEOREM OneTotalIsEnough == Spec => []OneReadingIsEnough
  <1>1. IInv /\ CountInv => OneReadingIsEnough
    <2>1. IInv => (code = 0 => query = "rescue" /\ ~incomplete)
      BY DEF IInv, FlagInv, None
    <2>2. QED
      BY <2>1 DEF CountInv, EnoughInv, OneReadingIsEnough
  <1>2. QED
    BY <1>1, CountHolds, PTL
=============================================================================
