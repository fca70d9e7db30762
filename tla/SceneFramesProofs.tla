--------------------------- MODULE SceneFramesProofs ---------------------------
(***************************************************************************)
(* Proofs about SceneFrames, for every number of slots, sets, ids,         *)
(* entities, components and distances: the types, that a submitted frame   *)
(* is left alone, that a pool has room and that every model is drawn once. *)
(***************************************************************************)
EXTENDS SceneFrames, InductionProofs

(* A walk of the map decides entity by entity (texturerendersystem.cpp:44-45,
   simplerendersystem.cpp:16-17, billboardrendersystem.cpp:11-12).         *)
LEMMA WalkSteps ==
  ASSUME NEW ids
  PROVE  \E upTo : /\ Walk(ids) = upTo[Len(order)]
                   /\ upTo[0] = <<>>
                   /\ \A n \in Nat :
                         /\ upTo[n] \in Seq(ids)
                         /\ upTo[n + 1] = IF order[n + 1] \in ids THEN Append(upTo[n], order[n + 1])
                                          ELSE upTo[n]
<1> DEFINE step == [p \in Nat \X Seq(ids) |->
                      IF order[p[1] + 1] \in ids THEN Append(p[2], order[p[1] + 1]) ELSE p[2]]
           Body(g) == [n \in Nat |-> IF n = 0 THEN <<>>
                                     ELSE IF order[n] \in ids THEN Append(g[n - 1], order[n])
                                     ELSE g[n - 1]]
           upTo == CHOOSE g : g = Body(g)
           Seqs == Seq(ids)
<1>1. step \in [Nat \X Seqs -> Seqs]
  OBVIOUS
<1>2. <<>> \in Seqs
  OBVIOUS
<1>3. \E f : Recurs(f, Seqs, <<>>, step)
  <2> HIDE DEF step, Seqs
  <2> QED BY <1>1, <1>2, PrimitiveRecursion
<1>4. PICK f : /\ f = [n \in Nat |-> f[n]] /\ \A n \in Nat : f[n] \in Seqs
               /\ f[0] = <<>> /\ \A n \in Nat : f[n + 1] = step[<<n, f[n]>>]
  <2> HIDE DEF step, Seqs
  <2> QED BY <1>3 DEF Recurs
<1>5. ASSUME NEW n \in Nat
      PROVE  f[n + 1] = IF order[n + 1] \in ids THEN Append(f[n], order[n + 1]) ELSE f[n]
  BY <1>4
<1>6. ASSUME NEW n \in Nat
      PROVE  f[n] = IF n = 0 THEN <<>>
                    ELSE IF order[n] \in ids THEN Append(f[n - 1], order[n]) ELSE f[n - 1]
  <2>1. CASE n = 0
    BY <1>4, <2>1
  <2>2. CASE n # 0
    <3>1. n - 1 \in Nat /\ (n - 1) + 1 = n
      BY <2>2
    <3>2. f[(n - 1) + 1] = IF order[(n - 1) + 1] \in ids THEN Append(f[n - 1], order[(n - 1) + 1])
                           ELSE f[n - 1]
      BY <1>5, <3>1
    <3> QED BY <2>2, <3>1, <3>2
  <2> QED BY <2>1, <2>2
<1>7. f = Body(f)
  BY <1>4, <1>6
<1>8. upTo = Body(upTo)
  <2> HIDE DEF Body
  <2> QED BY <1>7
<1>9. Walk(ids) = upTo[Len(order)]
  BY DEF Walk
<1> HIDE DEF upTo
<1>10. ASSUME NEW n \in Nat
       PROVE  upTo[n] = IF n = 0 THEN <<>>
                        ELSE IF order[n] \in ids THEN Append(upTo[n - 1], order[n]) ELSE upTo[n - 1]
  BY <1>8
<1>11. upTo[0] = <<>>
  BY <1>10
<1>12. ASSUME NEW n \in Nat
       PROVE  upTo[n + 1] = IF order[n + 1] \in ids THEN Append(upTo[n], order[n + 1]) ELSE upTo[n]
  <2>1. n + 1 \in Nat /\ n + 1 # 0 /\ (n + 1) - 1 = n
    OBVIOUS
  <2> QED BY <1>10, <2>1
<1>13. \A n \in Nat : upTo[n] \in Seqs
  <2> DEFINE S == {n \in Nat : upTo[n] \in Seqs}
  <2>1. 0 \in S
    BY <1>2, <1>11
  <2>2. ASSUME NEW n \in Nat, n \in S PROVE n + 1 \in S
    <3>1. upTo[n] \in Seqs
      BY <2>2
    <3>2. ASSUME NEW s \in Seqs, NEW x \in ids PROVE Append(s, x) \in Seqs
      OBVIOUS
    <3>3. upTo[n + 1] \in Seqs
      <4> HIDE DEF Seqs
      <4> QED BY <1>12, <3>1, <3>2
    <3> QED BY <3>3
  <2>3. Nat \subseteq S
    <3> HIDE DEF S
    <3> QED BY <2>1, <2>2, NaturalInduction
  <2> QED BY <2>3
<1> QED BY <1>9, <1>11, <1>12, <1>13

(* v is a walk of l steps among the first n entries of a map: it visits the ids of a set,
   each once.                                                              *)
Visited(v, l, map, n, ids) ==
  /\ \A k \in 1 .. l : \E m \in 1 .. n : v[k] = map[m]
  /\ \A m \in 1 .. n : map[m] \in ids => \E k \in 1 .. l : v[k] = map[m]
  /\ \A j, k \in 1 .. l : v[j] = v[k] => j = k

(* A walk goes on by one entry of the map, at which it may continue (the same loops). *)
LEMMA OneMoreVisit ==
  ASSUME NEW ids, NEW map, NEW n \in Nat, NEW v, NEW l \in Nat, NEW w, NEW lw \in Nat,
         \A j, k \in 1 .. (n + 1) : map[j] = map[k] => j = k,
         Visited(v, l, map, n, ids),
         \A k \in 1 .. l : w[k] = v[k],
         IF map[n + 1] \in ids THEN lw = l + 1 /\ w[l + 1] = map[n + 1] ELSE lw = l
  PROVE  Visited(w, lw, map, n + 1, ids)
<1> USE DEF Visited
<1>1. \A k \in 1 .. lw : k \in 1 .. l \/ (map[n + 1] \in ids /\ k = l + 1 /\ lw = l + 1)
  OBVIOUS
<1>2. \A m \in 1 .. (n + 1) : m \in 1 .. n \/ m = n + 1
  OBVIOUS
<1>3. 1 .. n \subseteq 1 .. (n + 1) /\ n + 1 \in 1 .. (n + 1) /\ 1 .. l \subseteq 1 .. lw
  OBVIOUS
<1>4. \A k \in 1 .. lw : \E m \in 1 .. (n + 1) : w[k] = map[m]
  <2> TAKE k \in 1 .. lw
  <2>1. CASE k \in 1 .. l
    BY <1>3, <2>1
  <2>2. CASE map[n + 1] \in ids /\ k = l + 1 /\ lw = l + 1
    BY <1>3, <2>2
  <2> QED BY <1>1, <2>1, <2>2
<1>5. \A m \in 1 .. (n + 1) : map[m] \in ids => \E k \in 1 .. lw : w[k] = map[m]
  <2> TAKE m \in 1 .. (n + 1)
  <2> HAVE map[m] \in ids
  <2>1. CASE m \in 1 .. n
    <3>1. PICK k \in 1 .. l : v[k] = map[m]
      BY <2>1
    <3> QED BY <1>3, <3>1
  <2>2. CASE m = n + 1
    <3>1. lw = l + 1 /\ w[l + 1] = map[m] /\ l + 1 \in 1 .. lw
      BY <2>2
    <3> QED BY <3>1
  <2> QED BY <1>2, <2>1, <2>2
<1>6. ASSUME map[n + 1] \in ids PROVE \A k \in 1 .. l : w[k] # w[l + 1]
  <2> TAKE k \in 1 .. l
  <2>1. PICK m \in 1 .. n : v[k] = map[m]
    OBVIOUS
  <2>2. m # n + 1 /\ m \in 1 .. (n + 1)
    OBVIOUS
  <2>3. map[m] # map[n + 1]
    BY <1>3, <2>2
  <2> QED BY <1>6, <2>1, <2>3
<1>7. \A j, k \in 1 .. lw : w[j] = w[k] => j = k
  <2> TAKE j, k \in 1 .. lw
  <2> HAVE w[j] = w[k]
  <2>1. CASE j \in 1 .. l /\ k \in 1 .. l
    BY <2>1
  <2>2. CASE j \in 1 .. l /\ map[n + 1] \in ids /\ k = l + 1
    BY <1>6, <2>2
  <2>3. CASE k \in 1 .. l /\ map[n + 1] \in ids /\ j = l + 1
    BY <1>6, <2>3
  <2> QED BY <1>1, <2>1, <2>2, <2>3
<1> QED BY <1>4, <1>5, <1>7

(* A walk visits the ids it does not continue at, each once if the map has each once
   (the same loops).                                                       *)
LEMMA WalkVisits ==
  ASSUME NEW ids, Len(order) \in Nat,
         \A m, n \in 1 .. Len(order) : order[m] = order[n] => m = n
  PROVE  /\ Walk(ids) \in Seq(ids)
         /\ Visited(Walk(ids), Len(Walk(ids)), order, Len(order), ids)
<1>1. PICK upTo : /\ Walk(ids) = upTo[Len(order)]
                  /\ upTo[0] = <<>>
                  /\ \A n \in Nat :
                        /\ upTo[n] \in Seq(ids)
                        /\ upTo[n + 1] = IF order[n + 1] \in ids THEN Append(upTo[n], order[n + 1])
                                         ELSE upTo[n]
  BY WalkSteps
<1> DEFINE v(n) == upTo[n]
           l(n) == Len(upTo[n])
           Visits(n) == Visited(v(n), l(n), order, n, ids)
           S == {n \in Nat : n <= Len(order) => Visits(n)}
<1>2. \A n \in Nat : l(n) \in Nat
  BY <1>1
<1>3. 0 \in S
  <2>1. l(0) = 0
    BY <1>1
  <2> QED BY <2>1 DEF Visited
<1>4. ASSUME NEW n \in Nat, n + 1 <= Len(order), Visits(n) PROVE Visits(n + 1)
  <2>1. ASSUME NEW s \in Seq(ids), NEW x \in ids
        PROVE  /\ Len(Append(s, x)) = Len(s) + 1
               /\ \A k \in 1 .. Len(s) : Append(s, x)[k] = s[k]
               /\ Append(s, x)[Len(s) + 1] = x
    OBVIOUS
  <2>2. /\ \A k \in 1 .. l(n) : v(n + 1)[k] = v(n)[k]
        /\ IF order[n + 1] \in ids THEN l(n + 1) = l(n) + 1 /\ v(n + 1)[l(n) + 1] = order[n + 1]
           ELSE l(n + 1) = l(n)
    <3>1. n + 1 \in Nat /\ upTo[n] \in Seq(ids)
      BY <1>1
    <3>2. CASE order[n + 1] \in ids
      <4>1. upTo[n + 1] = Append(upTo[n], order[n + 1])
        BY <1>1, <3>2
      <4> QED BY <2>1, <3>1, <3>2, <4>1
    <3>3. CASE order[n + 1] \notin ids
      <4>1. upTo[n + 1] = upTo[n]
        BY <1>1, <3>3
      <4> QED BY <3>3, <4>1
    <3> QED BY <3>2, <3>3
  <2>3. \A j, k \in 1 .. (n + 1) : order[j] = order[k] => j = k
    BY <1>4
  <2>4. l(n) \in Nat /\ l(n + 1) \in Nat
    BY <1>2
  <2> HIDE DEF v, l
  <2> QED BY <1>4, <2>2, <2>3, <2>4, OneMoreVisit
<1>5. ASSUME NEW n \in Nat, n \in S PROVE n + 1 \in S
  <2> HIDE DEF Visits
  <2> QED BY <1>4, <1>5
<1>6. Nat \subseteq S
  <2> HIDE DEF S
  <2> QED BY <1>3, <1>5, NaturalInduction
<1>7. Visits(Len(order))
  <2> HIDE DEF Visits
  <2> QED BY <1>6
<1> QED BY <1>1, <1>7

-----------------------------------------------------------------------------
(* The inductive invariant *)

Places == Nat \X Nat   \* of sets: a slot and the position in its pool

Uniforms == [view : Views, lights : Seq(Ids)]

Commands == [sets : Seq({Uninitialised} \cup Places), textures : Seq(Ids),
             buffer : Ring!Slots, uniforms : Uniforms]

SceneTypes ==
  /\ Ring!PacingTypeOK
  /\ created \in Seq(ComponentSets)
  /\ currentId \in Ids /\ DOMAIN entities \subseteq Ids
  /\ \A id \in DOMAIN entities : entities[id] \in DOMAIN created
  /\ order \in Seq(Ids)
  /\ pool \in [Ring!Slots -> Seq(Ids)]
  /\ \A s \in Ring!Slots : Len(pool[s]) <= MaxSets
  /\ ubo \in [Ring!Slots -> Uniforms]
  /\ commands \in [Ring!Slots -> Commands]
  /\ pc \in {"load", "loop", "update", "texture", "simple", "billboard", "end", "left"}

(* Ids are given out in order and, until they wrap, never twice. *)
Numbered ==
  /\ pc = "load" /\ Len(created) < IdCount => currentId = Len(created)
  /\ Len(created) <= IdCount => /\ DOMAIN entities = 0 .. (Len(created) - 1)
                                /\ \A id \in DOMAIN entities : entities[id] = id + 1
  /\ \A m, n \in 1 .. Len(order) : order[m] = order[n] => m = n
  /\ pc # "load" => DOMAIN entities = {order[m] : m \in 1 .. Len(order)}

InFrame == {"update", "texture", "simple", "billboard", "end"}

(* The command buffer of a slot is recorded and is not reset yet. *)
Recorded(s) == slot[s] = "inFlight" \/ (s = next /\ pc \in InFrame \ {"update"})

BoundOf(s) ==
  /\ Recorded(s) => commands[s].buffer = s /\ ubo[s] = commands[s].uniforms
  /\ Len(commands[s].sets) = Len(commands[s].textures)
  /\ \A n \in 1 .. Len(commands[s].sets) :
        LET set == commands[s].sets[n]
        IN  IF n <= MaxSets
            THEN set = <<s, n>> /\ n <= Len(pool[s]) /\ pool[s][n] = commands[s].textures[n]
            ELSE set = Uninitialised

Bound ==
  /\ pc \in InFrame => slot[next] = "recording"
  /\ pc \in {"update", "texture"} => pool[next] = <<>>
  /\ \A s \in Ring!Slots : BoundOf(s)

Draws(system, ids) == [n \in 1 .. Len(ids) |-> <<system, ids[n]>>]

Drawn ==
  /\ pc \in {"update", "texture"} => drawn = <<>>
  /\ pc = "simple" => drawn = Draws("texture", Walk(Textured))
  /\ pc = "billboard" => drawn = Draws("texture", Walk(Textured)) \o Draws("simple", Walk(Simple))
  /\ pc = "end" => \E X : \E b \in Seq({"billboard"} \X X) :
        drawn = Draws("texture", Walk(Textured)) \o Draws("simple", Walk(Simple)) \o b

SceneInv == SceneTypes /\ Numbered /\ Bound /\ Drawn

-----------------------------------------------------------------------------
(* What a walk visits are ids of the map (the same loops).                 *)
LEMMA WalkType ==
  ASSUME SceneTypes, Numbered, NEW ids \in SUBSET Ids
  PROVE  /\ Walk(ids) \in Seq(ids) /\ Walk(ids) \in Seq(Ids)
         /\ Len(Walk(ids)) \in Nat /\ DOMAIN Walk(ids) = 1 .. Len(Walk(ids))
         /\ Visited(Walk(ids), Len(Walk(ids)), order, Len(order), ids)
<1>1. Len(order) \in Nat
  BY DEF SceneTypes
<1>2. \A m, n \in 1 .. Len(order) : order[m] = order[n] => m = n
  BY DEF Numbered
<1>3. /\ Walk(ids) \in Seq(ids)
      /\ Visited(Walk(ids), Len(Walk(ids)), order, Len(order), ids)
  BY <1>1, <1>2, WalkVisits
<1>4. Walk(ids) \in Seq(Ids) /\ Len(Walk(ids)) \in Nat /\ DOMAIN Walk(ids) = 1 .. Len(Walk(ids))
  BY <1>3
<1> QED BY <1>3, <1>4

(* The entities that a system draws are in the map (the conditions of those loops). *)
LEMMA SystemsType ==
  ASSUME SceneTypes
  PROVE  Textured \in SUBSET Ids /\ Simple \in SUBSET Ids /\ Lights \in SUBSET Ids
  BY DEF SceneTypes, Textured, Simple, Lights

(* The ids that the map has are finitely many (entity.hpp:21).             *)
LEMMA EntitiesFinite ==
  ASSUME SceneTypes
  PROVE  IsFiniteSet(DOMAIN entities) /\ Cardinality(DOMAIN entities) \in Nat
<1>1. IsFiniteSet(Ids)
  BY SceneAssumption, FS_Interval DEF Ids
<1>2. DOMAIN entities \in SUBSET Ids
  BY DEF SceneTypes
<1> QED BY <1>1, <1>2, FS_Subset, FS_CardinalityType

(* The order of the walk of a map is a sequence of its ids, each once: so all of them
   are there (application.cpp:71-74).                                      *)
LEMMA OrderOfMap ==
  ASSUME SceneTypes, StartRun
  PROVE  /\ order' \in Seq(DOMAIN entities)
         /\ \A m, n \in 1 .. Len(order') : order'[m] = order'[n] => m = n
         /\ DOMAIN entities = {order'[m] : m \in 1 .. Len(order')}
<1> DEFINE D == DOMAIN entities
           c == Cardinality(D)
<1>1. IsFiniteSet(D) /\ c \in Nat
  BY EntitiesFinite
<1>2. order' \in [1 .. c -> D] /\ \A m, n \in 1 .. c : m # n => order'[m] # order'[n]
  BY DEF StartRun, SetToSeqs
<1>3. order' \in Injection(1 .. c, D)
  BY <1>2 DEF Injection, IsInjective
<1>4. IsFiniteSet(1 .. c) /\ Cardinality(1 .. c) = c
  BY <1>1, FS_Interval
<1>5. order' \in Surjection(1 .. c, D)
  <2> HIDE DEF D
  <2> QED BY <1>1, <1>3, <1>4, FS_Injection
<1>6. \A id \in D : \E m \in 1 .. c : order'[m] = id
  BY <1>5 DEF Surjection
<1>7. order' \in Seq(D) /\ Len(order') = c
  <2> HIDE DEF c, D
  <2> QED BY <1>1, <1>2
<1>8. D = {order'[m] : m \in 1 .. c}
  <2> HIDE DEF c, D
  <2> QED BY <1>2, <1>6
<1> QED BY <1>2, <1>7, <1>8

(* The smaller of the entities to draw and the sets there are (texturerendersystem.cpp:51). *)
LEMMA SmallerOfTwo ==
  ASSUME NEW a \in Nat, NEW b \in Nat
  PROVE  Min({a, b}) = IF a <= b THEN a ELSE b
<1>1. CASE a <= b
  <2>1. \A x \in {a, b} : (\A y \in {a, b} : x <= y) => x = a
    BY <1>1
  <2>2. a \in {a, b} /\ \A y \in {a, b} : a <= y
    BY <1>1
  <2> QED BY <1>1, <2>1, <2>2 DEF Min
<1>2. CASE ~(a <= b)
  <2>1. \A x \in {a, b} : (\A y \in {a, b} : x <= y) => x = b
    BY <1>2
  <2>2. b \in {a, b} /\ \A y \in {a, b} : b <= y
    BY <1>2
  <2> QED BY <1>2, <2>1, <2>2 DEF Min
<1> QED BY <1>1, <1>2

(* The texture system finds an empty pool: it fills it from the start, until it is
   full (texturerendersystem.cpp:47-60, descriptors.cpp:90-116).           *)
LEMMA TexturedEffect ==
  ASSUME SceneInv, RenderTextured
  PROVE  LET t == Walk(Textured)
             room == IF Len(t) <= MaxSets THEN Len(t) ELSE MaxSets
             set == [n \in 1 .. Len(t) |-> IF n <= MaxSets THEN <<next, n>> ELSE Uninitialised]
         IN  /\ pool' = [pool EXCEPT ![next] = SubSeq(t, 1, room)]
             /\ commands' = [commands EXCEPT ![next].sets = set, ![next].textures = t]
<1> DEFINE t == Walk(Textured)
           room == IF Len(t) <= MaxSets THEN Len(t) ELSE MaxSets
           had == Len(pool[next])
<1>1. t \in Seq(Ids) /\ Len(t) \in Nat /\ DOMAIN t = 1 .. Len(t)
  BY WalkType, SystemsType DEF SceneInv
<1>2. pool[next] = <<>> /\ had = 0
  BY DEF SceneInv, Bound, RenderTextured
<1>3. MaxSets \in Nat
  BY SceneAssumption
<1> HIDE DEF t, had
<1>4. Min({Len(t), MaxSets - had}) = room
  <2>1. MaxSets - had = MaxSets
    BY <1>2, <1>3
  <2>2. Min({Len(t), MaxSets}) = room
    BY <1>1, <1>3, SmallerOfTwo
  <2> QED BY <2>1, <2>2
<1>5. <<>> \o SubSeq(t, 1, room) = SubSeq(t, 1, room)
  BY <1>1, <1>3
<1>6. pool' = [pool EXCEPT ![next] = pool[next] \o SubSeq(t, 1, Min({Len(t), MaxSets - had}))]
  BY DEF RenderTextured, t, had
<1>7. [n \in DOMAIN t |-> IF had + n <= MaxSets THEN <<next, had + n>> ELSE Uninitialised]
      = [n \in 1 .. Len(t) |-> IF n <= MaxSets THEN <<next, n>> ELSE Uninitialised]
  <2>1. \A n \in 1 .. Len(t) : had + n = n
    BY <1>1, <1>2
  <2> QED BY <1>1, <2>1
<1>8. commands' = [commands EXCEPT
         ![next].sets = [n \in DOMAIN t |-> IF had + n <= MaxSets THEN <<next, had + n>>
                                            ELSE Uninitialised],
         ![next].textures = t]
  BY DEF RenderTextured, t, had
<1> QED BY <1>2, <1>4, <1>5, <1>6, <1>7, <1>8 DEF t

-----------------------------------------------------------------------------
(* The ring of slots keeps its types (the frame loop, application.cpp:71-162). *)
LEMMA RingStep ==
  ASSUME Ring!PacingTypeOK,
         \/ Ring!Begin \/ Ring!Submit \/ Ring!Stop
         \/ \E s \in Ring!Slots : Ring!Complete(s)
         \/ UNCHANGED ring
  PROVE  Ring!PacingTypeOK'
<1>1. (next + 1) % SlotCount \in Ring!Slots /\ 0 \in Ring!Slots
  BY SceneAssumption DEF Ring!PacingTypeOK, Ring!Slots
<1> QED BY <1>1 DEF Ring!PacingTypeOK, Ring!Begin, Ring!Submit, Ring!Stop, Ring!Complete, ring

(* A command buffer begun anew refers to nothing (application.cpp:121).     *)
LEMMA UnrecordedType == Unrecorded \in Commands /\ NoUniforms \in Uniforms
<1>1. NoUniforms \in Uniforms
  BY SceneAssumption DEF NoUniforms, Uniforms
<1>2. 0 \in Ring!Slots
  BY SceneAssumption DEF Ring!Slots
<1> QED BY <1>1, <1>2 DEF Unrecorded, Commands

(* Two of the four parts of a command buffer are recorded anew, the others stay
   (application.cpp:145, texturerendersystem.cpp:47-60).                   *)
LEMMA PartsRecorded ==
  ASSUME NEW A, NEW B, NEW C, NEW D,
         NEW r \in [sets : A, textures : B, buffer : C, uniforms : D]
  PROVE  /\ \A e \in C, f \in D :
               LET new == [r EXCEPT !.buffer = e, !.uniforms = f]
               IN  /\ new \in [sets : A, textures : B, buffer : C, uniforms : D]
                   /\ new.sets = r.sets /\ new.textures = r.textures
                   /\ new.buffer = e /\ new.uniforms = f
         /\ \A e \in A, f \in B :
               LET new == [r EXCEPT !.sets = e, !.textures = f]
               IN  /\ new \in [sets : A, textures : B, buffer : C, uniforms : D]
                   /\ new.sets = e /\ new.textures = f
                   /\ new.buffer = r.buffer /\ new.uniforms = r.uniforms
  OBVIOUS

(* Every step keeps the types (application.cpp:71-162, 270-315).           *)
LEMMA TypesStep ==
  ASSUME SceneInv, [Next]_vars
  PROVE  SceneTypes'
<1> USE DEF SceneInv
<1>0. next \in Ring!Slots
  BY DEF SceneTypes, Ring!PacingTypeOK
<1>1. CASE LoadEntity
  <2>1. currentId' \in Ids
    BY <1>1, SceneAssumption DEF LoadEntity, NextId, SceneTypes, Ids
  <2>2. PICK c \in ComponentSets : created' = Append(created, c)
    BY <1>1 DEF LoadEntity
  <2>3. created' \in Seq(ComponentSets) /\ DOMAIN created \subseteq DOMAIN created'
        /\ Len(created) + 1 \in DOMAIN created'
    BY <2>2 DEF SceneTypes
  <2>4. DOMAIN entities' \subseteq Ids /\ \A id \in DOMAIN entities' : entities'[id] \in DOMAIN created'
    BY <1>1, <2>3 DEF LoadEntity, Emplace, SceneTypes
  <2> QED BY <1>1, <2>1, <2>3, <2>4, RingStep DEF LoadEntity, SceneTypes, frame, ring
<1>2. CASE StartRun
  <2>1. order' \in Seq(Ids)
    BY <1>2, OrderOfMap DEF SceneTypes
  <2>2. currentId' \in Ids
    BY <1>2, SceneAssumption DEF StartRun, NextId, SceneTypes, Ids
  <2> QED BY <1>2, <2>1, <2>2, RingStep DEF StartRun, SceneTypes, frame, ring
<1>3. CASE BeginFrame
  <2>1. Ring!PacingTypeOK'
    BY <1>3, RingStep DEF BeginFrame, SceneTypes
  <2>2. pool' \in [Ring!Slots -> Seq(Ids)] /\ \A s \in Ring!Slots : Len(pool'[s]) <= MaxSets
    BY <1>0, <1>3, SceneAssumption DEF BeginFrame, ResetPool, SceneTypes
  <2>3. commands' \in [Ring!Slots -> Commands]
    BY <1>0, <1>3, UnrecordedType DEF BeginFrame, SceneTypes
  <2> QED BY <1>3, <2>1, <2>2, <2>3 DEF BeginFrame, SceneTypes, scene, Ring!Slots
<1>4. CASE Update
  <2>1. Walk(Lights) \in Seq(Ids)
    BY WalkType, SystemsType
  <2>2. PICK uniforms \in Uniforms :
           /\ ubo' = [ubo EXCEPT ![next] = uniforms]
           /\ commands' = [commands EXCEPT ![next].buffer = next, ![next].uniforms = uniforms]
    BY <1>4, <2>1 DEF Update, UniformBuffer, Uniforms
  <2>3. ubo' \in [Ring!Slots -> Uniforms]
    BY <1>0, <2>2 DEF SceneTypes
  <2>4. commands' \in [Ring!Slots -> Commands]
    <3> DEFINE c == [commands[next] EXCEPT !.buffer = next, !.uniforms = uniforms]
    <3>1. commands[next] \in Commands
      BY <1>0 DEF SceneTypes
    <3>2. c \in Commands
      BY <1>0, <3>1, PartsRecorded DEF Commands
    <3>3. commands' = [commands EXCEPT ![next] = c]
      BY <2>2
    <3> HIDE DEF c
    <3> QED BY <1>0, <3>2, <3>3 DEF SceneTypes
  <2> QED BY <1>4, <2>3, <2>4, RingStep DEF Update, SceneTypes, scene, ring, Ring!Slots
<1>5. CASE RenderTextured
  <2> DEFINE t == Walk(Textured)
             room == IF Len(t) <= MaxSets THEN Len(t) ELSE MaxSets
             set == [n \in 1 .. Len(t) |-> IF n <= MaxSets THEN <<next, n>> ELSE Uninitialised]
  <2>1. /\ pool' = [pool EXCEPT ![next] = SubSeq(t, 1, room)]
        /\ commands' = [commands EXCEPT ![next].sets = set, ![next].textures = t]
    BY <1>5, TexturedEffect
  <2>2. t \in Seq(Ids) /\ Len(t) \in Nat
    BY WalkType, SystemsType
  <2> HIDE DEF t
  <2>3. SubSeq(t, 1, room) \in Seq(Ids) /\ Len(SubSeq(t, 1, room)) <= MaxSets
    BY <2>2, SceneAssumption
  <2>4. set \in Seq({Uninitialised} \cup Places)
    <3>1. \A n \in 1 .. Len(t) : set[n] \in {Uninitialised} \cup Places
      <4>1. next \in Nat
        BY <1>0, SceneAssumption DEF Ring!Slots
      <4> QED BY <2>2, <4>1 DEF Places
    <3> QED BY <2>2, <3>1
  <2> HIDE DEF room, set
  <2>5. pool' \in [Ring!Slots -> Seq(Ids)] /\ \A s \in Ring!Slots : Len(pool'[s]) <= MaxSets
    BY <1>0, <2>1, <2>3 DEF SceneTypes
  <2>6. commands' \in [Ring!Slots -> Commands]
    <3> DEFINE c == [commands[next] EXCEPT !.sets = set, !.textures = t]
    <3>1. commands[next] \in Commands
      BY <1>0 DEF SceneTypes
    <3>2. c \in Commands
      BY <2>2, <2>4, <3>1, PartsRecorded DEF Commands
    <3>3. commands' = [commands EXCEPT ![next] = c]
      BY <2>1
    <3> HIDE DEF c
    <3> QED BY <1>0, <3>2, <3>3 DEF SceneTypes
  <2> QED BY <1>5, <2>5, <2>6, RingStep DEF RenderTextured, SceneTypes, scene, ring, Ring!Slots
<1>6. CASE RenderSimple
  BY <1>6, RingStep DEF RenderSimple, SceneTypes, scene, ring, Ring!Slots
<1>7. CASE RenderBillboards
  BY <1>7, RingStep DEF RenderBillboards, SceneTypes, scene, ring, Ring!Slots
<1>8. CASE EndFrame
  BY <1>8, RingStep DEF EndFrame, SceneTypes, scene, frame, Ring!Slots
<1>9. CASE LeaveRun
  BY <1>9, RingStep DEF LeaveRun, SceneTypes, scene, frame, Ring!Slots
<1>10. CASE GpuCompletes
  BY <1>10, RingStep DEF GpuCompletes, SceneTypes, scene, frame, Ring!Slots
<1>11. CASE UNCHANGED vars
  BY <1>11, RingStep DEF vars, SceneTypes, scene, frame, ring, Ring!Slots
<1> QED
  BY <1>1, <1>2, <1>3, <1>4, <1>5, <1>6, <1>7, <1>8, <1>9, <1>10, <1>11 DEF Next

(* Entities that the scene is left with keep their numbers (application.cpp:71-162). *)
LEMMA NumberedKept ==
  ASSUME Numbered, UNCHANGED scene, pc = "load" <=> pc' = "load"
  PROVE  Numbered'
  BY DEF Numbered, scene

(* Every step keeps the numbering of entities by ids (application.cpp:270-315,
   entity.cpp:37-40).                                                      *)
LEMMA NumberedStep ==
  ASSUME SceneInv, [Next]_vars
  PROVE  Numbered'
<1> USE DEF SceneInv
<1>1. CASE LoadEntity
  <2> DEFINE l == Len(created)
  <2>1. l \in Nat /\ Len(created') = l + 1 /\ pc = "load" /\ pc' = "load" /\ order' = order
    BY <1>1 DEF LoadEntity, SceneTypes
  <2>2. IdCount \in Nat \ {0}
    BY SceneAssumption
  <2> HIDE DEF l
  <2>3. l + 1 < IdCount => currentId' = l + 1
    <3> HAVE l + 1 < IdCount
    <3>1. currentId = l /\ currentId' = (currentId + 1) % IdCount
      BY <1>1, <2>1, <2>2 DEF LoadEntity, NextId, Numbered, l
    <3>2. (l + 1) % IdCount = l + 1
      BY <2>1, <2>2
    <3> QED BY <3>1, <3>2
  <2>4. ASSUME l + 1 <= IdCount
        PROVE  /\ DOMAIN entities' = 0 .. l
               /\ \A id \in DOMAIN entities' : entities'[id] = id + 1
    <3>1. currentId = l
      BY <2>1, <2>2, <2>4 DEF Numbered, l
    <3>2. /\ DOMAIN entities = 0 .. (l - 1)
          /\ \A id \in DOMAIN entities : entities[id] = id + 1
      BY <2>1, <2>2, <2>4 DEF Numbered, l
    <3>3. entities' = [known \in DOMAIN entities \cup {l} |->
                         IF known \in DOMAIN entities THEN entities[known] ELSE l + 1]
      BY <1>1, <3>1 DEF LoadEntity, Emplace, l
    <3>4. DOMAIN entities \cup {l} = 0 .. l
      BY <2>1, <3>2
    <3> QED BY <2>1, <3>2, <3>3, <3>4
  <2>5. (l + 1) - 1 = l
    BY <2>1
  <2> QED BY <2>1, <2>3, <2>4, <2>5 DEF Numbered
<1>2. CASE StartRun
  BY <1>2, OrderOfMap DEF StartRun, Numbered
<1>3. CASE BeginFrame
  BY <1>3, NumberedKept DEF BeginFrame
<1>4. CASE Update
  BY <1>4, NumberedKept DEF Update
<1>5. CASE RenderTextured
  BY <1>5, NumberedKept DEF RenderTextured
<1>6. CASE RenderSimple
  BY <1>6, NumberedKept DEF RenderSimple
<1>7. CASE RenderBillboards
  BY <1>7, NumberedKept DEF RenderBillboards
<1>8. CASE EndFrame
  BY <1>8, NumberedKept DEF EndFrame
<1>9. CASE LeaveRun
  BY <1>9, NumberedKept DEF LeaveRun
<1>10. CASE GpuCompletes
  BY <1>10, NumberedKept DEF GpuCompletes
<1>11. CASE UNCHANGED vars
  BY <1>11, NumberedKept DEF vars
<1> QED
  BY <1>1, <1>2, <1>3, <1>4, <1>5, <1>6, <1>7, <1>8, <1>9, <1>10, <1>11 DEF Next

(* A command buffer that nobody touches stays as it was recorded (application.cpp:121-145). *)
LEMMA BoundKept ==
  ASSUME SceneTypes, Bound, UNCHANGED <<pool, ubo, commands>>,
         \A s \in Ring!Slots : Recorded(s)' => Recorded(s),
         pc' \in InFrame => slot'[next'] = "recording",
         pc' \in {"update", "texture"} => pool[next'] = <<>>
  PROVE  Bound'
  BY DEF Bound, BoundOf, Ring!Slots

(* Every step keeps what is bound in the command buffers (application.cpp:121-145,
   texturerendersystem.cpp:44-60).                                         *)
LEMMA BoundStep ==
  ASSUME SceneInv, [Next]_vars
  PROVE  Bound'
<1> USE DEF SceneInv
<1>0. next \in Ring!Slots /\ Ring!Slots' = Ring!Slots /\ slot = [s \in Ring!Slots |-> slot[s]]
  BY DEF SceneTypes, Ring!PacingTypeOK, Ring!Slots
<1>1. CASE LoadEntity \/ StartRun
  BY <1>1, BoundKept DEF LoadEntity, StartRun, frame, ring, Recorded, InFrame
<1>2. CASE BeginFrame
  <2>1. /\ next' = next /\ pc' = "update" /\ slot[next] = "idle"
        /\ slot' = [slot EXCEPT ![next] = "recording"]
        /\ pool' = [pool EXCEPT ![next] = <<>>]
        /\ commands' = [commands EXCEPT ![next] = Unrecorded]
        /\ ubo' = ubo
    BY <1>2 DEF BeginFrame, ResetPool, Ring!Begin
  <2>2. pc' \in InFrame => slot'[next'] = "recording"
    BY <1>0, <2>1
  <2>3. pool'[next'] = <<>>
    BY <1>0, <2>1 DEF SceneTypes
  <2>4. ASSUME NEW s \in Ring!Slots, s # next
        PROVE  BoundOf(s)'
    <3>1. pool'[s] = pool[s] /\ commands'[s] = commands[s] /\ slot'[s] = slot[s]
      BY <1>0, <2>1, <2>4 DEF SceneTypes
    <3>2. Recorded(s)' => Recorded(s)
      BY <2>1, <2>4, <3>1 DEF Recorded
    <3> QED BY <2>1, <3>1, <3>2 DEF BoundOf, Bound
  <2>5. ~Recorded(next)'
    BY <1>0, <2>1 DEF Recorded
  <2>6. /\ Len(commands'[next].sets) = Len(commands'[next].textures)
        /\ Len(commands'[next].sets) = 0
    BY <1>0, <2>1 DEF SceneTypes, Unrecorded
  <2>7. BoundOf(next)'
    BY <2>1, <2>5, <2>6 DEF BoundOf
  <2> QED BY <1>0, <2>1, <2>2, <2>3, <2>4, <2>7 DEF Bound
<1>3. CASE Update
  <2>0. PICK uniforms :
           /\ ubo' = [ubo EXCEPT ![next] = uniforms]
           /\ commands' = [commands EXCEPT ![next].buffer = next, ![next].uniforms = uniforms]
    BY <1>3 DEF Update, UniformBuffer
  <2>1. next' = next /\ slot' = slot /\ pc = "update" /\ pc' = "texture" /\ pool' = pool
    BY <1>3 DEF Update, ring
  <2>2. slot'[next'] = "recording" /\ pool'[next'] = <<>>
    BY <2>1 DEF Bound, InFrame
  <2>3. \A s \in Ring!Slots : /\ commands'[s].sets = commands[s].sets
                              /\ commands'[s].textures = commands[s].textures
    BY <1>0, <2>0 DEF SceneTypes, Commands
  <2>4. commands'[next].buffer = next /\ ubo'[next] = commands'[next].uniforms
    BY <1>0, <2>0 DEF SceneTypes, Commands
  <2>5. \A s \in Ring!Slots : s # next => /\ Recorded(s)' => Recorded(s)
                                          /\ ubo'[s] = ubo[s]
                                          /\ commands'[s].buffer = commands[s].buffer
                                          /\ commands'[s].uniforms = commands[s].uniforms
    BY <1>0, <2>0, <2>1 DEF SceneTypes, Commands, Recorded
  <2> QED BY <1>0, <2>1, <2>2, <2>3, <2>4, <2>5 DEF Bound, BoundOf
<1>4. CASE RenderTextured
  <2> DEFINE t == Walk(Textured)
             room == IF Len(t) <= MaxSets THEN Len(t) ELSE MaxSets
             set == [n \in 1 .. Len(t) |-> IF n <= MaxSets THEN <<next, n>> ELSE Uninitialised]
  <2>1. /\ pool' = [pool EXCEPT ![next] = SubSeq(t, 1, room)]
        /\ commands' = [commands EXCEPT ![next].sets = set, ![next].textures = t]
    BY <1>4, TexturedEffect
  <2>2. t \in Seq(Ids) /\ Len(t) \in Nat
    BY WalkType, SystemsType
  <2> HIDE DEF t
  <2>3. /\ Len(SubSeq(t, 1, room)) = room /\ room \in Nat
        /\ \A n \in 1 .. room : SubSeq(t, 1, room)[n] = t[n]
    BY <2>2, SceneAssumption
  <2>4. Len(set) = Len(t)
    BY <2>2
  <2>5. /\ next' = next /\ slot' = slot /\ ubo' = ubo /\ pc = "texture" /\ pc' = "simple"
    BY <1>4 DEF RenderTextured, ring
  <2>6. slot'[next'] = "recording"
    BY <2>5 DEF Bound, InFrame
  <2>7. ASSUME NEW s \in Ring!Slots, s # next
        PROVE  pool'[s] = pool[s] /\ commands'[s] = commands[s]
    <3> HIDE DEF room, set
    <3> QED BY <1>0, <2>1, <2>7 DEF SceneTypes
  <2>12. set \in Seq({Uninitialised} \cup Places)
    <3>1. next \in Nat
      BY <1>0, SceneAssumption DEF Ring!Slots
    <3> QED BY <2>2, <3>1 DEF Places
  <2>8. /\ pool'[next] = SubSeq(t, 1, room)
        /\ commands'[next].sets = set /\ commands'[next].textures = t
        /\ commands'[next].buffer = commands[next].buffer
        /\ commands'[next].uniforms = commands[next].uniforms
    <3> HIDE DEF room, set
    <3>1. commands[next] \in Commands
      BY <1>0 DEF SceneTypes
    <3>2. commands'[next] = [commands[next] EXCEPT !.sets = set, !.textures = t]
      BY <1>0, <2>1 DEF SceneTypes
    <3>3. /\ commands'[next].sets = set /\ commands'[next].textures = t
          /\ commands'[next].buffer = commands[next].buffer
          /\ commands'[next].uniforms = commands[next].uniforms
      <4>1. PICK c \in Commands : c = commands[next]
        BY <3>1
      <4>2. LET r == [c EXCEPT !.sets = set, !.textures = t]
            IN  /\ r.sets = set /\ r.textures = t
                /\ r.buffer = c.buffer /\ r.uniforms = c.uniforms
        BY <2>2, <2>12, <4>1, PartsRecorded DEF Commands
      <4>3. commands'[next] = [c EXCEPT !.sets = set, !.textures = t]
        BY <3>2, <4>1
      <4> QED BY <4>1, <4>2, <4>3
    <3>4. pool'[next] = SubSeq(t, 1, room)
      BY <1>0, <2>1 DEF SceneTypes
    <3> QED BY <3>3, <3>4
  <2>9. \A n \in 1 .. Len(set) :
           IF n <= MaxSets THEN /\ set[n] = <<next, n>> /\ n <= Len(pool'[next])
                                /\ pool'[next][n] = t[n]
           ELSE set[n] = Uninitialised
    <3> TAKE n \in 1 .. Len(set)
    <3>1. n \in 1 .. Len(t) /\ n \in Nat
      BY <2>2, <2>4
    <3>2. CASE n <= MaxSets
      <4>1. n \in 1 .. room
        BY <2>2, <3>1, <3>2, SceneAssumption
      <4>2. n <= Len(pool'[next]) /\ pool'[next][n] = t[n]
        <5> HIDE DEF room, set
        <5> QED BY <2>3, <2>8, <4>1
      <4> QED BY <3>1, <3>2, <4>2
    <3>3. CASE ~(n <= MaxSets)
      BY <3>1, <3>3
    <3> QED BY <3>2, <3>3
  <2>10. \A s \in Ring!Slots : Recorded(s)' => Recorded(s)
    BY <2>5 DEF Recorded, InFrame
  <2> HIDE DEF room, set
  <2>11. ASSUME NEW s \in Ring!Slots
         PROVE  BoundOf(s)'
    <3>1. CASE s = next
      BY <2>4, <2>5, <2>8, <2>9, <2>10, <3>1 DEF Bound, BoundOf
    <3>2. CASE s # next
      BY <2>5, <2>7, <2>10, <3>2 DEF Bound, BoundOf
    <3> QED BY <3>1, <3>2
  <2> QED BY <1>0, <2>5, <2>6, <2>11 DEF Bound
<1>5. CASE RenderSimple \/ RenderBillboards
  BY <1>5, BoundKept DEF RenderSimple, RenderBillboards, ring, Recorded, InFrame, Bound
<1>6. CASE EndFrame
  <2>1. /\ slot[next] = "recording" /\ slot' = [slot EXCEPT ![next] = "inFlight"]
        /\ pc = "end" /\ pc' = "loop"
    BY <1>6 DEF EndFrame, Ring!Submit
  <2>2. \A s \in Ring!Slots : Recorded(s)' => Recorded(s)
    BY <1>0, <2>1 DEF Recorded, InFrame
  <2> QED BY <1>6, <2>1, <2>2, BoundKept DEF EndFrame, frame, InFrame
<1>7. CASE LeaveRun
  <2>1. /\ slot' = [s \in Ring!Slots |-> IF slot[s] = "recording" THEN "idle" ELSE slot[s]]
        /\ pc' = "left"
    BY <1>7 DEF LeaveRun, Ring!Stop
  <2>2. \A s \in Ring!Slots : Recorded(s)' => Recorded(s)
    BY <1>0, <2>1 DEF Recorded, InFrame
  <2> QED BY <1>7, <2>1, <2>2, BoundKept DEF LeaveRun, frame, InFrame
<1>8. CASE GpuCompletes
  <2>1. PICK s \in Ring!Slots : slot[s] = "inFlight" /\ slot' = [slot EXCEPT ![s] = "idle"]
                                /\ next' = next /\ pc' = pc
    BY <1>8 DEF GpuCompletes, Ring!Complete
  <2>2. \A r \in Ring!Slots : Recorded(r)' => Recorded(r)
    BY <1>0, <2>1 DEF Recorded, InFrame
  <2>3. pc' \in InFrame => slot'[next'] = "recording"
    BY <1>0, <2>1 DEF Bound
  <2>4. pc' \in {"update", "texture"} => pool[next'] = <<>>
    BY <2>1 DEF Bound
  <2> QED BY <1>8, <2>2, <2>3, <2>4, BoundKept DEF GpuCompletes, frame
<1>9. CASE UNCHANGED vars
  BY <1>9, BoundKept DEF vars, frame, ring, Recorded, Bound
<1> QED
  BY <1>1, <1>2, <1>3, <1>4, <1>5, <1>6, <1>7, <1>8, <1>9 DEF Next

(* What a system draws is a sequence (the loops of the render functions).  *)
LEMMA DrawsType ==
  ASSUME NEW system, NEW X, NEW s \in Seq(X)
  PROVE  /\ Draws(system, s) \in Seq({system} \X X)
         /\ Len(Draws(system, s)) = Len(s)
  BY DEF Draws

(* Every step keeps what this frame has drawn (application.cpp:146-158).   *)
LEMMA DrawnStep ==
  ASSUME SceneInv, [Next]_vars
  PROVE  Drawn'
<1> USE DEF SceneInv
<1> DEFINE ts == Walk(Textured)
           ss == Walk(Simple)
           T == Draws("texture", ts)
           S == Draws("simple", ss)
<1>0. UNCHANGED scene => ts' = ts /\ ss' = ss
  BY DEF Walk, Textured, Simple, HasComponent, scene
<1>a. /\ ts \in Seq(Ids) /\ DOMAIN ts = 1 .. Len(ts)
      /\ ss \in Seq(Ids) /\ DOMAIN ss = 1 .. Len(ss)
  BY WalkType, SystemsType
<1> HIDE DEF ts, ss
<1>b. T \in Seq({"texture"} \X Ids) /\ S \in Seq({"simple"} \X Ids)
  BY <1>a, DrawsType
<1>1. CASE LoadEntity \/ StartRun
  BY <1>1 DEF LoadEntity, StartRun, Drawn
<1>2. CASE BeginFrame
  BY <1>2 DEF BeginFrame, Drawn
<1>3. CASE Update
  BY <1>3 DEF Update, Drawn
<1>4. CASE RenderTextured
  <2>1. drawn' = drawn \o T /\ drawn = <<>> /\ pc' = "simple" /\ UNCHANGED scene
    BY <1>4, <1>a DEF RenderTextured, Draw, Draws, Drawn, ts
  <2>2. <<>> \o T = T
    <3> HIDE DEF T
    <3> QED BY <1>b
  <2> QED BY <1>0, <2>1, <2>2 DEF Drawn, Draws, ts, ss
<1>5. CASE RenderSimple
  <2>1. drawn' = drawn \o S /\ drawn = T /\ pc' = "billboard" /\ UNCHANGED scene
    BY <1>5, <1>a DEF RenderSimple, Draw, Draws, Drawn, ts, ss
  <2> QED BY <1>0, <2>1 DEF Drawn, Draws, ts, ss
<1>6. CASE RenderBillboards
  <2> DEFINE lights == Sorted(distance')
             B == [n \in DOMAIN lights |-> <<"billboard", lights[n]>>]
  <2>1. drawn' = drawn \o B /\ drawn = T \o S /\ pc' = "end" /\ UNCHANGED scene
    BY <1>6 DEF RenderBillboards, Draw, Drawn, ts, ss
  <2>2. \E c \in Nat : DOMAIN lights = 1 .. c
    <3> DEFINE w == Walk(Lights)
               D == Range(w)
    <3>1. w \in Seq(Ids) /\ Len(w) \in Nat /\ DOMAIN w = 1 .. Len(w)
      BY WalkType, SystemsType
    <3>2. w \in Surjection(1 .. Len(w), D) /\ IsFiniteSet(1 .. Len(w))
      <4> HIDE DEF w
      <4> QED BY <3>1, FS_Interval DEF Range, Surjection
    <3>3. IsFiniteSet(D)
      <4> HIDE DEF w, D
      <4> QED BY <3>2, FS_Surjection
    <3>4. distance' \in [D -> Distances]
      BY <1>6 DEF RenderBillboards
    <3> HIDE DEF D
    <3>5. distance' \in Surjection(D, Range(distance'))
      BY <3>4 DEF Range, Surjection
    <3>6. Cardinality(Range(distance')) \in Nat
      BY <3>3, <3>5, FS_Surjection, FS_CardinalityType
    <3>7. DOMAIN lights = 1 .. Cardinality(Range(distance'))
      BY DEF Sorted
    <3> QED BY <3>6, <3>7
  <2> HIDE DEF lights
  <2>3. B \in Seq({"billboard"} \X Range(lights))
    BY <2>2 DEF Range
  <2> HIDE DEF B
  <2>4. \E X : \E b \in Seq({"billboard"} \X X) : drawn' = T \o S \o b
    BY <2>1, <2>3
  <2> QED BY <1>0, <2>1, <2>4 DEF Drawn, Draws, ts, ss
<1>7. CASE EndFrame \/ LeaveRun
  BY <1>7 DEF EndFrame, LeaveRun, Drawn
<1>8. CASE GpuCompletes \/ UNCHANGED vars
  <2>1. UNCHANGED scene /\ UNCHANGED <<drawn, pc>>
    BY <1>8 DEF GpuCompletes, vars, scene, frame
  <2> QED BY <1>0, <2>1 DEF Drawn, Draws, ts, ss
<1> QED
  BY <1>1, <1>2, <1>3, <1>4, <1>5, <1>6, <1>7, <1>8 DEF Next

(* What an empty scene is like (application.cpp:4-19).                     *)
LEMMA SceneInit == Init => SceneInv
<1> SUFFICES ASSUME Init PROVE SceneInv
  OBVIOUS
<1>1. SceneTypes
  <2>1. 0 \in Ring!Slots /\ 0 \in Ids
    BY SceneAssumption DEF Ring!Slots, Ids
  <2>2. Ring!PacingTypeOK
    BY <2>1 DEF Init, Ring!Init, Ring!PacingTypeOK
  <2>3. DOMAIN entities = {}
    BY DEF Init
  <2>4. commands \in [Ring!Slots -> Commands] /\ ubo \in [Ring!Slots -> Uniforms]
    BY UnrecordedType DEF Init
  <2> QED BY <2>1, <2>2, <2>3, <2>4, SceneAssumption DEF Init, SceneTypes
<1>2. Numbered
  <2>1. Len(created) = 0 /\ DOMAIN entities = {} /\ Len(order) = 0 /\ pc = "load" /\ currentId = 0
    BY DEF Init
  <2> QED BY <2>1 DEF Numbered
<1>3. Bound
  <2>1. pc = "load" /\ \A s \in Ring!Slots : slot[s] = "idle"
    BY DEF Init, Ring!Init
  <2>2. \A s \in Ring!Slots : Len(commands[s].sets) = 0 /\ Len(commands[s].textures) = 0
    BY DEF Init, Unrecorded
  <2> QED BY <2>1, <2>2 DEF Bound, BoundOf, Recorded, InFrame
<1>4. Drawn
  BY DEF Init, Drawn
<1> QED BY <1>1, <1>2, <1>3, <1>4 DEF SceneInv

-----------------------------------------------------------------------------
(* The inductive invariant holds throughout a run, whatever is loaded and however long
   it runs (application.cpp:71-162).                                       *)
THEOREM SceneInvHolds == Spec => []SceneInv
<1>1. SceneInv /\ [Next]_vars => SceneInv'
  BY TypesStep, NumberedStep, BoundStep, DrawnStep DEF SceneInv
<1> QED BY <1>1, SceneInit, PTL DEF Spec

(* Ids, entities and the number of sets in a pool stay in their ranges for every scene
   and every number of frames (entity.hpp:21, descriptors.cpp:90-116).     *)
THEOREM SceneTypesHold == Spec => []SceneTypeOK
<1>1. SceneInv => SceneTypeOK
  BY DEF SceneInv, SceneTypes, SceneTypeOK
<1> QED BY <1>1, SceneInvHolds, PTL

(* Whatever a submitted command buffer refers to, its sets and the uniforms of its own
   frame, stays as it was recorded, for every number of slots, sets and entities and
   whatever the later frames write (application.cpp:121-146,
   texturerendersystem.cpp:47-60).                                         *)
THEOREM SubmittedUnchangedHolds == Spec => []SubmittedUnchanged
<1>1. SceneInv => SubmittedUnchanged
  <2> SUFFICES ASSUME SceneInv, NEW s \in Ring!Slots, slot[s] = "inFlight"
               PROVE  /\ ubo[commands[s].buffer] = commands[s].uniforms
                      /\ \A n \in DOMAIN commands[s].sets :
                            LET set == commands[s].sets[n]
                            IN  set # Uninitialised =>
                                   /\ set[2] \in DOMAIN pool[set[1]]
                                   /\ pool[set[1]][set[2]] = commands[s].textures[n]
    BY DEF SubmittedUnchanged
  <2>1. BoundOf(s) /\ Recorded(s)
    BY DEF SceneInv, Bound, Recorded
  <2>2. DOMAIN commands[s].sets = 1 .. Len(commands[s].sets) /\ DOMAIN pool[s] = 1 .. Len(pool[s])
    BY DEF SceneInv, SceneTypes, Commands
  <2>3. ASSUME NEW n \in 1 .. Len(commands[s].sets), commands[s].sets[n] # Uninitialised
        PROVE  /\ commands[s].sets[n] = <<s, n>> /\ n \in DOMAIN pool[s]
               /\ pool[s][n] = commands[s].textures[n]
    BY <2>1, <2>2, <2>3 DEF BoundOf
  <2> QED BY <2>1, <2>2, <2>3 DEF BoundOf
<1> QED BY <1>1, SceneInvHolds, PTL

(* However long the program runs, a frame finds room for as many textured entities as a
   pool has sets (frameinfo.hpp:53, application.cpp:123).                  *)
THEOREM PoolSufficesHolds == Spec => []PoolSuffices
<1>1. SceneInv => PoolSuffices
  <2> SUFFICES ASSUME SceneInv, NEW s \in Ring!Slots, Len(commands[s].textures) <= MaxSets,
                      NEW n \in DOMAIN commands[s].sets
               PROVE  commands[s].sets[n] # Uninitialised
    BY DEF PoolSuffices, Range
  <2>1. /\ commands[s].sets \in Seq({Uninitialised} \cup Places)
        /\ commands[s].textures \in Seq(Ids)
    BY DEF SceneInv, SceneTypes, Commands
  <2>2. BoundOf(s)
    BY DEF SceneInv, Bound
  <2>3. n \in 1 .. Len(commands[s].sets) /\ n <= MaxSets
    <3>1. Len(commands[s].sets) \in Nat /\ DOMAIN commands[s].sets = 1 .. Len(commands[s].sets)
      BY <2>1
    <3> QED BY <2>2, <3>1, SceneAssumption DEF BoundOf
  <2>4. commands[s].sets[n] = <<s, n>>
    BY <2>2, <2>3 DEF BoundOf
  <2> QED BY <2>4 DEF Uninitialised
<1> QED BY <1>1, SceneInvHolds, PTL

-----------------------------------------------------------------------------
(* d is one sequence after another. *)
Joined(d, a, c) ==
  /\ Len(a) \in Nat /\ Len(c) \in Nat
  /\ Len(d) = Len(a) + Len(c) /\ DOMAIN d = 1 .. (Len(a) + Len(c))
  /\ \A n \in 1 .. Len(a) : d[n] = a[n]
  /\ \A k \in 1 .. Len(c) : d[Len(a) + k] = c[k]

(* Of two groups of draws, the second follows the first (application.cpp:146-158). *)
LEMMA Following ==
  ASSUME NEW Y, NEW a, NEW c, a \in Seq(Y), c \in Seq(Y)
  PROVE  a \o c \in Seq(Y) /\ Joined(a \o c, a, c)
  BY DEF Joined

(* d are the draws of a frame: first the textured entities, then the simple ones, then
   some lights.                                                            *)
DrawsOf(d, ts, ss, lights) ==
  /\ DOMAIN d = 1 .. (Len(ts) + Len(ss) + lights) /\ lights \in Nat
  /\ \A n \in 1 .. Len(ts) : d[n] = <<"texture", ts[n]>>
  /\ \A k \in 1 .. Len(ss) : d[Len(ts) + k] = <<"simple", ss[k]>>
  /\ \A k \in 1 .. lights : d[Len(ts) + Len(ss) + k][1] = "billboard"

(* The three systems draw one after the other (application.cpp:146-158).   *)
LEMMA DrawAt ==
  ASSUME NEW ts, NEW ss, NEW I, ts \in Seq(I), ss \in Seq(I), NEW X, NEW b, b \in Seq({"billboard"} \X X)
  PROVE  DrawsOf(Draws("texture", ts) \o Draws("simple", ss) \o b, ts, ss, Len(b))
<1> DEFINE T == Draws("texture", ts)
           S == Draws("simple", ss)
<1>1. T \in Seq({"texture"} \X I) /\ Len(T) = Len(ts) /\ \A n \in 1 .. Len(ts) : T[n] = <<"texture", ts[n]>>
  BY DrawsType DEF Draws
<1>2. S \in Seq({"simple"} \X I) /\ Len(S) = Len(ss) /\ \A n \in 1 .. Len(ss) : S[n] = <<"simple", ss[n]>>
  BY DrawsType DEF Draws
<1>3. \A n \in 1 .. Len(b) : b[n][1] = "billboard"
  OBVIOUS
<1> HIDE DEF T, S
<1> DEFINE Y == ({"texture"} \X I) \cup ({"simple"} \X I) \cup ({"billboard"} \X X)
<1>4. T \in Seq(Y) /\ S \in Seq(Y) /\ b \in Seq(Y)
  BY <1>1, <1>2
<1> HIDE DEF Y
<1> DEFINE U == T \o S
<1>5. U \in Seq(Y) /\ Joined(U, T, S)
  <2> HIDE DEF Y
  <2> QED BY <1>4, Following
<1> HIDE DEF U
<1>6. Joined(U \o b, U, b)
  <2> HIDE DEF Y
  <2> QED BY <1>4, <1>5, Following
<1> DEFINE d == U \o b
<1> HIDE DEF d
<1> USE DEF Joined
<1>7. \A n \in 1 .. Len(ts) : d[n] = <<"texture", ts[n]>>
  <2> TAKE n \in 1 .. Len(ts)
  <2>1. n \in 1 .. Len(T) /\ n \in 1 .. Len(U)
    BY <1>1, <1>5
  <2>2. d[n] = U[n] /\ U[n] = T[n]
    BY <1>5, <1>6, <2>1 DEF d
  <2> QED BY <1>1, <2>1, <2>2
<1>8. \A k \in 1 .. Len(ss) : d[Len(ts) + k] = <<"simple", ss[k]>>
  <2> TAKE k \in 1 .. Len(ss)
  <2>1. k \in 1 .. Len(S) /\ Len(T) + k \in 1 .. Len(U)
    BY <1>2, <1>5
  <2>2. d[Len(T) + k] = U[Len(T) + k] /\ U[Len(T) + k] = S[k]
    BY <1>5, <1>6, <2>1 DEF d
  <2> QED BY <1>1, <1>2, <2>1, <2>2
<1>9. \A k \in 1 .. Len(b) : d[Len(ts) + Len(ss) + k][1] = "billboard"
  <2> TAKE k \in 1 .. Len(b)
  <2>1. d[Len(U) + k] = b[k] /\ Len(U) = Len(ts) + Len(ss)
    BY <1>1, <1>2, <1>5, <1>6 DEF d
  <2> QED BY <1>3, <2>1
<1>10. DOMAIN d = 1 .. (Len(ts) + Len(ss) + Len(b))
  BY <1>1, <1>2, <1>5, <1>6 DEF d
<1>11. DrawsOf(d, ts, ss, Len(b))
  BY <1>6, <1>7, <1>8, <1>9, <1>10 DEF DrawsOf
<1> QED BY <1>11 DEF d, U, T, S

(* Every entity with a model is drawn exactly once in a frame, by the system for it, for
   every scene of at most as many entities as there are ids (texturerendersystem.cpp:45,
   simplerendersystem.cpp:17, entity.hpp:21).                              *)
THEOREM DrawnOnceHolds == Spec => []DrawnOnce
<1>1. SceneInv => DrawnOnce
  <2> SUFFICES ASSUME SceneInv, pc = "end", Len(created) <= IdCount, NEW e \in DOMAIN created
               PROVE  LET draws == {n \in DOMAIN drawn :
                                      drawn[n][1] # "billboard" /\ entities[drawn[n][2]] = e}
                      IN  IF "MODEL" \in created[e]
                          THEN /\ Cardinality(draws) = 1
                               /\ \A n \in draws : drawn[n][1] =
                                     IF "TEXTURE" \in created[e] THEN "texture" ELSE "simple"
                          ELSE draws = {}
    BY DEF DrawnOnce
  <2> DEFINE ts == Walk(Textured)
             ss == Walk(Simple)
             lt == Len(ts)
             ls == Len(ss)
             id == e - 1
             draws == {n \in DOMAIN drawn : drawn[n][1] # "billboard" /\ entities[drawn[n][2]] = e}
  <2>1. /\ ts \in Seq(Textured) /\ ss \in Seq(Simple) /\ lt \in Nat /\ ls \in Nat
        /\ Visited(ts, lt, order, Len(order), Textured)
        /\ Visited(ss, ls, order, Len(order), Simple)
    BY WalkType, SystemsType DEF SceneInv
  <2>2. /\ \A n \in 1 .. lt : ts[n] \in Textured
        /\ \A n \in 1 .. ls : ss[n] \in Simple
    BY <2>1
  <2>3. /\ id \in DOMAIN entities /\ entities[id] = e
        /\ \A other \in DOMAIN entities : entities[other] = e => other = id
    <3>1. DOMAIN created = 1 .. Len(created) /\ Len(created) \in Nat
      BY DEF SceneInv, SceneTypes
    <3> QED BY <3>1 DEF SceneInv, Numbered
  <2>4. PICK m \in 1 .. Len(order) : order[m] = id
    BY <2>3 DEF SceneInv, Numbered
  <2>5. PICK X : \E b \in Seq({"billboard"} \X X) :
           drawn = Draws("texture", ts) \o Draws("simple", ss) \o b
    BY DEF SceneInv, Drawn
  <2>6. PICK b : /\ b \in Seq({"billboard"} \X X)
                 /\ drawn = Draws("texture", ts) \o Draws("simple", ss) \o b
    BY <2>5
  <2>7. /\ DOMAIN drawn = 1 .. (lt + ls + Len(b)) /\ Len(b) \in Nat
        /\ \A n \in 1 .. lt : drawn[n] = <<"texture", ts[n]>>
        /\ \A k \in 1 .. ls : drawn[lt + k] = <<"simple", ss[k]>>
        /\ \A k \in 1 .. Len(b) : drawn[lt + ls + k][1] = "billboard"
    <3>1. ts \in Seq(Ids) /\ ss \in Seq(Ids)
      BY WalkType, SystemsType DEF SceneInv
    <3>2. DrawsOf(drawn, ts, ss, Len(b))
      <4> HIDE DEF ts, ss
      <4> QED BY <2>6, <3>1, DrawAt
    <3> QED BY <3>2 DEF DrawsOf
  <2> HIDE DEF ts, ss, lt, ls
  <2>8. \A n \in DOMAIN drawn : \/ n \in 1 .. lt
                                \/ \E k \in 1 .. ls : n = lt + k
                                \/ \E k \in 1 .. Len(b) : n = lt + ls + k
    <3> TAKE n \in DOMAIN drawn
    <3>1. CASE n <= lt
      BY <2>1, <2>7, <3>1
    <3>2. CASE lt < n /\ n <= lt + ls
      <4>1. n - lt \in 1 .. ls /\ n = lt + (n - lt)
        BY <2>1, <2>7, <3>2
      <4> QED BY <4>1
    <3>3. CASE lt + ls < n
      <4>1. n - (lt + ls) \in 1 .. Len(b) /\ n = lt + ls + (n - (lt + ls))
        BY <2>1, <2>7, <3>3
      <4> QED BY <4>1
    <3> QED BY <2>1, <2>7, <3>1, <3>2, <3>3
  <2>9. \A n \in draws :
           \/ n \in 1 .. lt /\ ts[n] = id /\ id \in Textured /\ drawn[n][1] = "texture"
           \/ \E k \in 1 .. ls : /\ n = lt + k /\ ss[k] = id /\ id \in Simple
                                 /\ drawn[n][1] = "simple"
    <3> TAKE n \in draws
    <3>1. n \in DOMAIN drawn /\ drawn[n][1] # "billboard" /\ entities[drawn[n][2]] = e
      OBVIOUS
    <3>2. CASE n \in 1 .. lt
      <4>1. drawn[n] = <<"texture", ts[n]>> /\ ts[n] \in Textured
        BY <2>2, <2>7, <3>2
      <4>2. ts[n] = id
        BY <2>3, <3>1, <4>1 DEF Textured
      <4> QED BY <3>2, <4>1, <4>2
    <3>3. ASSUME NEW k \in 1 .. ls, n = lt + k
          PROVE  ss[k] = id /\ id \in Simple /\ drawn[n][1] = "simple"
      <4>1. drawn[n] = <<"simple", ss[k]>> /\ ss[k] \in Simple
        BY <2>2, <2>7, <3>3
      <4>2. ss[k] = id
        BY <2>3, <3>1, <4>1 DEF Simple
      <4> QED BY <4>1, <4>2
    <3>4. ~ \E k \in 1 .. Len(b) : n = lt + ls + k
      BY <2>7, <3>1
    <3> HIDE DEF draws
    <3> QED BY <2>8, <3>1, <3>2, <3>3, <3>4
  <2>10. /\ id \in Textured <=> "MODEL" \in created[e] /\ "TEXTURE" \in created[e]
         /\ id \in Simple <=> "MODEL" \in created[e] /\ "TEXTURE" \notin created[e]
    BY <2>3 DEF Textured, Simple, HasComponent
  <2>11. CASE "MODEL" \notin created[e]
    BY <2>9, <2>10, <2>11
  <2>12. CASE "MODEL" \in created[e] /\ "TEXTURE" \in created[e]
    <3>1. id \in Textured /\ id \notin Simple
      BY <2>10, <2>12
    <3>2. PICK k \in 1 .. lt : ts[k] = id
      BY <2>1, <2>4, <3>1 DEF Visited
    <3>3. k \in draws
      <4>1. drawn[k] = <<"texture", id>> /\ k \in DOMAIN drawn
        BY <2>1, <2>7, <3>2
      <4> QED BY <2>3, <4>1
    <3>4. ASSUME NEW n \in draws PROVE n = k /\ drawn[n][1] = "texture"
      <4> HIDE DEF draws
      <4>1. n \in 1 .. lt /\ ts[n] = id /\ drawn[n][1] = "texture"
        BY <2>9, <3>1
      <4> QED BY <2>1, <3>2, <4>1 DEF Visited
    <3>5. draws = {k}
      <4> HIDE DEF draws
      <4> QED BY <3>3, <3>4
    <3> HIDE DEF draws
    <3>6. Cardinality(draws) = 1
      BY <3>5, FS_Singleton
    <3> QED BY <2>12, <3>4, <3>6 DEF draws
  <2>13. CASE "MODEL" \in created[e] /\ "TEXTURE" \notin created[e]
    <3>1. id \in Simple /\ id \notin Textured
      BY <2>10, <2>13
    <3>2. PICK k \in 1 .. ls : ss[k] = id
      BY <2>1, <2>4, <3>1 DEF Visited
    <3>3. lt + k \in draws
      <4>1. drawn[lt + k] = <<"simple", id>> /\ lt + k \in DOMAIN drawn
        BY <2>1, <2>7, <3>2
      <4> QED BY <2>3, <4>1
    <3>4. ASSUME NEW n \in draws PROVE n = lt + k /\ drawn[n][1] = "simple"
      <4> HIDE DEF draws
      <4>1. (\E j \in 1 .. ls : n = lt + j /\ ss[j] = id) /\ drawn[n][1] = "simple"
        BY <2>9, <3>1
      <4> QED BY <2>1, <3>2, <4>1 DEF Visited
    <3>5. draws = {lt + k}
      <4> HIDE DEF draws
      <4> QED BY <3>3, <3>4
    <3> HIDE DEF draws
    <3>6. Cardinality(draws) = 1
      BY <3>5, FS_Singleton
    <3> QED BY <2>13, <3>4, <3>6 DEF draws
  <2> QED BY <2>11, <2>12, <2>13
<1> QED BY <1>1, SceneInvHolds, PTL

=============================================================================
