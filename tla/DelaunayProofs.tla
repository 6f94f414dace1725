--------------------------- MODULE DelaunayProofs ---------------------------
(***************************************************************************)
(* Type correctness of the triangulation's structures, the lists of        *)
(* triangles around each point, the discipline of the search flags, and    *)
(* what a search returns and how far it is from its end, for every mesh    *)
(* and every sequence of searches.                                         *)
(***************************************************************************)
EXTENDS Delaunay, FiniteSetTheorems, SequenceTheorems, TLAPS

(* What the steps use of a mesh: triangles are 0 .. n - 1, their corners   *)
(* are points, their neighbours triangles or -1.                           *)
LEMMA MeshShape ==
  ASSUME mesh \in Meshes
  PROVE  /\ IsFiniteSet(Triangles) /\ ntriangles \in Nat
         /\ Triangles = 0..(ntriangles - 1) /\ 0 \in Triangles
         /\ \A t \in Triangles, k \in 0..2 :
              /\ mesh.triangles[t][k] \in Vertices
              /\ mesh.neighbours[t][k] \in Triangles \cup {-1}
         /\ mesh.points \in [Vertices -> Point]
         /\ \A t \in Triangles : Range(mesh.triangles[t]) \subseteq Vertices
<1>1. IsMesh(mesh)
  BY DelaunayAssumption
<1>2. /\ IsFiniteSet(Triangles)
      /\ Triangles = 0..(ntriangles - 1)
      /\ Triangles # {}
      /\ mesh.points \in [Vertices -> Point]
      /\ mesh.triangles \in [Triangles -> [0..2 -> Vertices]]
      /\ mesh.neighbours \in [Triangles -> [0..2 -> Triangles \cup {-1}]]
  BY <1>1 DEF IsMesh, Triangles, Vertices, ntriangles
<1>3. ntriangles \in Nat
  BY <1>2, FS_CardinalityType DEF ntriangles
<1>4. 0 \in Triangles
  BY <1>2, <1>3
<1>5. ASSUME NEW t \in Triangles
      PROVE  Range(mesh.triangles[t]) \subseteq Vertices
  <2>1. mesh.triangles[t] \in [0..2 -> Vertices]
    BY <1>2
  <2> QED BY <2>1 DEF Range
<1> QED BY <1>2, <1>3, <1>4, <1>5

-----------------------------------------------------------------------------
LEMMA InitTyped == DelaunayInit => DelaunayTypeOK
<1> SUFFICES ASSUME DelaunayInit PROVE DelaunayTypeOK
  OBVIOUS
<1>1. mesh \in Meshes
  BY DEF DelaunayInit
<1>2. p \in Queries
  BY DelaunayAssumption DEF DelaunayInit
<1>3. points \in [Vertices -> Point] /\ 0 \in Triangles
  BY <1>1, MeshShape DEF DelaunayInit
<1>4. <<>> \in Seq(Triangles)
  OBVIOUS
<1>5. /\ point_triangles \in [Vertices -> Seq(Triangles)]
      /\ t_in \in Seq(Triangles) /\ t_out \in Seq(Triangles) /\ flagids \in Seq(Triangles)
  BY <1>4 DEF DelaunayInit
<1>6. /\ n_point_triangles \in [Vertices -> Nat] /\ room \in [Vertices -> Nat]
      /\ flags \in [Triangles -> {0, 1}]
  BY DEF DelaunayInit
<1>7. pc = "store" /\ tid \in Triangles /\ corner \in 0..3 /\ entry \in Nat /\ first_id = -1
  BY <1>3 DEF DelaunayInit
<1>8. contains \in BOOLEAN
  BY Zenon DEF DelaunayInit
<1> QED BY <1>1, <1>2, <1>3, <1>5, <1>6, <1>7, <1>8 DEF DelaunayTypeOK

(* What a step leaves of the mesh keeps the sets of triangles and points.  *)
LEMMA BeginTyped ==
  ASSUME DelaunayTypeOK, pc # "store", NEW t \in Triangles, Begin(t),
         UNCHANGED <<built, p, tid, corner, entry>>, contains' \in BOOLEAN
  PROVE  DelaunayTypeOK'
<1>1. mesh' = mesh /\ Triangles' = Triangles /\ Vertices' = Vertices
  BY DEF built, Triangles, Vertices
<1>2. /\ t_in' \in Seq(Triangles) /\ t_out' \in Seq(Triangles)
      /\ flagids' \in Seq(Triangles) /\ first_id' \in Triangles
  BY DEF Begin, DelaunayTypeOK
<1>3. flags' \in [Triangles -> {0, 1}]
  BY DEF Begin, DelaunayTypeOK
<1> QED BY <1>1, <1>2, <1>3 DEF Begin, built, lists, DelaunayTypeOK

LEMMA BuildTyped ==
  ASSUME DelaunayTypeOK,
         StoreTriangles \/ CountTriangles \/ AllocateLists \/ FillLists
  PROVE  DelaunayTypeOK'
<1> USE DEF search, local, lists
<1>0. mesh \in Meshes /\ tid \in Triangles /\ mesh' = mesh
  BY DEF DelaunayTypeOK, StoreTriangles, CountTriangles, AllocateLists, FillLists
<1>1. CASE StoreTriangles
  BY <1>1 DEF StoreTriangles, DelaunayTypeOK, Triangles, Vertices
<1>2. CASE CountTriangles
  <2>1. ASSUME NEW v \in Vertices
        PROVE  Cardinality({e \in Triangles \X (0..2) : mesh.triangles[e[1]][e[2]] = v}) \in Nat
    <3>1. IsFiniteSet(Triangles)
      BY <1>0, MeshShape
    <3>2. IsFiniteSet(0..2)
      <4>1. 0 \in Int /\ 2 \in Int
        OBVIOUS
      <4> QED BY <4>1, FS_Interval
    <3>3. IsFiniteSet(Triangles \X (0..2))
      BY <3>1, <3>2, FS_Product
    <3> QED BY <3>3, FS_Subset, FS_CardinalityType
  <2> QED BY <1>2, <2>1 DEF CountTriangles, DelaunayTypeOK, Triangles, Vertices
<1>3. CASE AllocateLists
  BY <1>3 DEF AllocateLists, DelaunayTypeOK, Triangles, Vertices
<1>4. CASE FillLists
  <2>1. tid' \in Triangles
    BY <1>0, <1>4, MeshShape DEF FillLists
  <2>2. point_triangles' \in [Vertices -> Seq(Triangles)]
    BY <1>0, <1>4 DEF FillLists, DelaunayTypeOK
  <2>3. n_point_triangles' \in [Vertices -> Nat]
    BY <1>4 DEF FillLists, DelaunayTypeOK
  <2> QED BY <1>4, <2>1, <2>2, <2>3 DEF FillLists, DelaunayTypeOK, Triangles, Vertices
<1> QED BY <1>1, <1>2, <1>3, <1>4

LEMMA FindTyped ==
  ASSUME DelaunayTypeOK, Find
  PROVE  DelaunayTypeOK'
<1> USE DEF built, search, local, lists
<1>0. mesh \in Meshes /\ mesh' = mesh /\ Triangles' = Triangles /\ Vertices' = Vertices
  BY DEF DelaunayTypeOK, Find, LinearSearch, ReuseSeed, Locate, Walk, Located, SeedFromLast,
         SeedFromAll, NotFound, Pop, PushAround, Return, Triangles, Vertices
<1>m. /\ Triangles = 0..(ntriangles - 1) /\ ntriangles \in Nat /\ 0 \in Triangles
      /\ \A t \in Triangles, k \in 0..2 :
           /\ mesh.triangles[t][k] \in Vertices
           /\ mesh.neighbours[t][k] \in Triangles \cup {-1}
  BY <1>0, MeshShape
<1>1. CASE LinearSearch
  <2>1. tid' \in Triangles
    BY <1>1, <1>m DEF LinearSearch, DelaunayTypeOK
  <2>2. t_out' \in Seq(Triangles)
    BY <1>1 DEF LinearSearch, DelaunayTypeOK
  <2> QED BY <1>0, <1>1, <2>1, <2>2 DEF LinearSearch, DelaunayTypeOK
<1>2. CASE ReuseSeed
  <2>1. first_id \in Triangles
    BY <1>2, <1>m DEF ReuseSeed, SeedOK, DelaunayTypeOK
  <2>2. contains' \in BOOLEAN
    BY <1>2, Zenon DEF ReuseSeed, DelaunayTypeOK
  <2> QED BY <1>2, <2>1, <2>2, BeginTyped DEF ReuseSeed
<1>3. CASE Locate
  <2>1. ASSUME ~(first_id < 0 \/ first_id > ntriangles) PROVE first_id \in Triangles
    BY <2>1, <1>m DEF DelaunayTypeOK
  <2>2. tid' \in Triangles /\ first_id' \in Triangles \cup {-1}
    BY <1>3, <1>m, <2>1 DEF Locate, DelaunayTypeOK
  <2> QED BY <1>0, <1>3, <2>2 DEF Locate, DelaunayTypeOK
<1>4. CASE Walk
  <2>1. PICK k \in 0..2 : IF Across(tid, k) < 0
                         THEN pc' = "missed" /\ first_id' = -1 /\ UNCHANGED tid
                         ELSE tid' = Across(tid, k) /\ UNCHANGED <<pc, first_id>>
    BY <1>4 DEF Walk
  <2>2. (k + 2) % 3 \in 0..2
    OBVIOUS
  <2>3. Across(tid, k) \in Triangles \cup {-1}
    BY <1>m, <2>2 DEF Across, DelaunayTypeOK
  <2>4. tid' \in Triangles /\ first_id' \in Triangles \cup {-1}
    BY <2>1, <2>3 DEF DelaunayTypeOK
  <2> QED BY <1>0, <1>4, <2>1, <2>4 DEF Walk, DelaunayTypeOK
<1>5. CASE Located
  <2>1. tid \in Triangles /\ contains' \in BOOLEAN
    BY <1>5 DEF Located, DelaunayTypeOK
  <2> QED BY <1>5, <2>1, BeginTyped DEF Located
<1>6. CASE SeedFromLast
  <2>1. PICK i1 \in DOMAIN t_out : Begin(t_out[i1])
    BY <1>6 DEF SeedFromLast
  <2>2. t_out[i1] \in Triangles
    BY <2>1 DEF DelaunayTypeOK
  <2>3. contains' \in BOOLEAN
    BY <1>6, Zenon DEF SeedFromLast, DelaunayTypeOK
  <2> QED BY <1>6, <2>1, <2>2, <2>3, BeginTyped DEF SeedFromLast
<1>7. CASE SeedFromAll
  <2>1. PICK t \in Triangles : Begin(t)
    BY <1>7 DEF SeedFromAll
  <2>2. contains' \in BOOLEAN
    BY <1>7, Zenon DEF SeedFromAll, DelaunayTypeOK
  <2> QED BY <1>7, <2>1, <2>2, BeginTyped DEF SeedFromAll
<1>8. CASE NotFound
  BY <1>0, <1>8 DEF NotFound, DelaunayTypeOK
<1>9. CASE Pop
  <2>1. t_in \in Seq(Triangles) /\ t_in # <<>> /\ Len(t_in) \in 1..Len(t_in)
    BY <1>9 DEF Pop, DelaunayTypeOK
  <2>2. t_in[Len(t_in)] \in Triangles /\ SubSeq(t_in, 1, Len(t_in) - 1) \in Seq(Triangles)
    BY <2>1
  <2>3. t_out' \in Seq(Triangles) /\ corner' \in 0..3
    BY <1>9, <2>2 DEF Pop, DelaunayTypeOK
  <2> QED BY <1>0, <1>9, <2>2, <2>3 DEF Pop, DelaunayTypeOK
<1>10. CASE PushAround
  <2> DEFINE around == point_triangles[mesh.triangles[tid][corner]]
             t == around[entry + 1]
  <2>0. corner \in 0..2 /\ entry \in Nat /\ entry < Len(around)
    BY <1>10 DEF PushAround, DelaunayTypeOK
  <2>1. around \in Seq(Triangles)
    <3>1. mesh.triangles[tid][corner] \in Vertices
      BY <1>m, <2>0 DEF DelaunayTypeOK
    <3> QED BY <3>1 DEF DelaunayTypeOK
  <2>2. t \in Triangles
    <3> HIDE DEF around
    <3> QED BY <2>0, <2>1
  <2>3. /\ t_in' \in Seq(Triangles) /\ flagids' \in Seq(Triangles)
        /\ flags' \in [Triangles -> {0, 1}]
    <3>1. \/ t_in' = Append(t_in, t) /\ flags' = [flags EXCEPT ![t] = 1] /\ flagids' = Append(flagids, t)
          \/ UNCHANGED <<t_in, flags, flagids>>
      BY <1>10 DEF PushAround
    <3>2. /\ t_in \in Seq(Triangles) /\ flagids \in Seq(Triangles)
          /\ flags \in [Triangles -> {0, 1}]
      BY DEF DelaunayTypeOK
    <3> HIDE DEF t
    <3>3. CASE UNCHANGED <<t_in, flags, flagids>>
      BY <3>2, <3>3
    <3>4. CASE t_in' = Append(t_in, t) /\ flags' = [flags EXCEPT ![t] = 1] /\ flagids' = Append(flagids, t)
      BY <2>2, <3>2, <3>4
    <3> QED BY <3>1, <3>3, <3>4
  <2>4. entry' \in Nat /\ corner' \in 0..3
    BY <1>10 DEF PushAround, DelaunayTypeOK
  <2> QED BY <1>0, <1>10, <2>3, <2>4 DEF PushAround, DelaunayTypeOK
<1>11. CASE Return
  <2>1. flags' \in [Triangles -> {0, 1}] /\ flagids' \in Seq(Triangles)
    BY <1>11 DEF Return, ResetFlags, DelaunayTypeOK
  <2> QED BY <1>0, <1>11, <2>1 DEF Return, DelaunayTypeOK
<1> QED BY <1>1, <1>2, <1>3, <1>4, <1>5, <1>6, <1>7, <1>8, <1>9, <1>10, <1>11 DEF Find

LEMMA StepTyped == DelaunayTypeOK /\ [DelaunayNext]_vars => DelaunayTypeOK'
<1> SUFFICES ASSUME DelaunayTypeOK, [DelaunayNext]_vars PROVE DelaunayTypeOK'
  OBVIOUS
<1> USE DEF built, search, local, lists
<1>1. CASE StoreTriangles \/ CountTriangles \/ AllocateLists \/ FillLists
  BY <1>1, BuildTyped
<1>2. CASE \E q \in Queries : CirclesFind(q)
  <2>1. PICK q \in Queries : CirclesFind(q)
    BY <1>2
  <2>2. 0 \in Triangles
    BY MeshShape DEF DelaunayTypeOK
  <2>3. t_out' \in Seq(Triangles)
    <3>1. t_out' = <<>> \/ t_out' = t_out
      BY <2>1 DEF CirclesFind
    <3>2. <<>> \in Seq(Triangles)
      OBVIOUS
    <3> QED BY <3>1, <3>2 DEF DelaunayTypeOK
  <2>4. contains' \in BOOLEAN
    BY <2>1, Zenon DEF CirclesFind
  <2> QED BY <2>1, <2>2, <2>3, <2>4 DEF CirclesFind, DelaunayTypeOK, Triangles, Vertices
<1>3. CASE Find
  BY <1>3, FindTyped
<1>4. CASE ReuseArray
  <2>1. points' \in [Vertices -> Point]
    BY <1>4, DelaunayAssumption DEF ReuseArray, DelaunayTypeOK
  <2> QED BY <1>4, <2>1 DEF ReuseArray, DelaunayTypeOK, Triangles, Vertices
<1>5. CASE UNCHANGED vars
  BY <1>5 DEF vars, DelaunayTypeOK, Triangles, Vertices
<1> QED BY <1>1, <1>2, <1>3, <1>4, <1>5 DEF DelaunayNext

(* The structures of a triangulation keep their types; in particular every *)
(* search starts from, and walks to, an existing triangle.                 *)
THEOREM DelaunayTypeCorrect == DelaunaySpec => []DelaunayTypeOK
BY InitTyped, StepTyped, PTL DEF DelaunaySpec

-----------------------------------------------------------------------------
(* What Append does to the entries of a sequence.                          *)
LEMMA AppendEntries ==
  ASSUME NEW S, NEW s \in Seq(S), NEW t \in S
  PROVE  /\ Range(Append(s, t)) = Range(s) \cup {t}
         /\ IsInjective(s) /\ t \notin Range(s) => IsInjective(Append(s, t))
<1> DEFINE a == Append(s, t)
<1>1. /\ DOMAIN s = 1..Len(s) /\ Len(s) \in Nat /\ DOMAIN a = 1..(Len(s) + 1)
      /\ \A i1 \in 1..Len(s) : a[i1] = s[i1]
      /\ a[Len(s) + 1] = t
  OBVIOUS
<1>2. Range(a) = Range(s) \cup {t}
  <2> HIDE DEF a
  <2>1. ASSUME NEW u \in Range(a) PROVE u \in Range(s) \cup {t}
    <3>1. PICK i1 \in 1..(Len(s) + 1) : u = a[i1]
      BY <1>1 DEF Range
    <3>2. i1 \in 1..Len(s) \/ i1 = Len(s) + 1
      BY <1>1, <3>1
    <3> QED BY <1>1, <3>1, <3>2 DEF Range
  <2>2. ASSUME NEW u \in Range(s) PROVE u \in Range(a)
    <3>1. PICK i1 \in 1..Len(s) : u = s[i1]
      BY <1>1 DEF Range
    <3>2. i1 \in 1..(Len(s) + 1)
      BY <1>1
    <3> QED BY <1>1, <3>1, <3>2 DEF Range
  <2>3. t \in Range(a)
    <3>1. Len(s) + 1 \in 1..(Len(s) + 1)
      BY <1>1
    <3> QED BY <1>1, <3>1 DEF Range
  <2> QED BY <2>1, <2>2, <2>3
<1>3. ASSUME IsInjective(s), t \notin Range(s) PROVE IsInjective(a)
  <2> HIDE DEF a
  <2> SUFFICES ASSUME NEW i1 \in 1..(Len(s) + 1), NEW j \in 1..(Len(s) + 1), a[i1] = a[j]
               PROVE  i1 = j
    BY <1>1 DEF IsInjective
  <2>1. \A k \in 1..Len(s) : s[k] # t
    BY <1>1, <1>3 DEF Range
  <2>2. CASE i1 \in 1..Len(s) /\ j \in 1..Len(s)
    BY <1>1, <1>3, <2>2 DEF IsInjective
  <2>3. CASE i1 = Len(s) + 1 /\ j = Len(s) + 1
    BY <2>3
  <2>4. CASE i1 \in 1..Len(s) /\ j = Len(s) + 1
    BY <1>1, <2>1, <2>4
  <2>5. CASE i1 = Len(s) + 1 /\ j \in 1..Len(s)
    BY <1>1, <2>1, <2>5
  <2> QED BY <1>1, <2>2, <2>3, <2>4, <2>5
<1> QED BY <1>2, <1>3

LEMMA NoFlags ==
  ASSUME NEW s, s = <<>>
  PROVE  Range(s) = {} /\ IsInjective(s)
BY DEF Range, IsInjective

LEMMA BeginTracked ==
  ASSUME DelaunayTypeOK, FlagsTracked, pc # "expand", NEW t \in Triangles, Begin(t), mesh' = mesh
  PROVE  FlagsTracked'
<1>1. flagids \in Seq(Triangles) /\ Range(flagids) = {} /\ IsInjective(flagids)
  BY NoFlags DEF FlagsTracked, DelaunayTypeOK
<1>2. Range(flagids') = {t} /\ IsInjective(flagids')
  <2>1. t \notin Range(flagids)
    BY <1>1
  <2>2. /\ Range(Append(flagids, t)) = Range(flagids) \cup {t}
        /\ IsInjective(Append(flagids, t))
    BY <1>1, <2>1, AppendEntries
  <2> QED BY <1>1, <2>2 DEF Begin
<1>3. \A u \in Triangles : flags[u] # 1
  BY <1>1 DEF FlagsTracked
<1>4. \A u \in Triangles : flags'[u] = 1 <=> u \in {t}
  BY <1>3 DEF Begin, DelaunayTypeOK
<1> QED BY <1>2, <1>4 DEF Begin, FlagsTracked, Triangles

LEMMA PushTracked ==
  ASSUME DelaunayTypeOK, FlagsTracked, PushAround, DelaunayTypeOK'
  PROVE  FlagsTracked'
<1> DEFINE t == point_triangles[mesh.triangles[tid][corner]][entry + 1]
<1>1. mesh' = mesh /\ pc' = "expand" /\ Triangles' = Triangles
  BY DEF PushAround, built, Triangles
<1>2. \/ UNCHANGED <<flags, flagids>>
      \/ flags[t] = 0 /\ flags' = [flags EXCEPT ![t] = 1] /\ flagids' = Append(flagids, t)
  BY DEF PushAround
<1>3. t \in Triangles
  <2>1. corner \in 0..2 /\ entry \in Nat /\ tid \in Triangles
        /\ entry < Len(point_triangles[mesh.triangles[tid][corner]])
    BY DEF PushAround, DelaunayTypeOK
  <2>2. mesh.triangles[tid][corner] \in Vertices
    BY <2>1, MeshShape DEF DelaunayTypeOK
  <2>3. point_triangles[mesh.triangles[tid][corner]] \in Seq(Triangles)
    BY <2>2 DEF DelaunayTypeOK
  <2> QED BY <2>1, <2>3
<1> HIDE DEF t
<1>4. CASE UNCHANGED <<flags, flagids>>
  BY <1>1, <1>4 DEF FlagsTracked
<1>5. CASE flags[t] = 0 /\ flags' = [flags EXCEPT ![t] = 1] /\ flagids' = Append(flagids, t)
  <2>1. t \notin Range(flagids)
    BY <1>3, <1>5 DEF FlagsTracked
  <2>2. Range(flagids') = Range(flagids) \cup {t} /\ IsInjective(flagids')
    BY <1>3, <1>5, <2>1, AppendEntries DEF FlagsTracked, DelaunayTypeOK
  <2>3. \A u \in Triangles : flags'[u] = 1 <=> u \in Range(flagids) \cup {t}
    BY <1>3, <1>5 DEF FlagsTracked, DelaunayTypeOK
  <2> QED BY <1>1, <2>2, <2>3 DEF FlagsTracked
<1> QED BY <1>2, <1>4, <1>5

LEMMA StepTracked == DelaunayTypeOK /\ FlagsTracked /\ [DelaunayNext]_vars => FlagsTracked'
<1> SUFFICES ASSUME DelaunayTypeOK, FlagsTracked, [DelaunayNext]_vars PROVE FlagsTracked'
  OBVIOUS
<1>0. DelaunayTypeOK'
  BY StepTyped
<1> USE DEF built, search, local, lists
(* All steps but those of the main cycle and its start leave the flags.    *)
<1>1. ASSUME UNCHANGED <<mesh, flags, flagids>>, pc' = "expand" => pc = "expand",
             pc = "expand" => pc' = "expand"
      PROVE  FlagsTracked'
  BY <1>1 DEF FlagsTracked, Triangles
<1>2. CASE StoreTriangles \/ CountTriangles \/ AllocateLists \/ FillLists
  BY <1>1, <1>2 DEF StoreTriangles, CountTriangles, AllocateLists, FillLists
<1>3. CASE \E q \in Queries : CirclesFind(q)
  BY <1>1, <1>3 DEF CirclesFind
<1>4. CASE LinearSearch \/ Locate \/ Walk \/ NotFound \/ Pop
  BY <1>1, <1>4 DEF LinearSearch, Locate, Walk, NotFound, Pop
<1>5. CASE ReuseSeed
  <2>1. first_id \in Triangles
    BY <1>5, MeshShape DEF ReuseSeed, SeedOK, DelaunayTypeOK
  <2> QED BY <1>5, <2>1, BeginTracked DEF ReuseSeed
<1>6. CASE Located
  BY <1>6, BeginTracked DEF Located, DelaunayTypeOK
<1>7. CASE SeedFromLast
  <2>1. PICK i1 \in DOMAIN t_out : Begin(t_out[i1])
    BY <1>7 DEF SeedFromLast
  <2>2. t_out[i1] \in Triangles
    BY <2>1 DEF DelaunayTypeOK
  <2> QED BY <1>7, <2>1, <2>2, BeginTracked DEF SeedFromLast
<1>8. CASE SeedFromAll
  BY <1>8, BeginTracked DEF SeedFromAll
<1>9. CASE PushAround
  BY <1>0, <1>9, PushTracked
<1>10. CASE Return
  <2>1. mesh' = mesh /\ flagids' = <<>> /\ Range(flagids') = {} /\ IsInjective(flagids')
    BY <1>10, NoFlags DEF Return, ResetFlags
  <2>2. \A t \in Triangles : flags'[t] # 1
    BY <1>10 DEF Return, ResetFlags, FlagsTracked
  <2> QED BY <2>1, <2>2 DEF FlagsTracked, Triangles
<1>11. CASE ReuseArray
  BY <1>1, <1>11 DEF ReuseArray
<1>12. CASE UNCHANGED vars
  BY <1>1, <1>12 DEF vars
<1> QED
  BY <1>2, <1>3, <1>4, <1>5, <1>6, <1>7, <1>8, <1>9, <1>10, <1>11, <1>12 DEF DelaunayNext, Find

(* No search leaves a flag behind, and none puts a triangle on its stack   *)
(* twice.                                                                  *)
THEOREM FlagsAreTracked == DelaunaySpec => []FlagsTracked
<1>1. DelaunayInit => FlagsTracked
  BY NoFlags DEF DelaunayInit, FlagsTracked
<1> QED BY <1>1, InitTyped, StepTyped, StepTracked, PTL DEF DelaunaySpec

-----------------------------------------------------------------------------
(* A sequence without repetitions is as long as the set of its entries is  *)
(* large.                                                                  *)
LEMMA EntriesCounted ==
  ASSUME NEW S, NEW s \in Seq(S), IsInjective(s)
  PROVE  IsFiniteSet(Range(s)) /\ Cardinality(Range(s)) = Len(s)
<1>1. Len(s) \in Nat /\ DOMAIN s = 1..Len(s) /\ s \in [1..Len(s) -> Range(s)]
  BY DEF Range
<1>2. IsFiniteSet(1..Len(s)) /\ Cardinality(1..Len(s)) = Len(s)
  BY <1>1, FS_Interval
<1>3. s \in Surjection(1..Len(s), Range(s)) /\ s \in Injection(1..Len(s), Range(s))
  BY <1>1 DEF Surjection, Injection, IsInjective, Range
<1> QED BY <1>2, <1>3, FS_Surjection

CornersOf(v) == {e \in Triangles \X (0..2) : mesh.triangles[e[1]][e[2]] = v}
Around(v) == {t \in Triangles : v \in Range(mesh.triangles[t])}

(* The three corners of a triangle differ: it turns left.                  *)
LEMMA CornersDiffer ==
  ASSUME mesh \in Meshes, NEW t \in Triangles
  PROVE  IsInjective(mesh.triangles[t])
<1> DEFINE a == mesh.triangles[t][0]
           b == mesh.triangles[t][1]
           c == mesh.triangles[t][2]
<1>1. IsMesh(mesh)
  BY DelaunayAssumption
<1>2. OnRightSide(mesh.points[c], mesh.points[b], mesh.points[a])
  <2>1. Next3(0) = 1 /\ Next3(Next3(0)) = 2 /\ 0 \in 0..2
    BY DEF Next3
  <2> QED BY <1>1, <2>1, Zenon DEF IsMesh, Triangles
<1>3. mesh.triangles[t] \in [0..2 -> Vertices] /\ a \in Vertices /\ b \in Vertices /\ c \in Vertices
  <2>1. mesh.triangles \in [Triangles -> [0..2 -> Vertices]]
    BY <1>1 DEF IsMesh, Triangles, Vertices
  <2> QED BY <2>1
<1>4. mesh.points[a] \in Point /\ mesh.points[b] \in Point /\ mesh.points[c] \in Point
  BY <1>3, MeshShape
<1>5. a # b /\ b # c /\ a # c
  <2> HIDE DEF a, b, c
  <2> DEFINE pa == mesh.points[a]
             pb == mesh.points[b]
             pc1 == mesh.points[c]
  <2>1. /\ pa.x \in Int /\ pa.y \in Int /\ pb.x \in Int /\ pb.y \in Int
        /\ pc1.x \in Int /\ pc1.y \in Int
    BY <1>4 DEF Point
  <2>2. (pa.x - pc1.x) * (pb.y - pc1.y) > (pb.x - pc1.x) * (pa.y - pc1.y)
    BY <1>2 DEF OnRightSide
  <2>3. a # b
    BY <2>1, <2>2
  <2>4. b # c
    BY <2>1, <2>2
  <2>5. a # c
    BY <2>1, <2>2
  <2> QED BY <2>3, <2>4, <2>5
<1> SUFFICES ASSUME NEW i1 \in 0..2, NEW j \in 0..2, mesh.triangles[t][i1] = mesh.triangles[t][j]
             PROVE  i1 = j
  BY <1>3 DEF IsInjective
<1>6. i1 \in {0, 1, 2} /\ j \in {0, 1, 2}
  OBVIOUS
<1> QED BY <1>5, <1>6

(* tio2delaunay's first pass counts corners, which are as many as there    *)
(* are triangles around the point.                                         *)
LEMMA CountsAreRight ==
  ASSUME mesh \in Meshes, NEW v \in Vertices
  PROVE  IsFiniteSet(Around(v)) /\ Cardinality(CornersOf(v)) = Cardinality(Around(v))
<1> DEFINE first == [e \in CornersOf(v) |-> e[1]]
<1>1. IsFiniteSet(CornersOf(v))
  <2>1. IsFiniteSet(0..2)
    <3>1. 0 \in Int /\ 2 \in Int
      OBVIOUS
    <3> QED BY <3>1, FS_Interval
  <2>2. IsFiniteSet(Triangles \X (0..2))
    BY <2>1, MeshShape, FS_Product
  <2> QED BY <2>2, FS_Subset DEF CornersOf
<1>2. mesh.triangles \in [Triangles -> [0..2 -> Vertices]]
  BY DelaunayAssumption DEF IsMesh, Triangles, Vertices
<1>3. first \in [CornersOf(v) -> Around(v)]
  <2> SUFFICES ASSUME NEW e \in CornersOf(v) PROVE e[1] \in Around(v)
    OBVIOUS
  <2>1. e[1] \in Triangles /\ e[2] \in 0..2 /\ mesh.triangles[e[1]][e[2]] = v
    BY DEF CornersOf
  <2> QED BY <1>2, <2>1 DEF Around, Range
<1>4. \A t \in Around(v) : \E e \in CornersOf(v) : first[e] = t
  <2> SUFFICES ASSUME NEW t \in Around(v) PROVE \E e \in CornersOf(v) : e[1] = t
    OBVIOUS
  <2>1. PICK k \in 0..2 : mesh.triangles[t][k] = v
    BY <1>2 DEF Around, Range
  <2>2. <<t, k>> \in CornersOf(v)
    BY <2>1 DEF CornersOf, Around
  <2> QED BY <2>2
<1>5. ASSUME NEW e \in CornersOf(v), NEW f \in CornersOf(v), e[1] = f[1] PROVE e = f
  <2>1. /\ e = <<e[1], e[2]>> /\ f = <<f[1], f[2]>>
        /\ e[1] \in Triangles /\ e[2] \in 0..2 /\ f[2] \in 0..2
        /\ mesh.triangles[e[1]][e[2]] = mesh.triangles[e[1]][f[2]]
    BY <1>5 DEF CornersOf
  <2>2. DOMAIN mesh.triangles[e[1]] = 0..2
    BY <1>2, <2>1
  <2>3. e[2] = f[2]
    BY <2>1, <2>2, CornersDiffer DEF IsInjective
  <2> QED BY <1>5, <2>1, <2>3
<1>6. first \in Surjection(CornersOf(v), Around(v)) /\ first \in Injection(CornersOf(v), Around(v))
  <2>1. \A e, f \in CornersOf(v) : first[e] = first[f] => e = f
    BY <1>5
  <2> HIDE DEF first
  <2> QED BY <1>3, <1>4, <2>1 DEF Surjection, Injection, IsInjective
<1> HIDE DEF first
<1> QED BY <1>1, <1>6, FS_Surjection

-----------------------------------------------------------------------------
(* The lists hold the triangles below k, and the counts go with them.      *)
ListsUpTo(k) ==
  \A v \in Vertices :
    /\ Range(point_triangles[v]) = {t \in Around(v) : t < k}
    /\ IsInjective(point_triangles[v])
    /\ n_point_triangles[v] = Len(point_triangles[v])

(* The two passes of tio2delaunay, at every step; it is inductive.         *)
ListsInv ==
  /\ pc \in {"store", "count", "allocate"} =>
       tid = 0 /\ \A v \in Vertices : point_triangles[v] = <<>>
  /\ pc = "allocate" => \A v \in Vertices : n_point_triangles[v] = Cardinality(CornersOf(v))
  /\ pc = "fill" => ListsUpTo(tid)
  /\ ~Building => ListsUpTo(ntriangles)
  /\ pc \notin {"store", "count", "allocate"} =>
       \A v \in Vertices : room[v] = Cardinality(CornersOf(v))

LEMMA ListsFit == DelaunayTypeOK /\ ListsInv => ListsExact
<1> SUFFICES ASSUME DelaunayTypeOK, ListsInv PROVE ListsExact
  OBVIOUS
<1>0. mesh \in Meshes /\ point_triangles \in [Vertices -> Seq(Triangles)]
  BY DEF DelaunayTypeOK
<1>1. ASSUME pc = "fill", NEW v \in Vertices PROVE n_point_triangles[v] <= room[v]
  <2>1. /\ Range(point_triangles[v]) \subseteq Around(v) /\ IsInjective(point_triangles[v])
        /\ n_point_triangles[v] = Len(point_triangles[v])
        /\ room[v] = Cardinality(CornersOf(v))
    BY <1>1 DEF ListsInv, ListsUpTo
  <2>2. Cardinality(Range(point_triangles[v])) = Len(point_triangles[v])
    BY <1>0, <2>1, EntriesCounted
  <2>3. Cardinality(Range(point_triangles[v])) <= Cardinality(Around(v))
    BY <1>0, <2>1, CountsAreRight, FS_Subset
  <2> QED BY <1>0, <2>1, <2>2, <2>3, CountsAreRight
<1>2. ASSUME ~Building, NEW v \in Vertices
      PROVE  /\ Range(point_triangles[v]) = {t \in Triangles : v \in Range(mesh.triangles[t])}
             /\ IsInjective(point_triangles[v])
             /\ n_point_triangles[v] = Len(point_triangles[v]) /\ room[v] = n_point_triangles[v]
  <2>1. /\ Range(point_triangles[v]) = {t \in Around(v) : t < ntriangles}
        /\ IsInjective(point_triangles[v])
        /\ n_point_triangles[v] = Len(point_triangles[v])
        /\ room[v] = Cardinality(CornersOf(v))
    BY <1>2 DEF ListsInv, ListsUpTo, Building
  <2>2. {t \in Around(v) : t < ntriangles} = Around(v)
    BY <1>0, MeshShape DEF Around
  <2>3. Len(point_triangles[v]) = Cardinality(Around(v))
    BY <1>0, <2>1, <2>2, EntriesCounted
  <2> QED BY <1>0, <2>1, <2>2, <2>3, CountsAreRight DEF Around
<1> QED BY <1>1, <1>2 DEF ListsExact

LEMMA InitLists == DelaunayInit => ListsInv
BY DEF DelaunayInit, ListsInv, Building

(* One triangle more goes into the lists of its corners.                   *)
LEMMA FillGrows ==
  ASSUME DelaunayTypeOK, ListsUpTo(tid), FillLists, NEW k, k = tid + 1
  PROVE  ListsUpTo(k)'
<1>0. /\ mesh' = mesh /\ Vertices' = Vertices /\ mesh \in Meshes /\ tid \in Triangles
      /\ point_triangles \in [Vertices -> Seq(Triangles)]
      /\ \A v \in Vertices : Around(v)' = Around(v)
  BY DEF FillLists, Vertices, DelaunayTypeOK, Around, Triangles
<1> SUFFICES ASSUME NEW v \in Vertices
             PROVE  /\ Range(point_triangles'[v]) = {t \in Around(v) : t < k}
                    /\ IsInjective(point_triangles'[v])
                    /\ n_point_triangles'[v] = Len(point_triangles'[v])
  BY <1>0 DEF ListsUpTo
<1>1. /\ Range(point_triangles[v]) = {t \in Around(v) : t < tid}
      /\ IsInjective(point_triangles[v]) /\ point_triangles[v] \in Seq(Triangles)
      /\ n_point_triangles[v] = Len(point_triangles[v])
  BY <1>0 DEF ListsUpTo
<1>2. /\ Around(v) \subseteq Triangles /\ Triangles \subseteq Int
      /\ v \in Range(mesh.triangles[tid]) <=> tid \in Around(v)
  BY <1>0, MeshShape DEF Around
<1>3. CASE v \in Range(mesh.triangles[tid])
  <2>1. /\ point_triangles'[v] = Append(point_triangles[v], tid)
        /\ n_point_triangles'[v] = n_point_triangles[v] + 1
    BY <1>3 DEF FillLists
  <2>2. tid \notin Range(point_triangles[v])
    BY <1>0, <1>1, <1>2
  <2>3. /\ Range(point_triangles'[v]) = Range(point_triangles[v]) \cup {tid}
        /\ IsInjective(point_triangles'[v])
    BY <1>0, <1>1, <2>1, <2>2, AppendEntries
  <2>4. {t \in Around(v) : t < k} = {t \in Around(v) : t < tid} \cup {tid}
    BY <1>0, <1>2, <1>3
  <2>5. Len(Append(point_triangles[v], tid)) = Len(point_triangles[v]) + 1
    BY <1>0, <1>1
  <2> QED BY <1>1, <2>1, <2>3, <2>4, <2>5
<1>4. CASE v \notin Range(mesh.triangles[tid])
  <2>1. /\ point_triangles'[v] = point_triangles[v]
        /\ n_point_triangles'[v] = n_point_triangles[v]
    BY <1>4 DEF FillLists
  <2>2. {t \in Around(v) : t < k} = {t \in Around(v) : t < tid}
    BY <1>0, <1>2, <1>4
  <2> QED BY <1>1, <2>1, <2>2
<1> QED BY <1>3, <1>4

(* Nothing is done to the lists and what they are lists of.                *)
LEMMA ListsStay ==
  ASSUME ListsInv, UNCHANGED <<mesh, lists>>, ~Building, ~Building'
  PROVE  ListsInv'
<1>1. /\ Triangles' = Triangles /\ Vertices' = Vertices
      /\ ntriangles' = ntriangles
      /\ \A v \in Vertices : Around(v)' = Around(v) /\ CornersOf(v)' = CornersOf(v)
  BY DEF Triangles, Vertices, ntriangles, Around, CornersOf
<1>2. ListsUpTo(ntriangles)'
  BY <1>1 DEF ListsInv, ListsUpTo, lists
<1>3. pc' \notin {"store", "count", "allocate", "fill"}
  BY DEF Building
<1>4. \A v \in Vertices' : room'[v] = Cardinality(CornersOf(v)')
  <2>1. \A v \in Vertices : room[v] = Cardinality(CornersOf(v))
    BY DEF ListsInv, Building
  <2> QED BY <1>1, <2>1 DEF lists
<1> QED BY <1>2, <1>3, <1>4 DEF ListsInv, Building

LEMMA StepLists == DelaunayTypeOK /\ ListsInv /\ [DelaunayNext]_vars => ListsInv'
<1> SUFFICES ASSUME DelaunayTypeOK, ListsInv, [DelaunayNext]_vars PROVE ListsInv'
  OBVIOUS
<1>0. mesh \in Meshes /\ mesh' = mesh
  BY DEF DelaunayTypeOK, DelaunayNext, StoreTriangles, CountTriangles, AllocateLists, FillLists,
         CirclesFind, Find, LinearSearch, ReuseSeed, Locate, Walk, Located, SeedFromLast,
         SeedFromAll, NotFound, Pop, PushAround, Return, ReuseArray, built, vars
<1>s. /\ Triangles' = Triangles /\ Vertices' = Vertices /\ ntriangles' = ntriangles
      /\ \A v \in Vertices : Around(v)' = Around(v) /\ CornersOf(v)' = CornersOf(v)
  BY <1>0 DEF Triangles, Vertices, ntriangles, Around, CornersOf
<1>1. CASE StoreTriangles
  BY <1>1, <1>s DEF StoreTriangles, ListsInv, Building, lists, local
<1>2. CASE CountTriangles
  <2>1. /\ pc = "count" /\ pc' = "allocate" /\ UNCHANGED <<point_triangles, tid>>
        /\ \A v \in Vertices : n_point_triangles'[v] = Cardinality(CornersOf(v))
    BY <1>2 DEF CountTriangles, CornersOf, local
  <2> QED BY <1>s, <2>1 DEF ListsInv, Building
<1>3. CASE AllocateLists
  <2>1. /\ pc = "allocate" /\ pc' = "fill" /\ UNCHANGED <<point_triangles, tid>>
        /\ room' = n_point_triangles /\ \A v \in Vertices : n_point_triangles'[v] = 0
    BY <1>3 DEF AllocateLists, local
  <2>2. /\ tid = 0 /\ \A v \in Vertices : point_triangles[v] = <<>>
        /\ \A v \in Vertices : n_point_triangles[v] = Cardinality(CornersOf(v))
    BY <2>1 DEF ListsInv
  <2>3. \A v \in Vertices : {t \in Around(v) : t < 0} = {}
    <3>1. \A v \in Vertices : Around(v) \subseteq Nat
      BY <1>0, MeshShape DEF Around
    <3> QED BY <3>1
  <2>4. Len(<<>>) = 0
    OBVIOUS
  <2>5. ListsUpTo(tid)'
    BY <1>s, <2>1, <2>2, <2>3, <2>4, NoFlags DEF ListsUpTo
  <2> QED BY <1>s, <2>1, <2>2, <2>5 DEF ListsInv, Building
<1>4. CASE FillLists
  <2>1. /\ pc = "fill" /\ room' = room /\ tid \in Triangles
        /\ \/ pc' = "ready" /\ tid + 1 = ntriangles
           \/ pc' = "fill" /\ tid' = tid + 1
    BY <1>4 DEF FillLists, DelaunayTypeOK
  <2>2. PICK k : k = tid + 1
    OBVIOUS
  <2>3. ListsUpTo(k)'
    BY <1>4, <2>1, <2>2, FillGrows DEF ListsInv
  <2>4. pc' = "fill" => ListsUpTo(tid)'
    BY <2>1, <2>2, <2>3 DEF ListsUpTo
  <2>5. pc' = "ready" => ListsUpTo(ntriangles)'
    BY <1>s, <2>1, <2>2, <2>3 DEF ListsUpTo
  <2>6. \A v \in Vertices : room'[v] = Cardinality(CornersOf(v))
    BY <2>1 DEF ListsInv
  <2> QED BY <1>s, <2>1, <2>4, <2>5, <2>6 DEF ListsInv, Building
<1>5. CASE (\E q \in Queries : CirclesFind(q)) \/ Find \/ ReuseArray
  <2>1. ~Building /\ ~Building'
    BY <1>5 DEF CirclesFind, Find, LinearSearch, ReuseSeed, Locate, Walk, Located, SeedFromLast,
                SeedFromAll, NotFound, Pop, PushAround, Return, ReuseArray, Begin, Building, local
  <2>2. UNCHANGED <<mesh, lists>>
    BY <1>5 DEF CirclesFind, Find, LinearSearch, ReuseSeed, Locate, Walk, Located, SeedFromLast,
                SeedFromAll, NotFound, Pop, PushAround, Return, ReuseArray, built
  <2> QED BY <2>1, <2>2, ListsStay
<1>6. CASE UNCHANGED vars
  BY <1>6, <1>s DEF vars, lists, local, ListsInv, ListsUpTo, Building
<1> QED BY <1>1, <1>2, <1>3, <1>4, <1>5, <1>6 DEF DelaunayNext

(* tio2delaunay writes no list beyond what it has allocated for it, and in *)
(* the end each point's list names exactly the triangles around it.        *)
THEOREM ListsAreExact == DelaunaySpec => []ListsExact
BY InitTyped, StepTyped, InitLists, StepLists, ListsFit, PTL DEF DelaunaySpec

-----------------------------------------------------------------------------
(* Plane geometry, in integers: a point of a triangle is a mean of the     *)
(* corners, weighted by the areas it spans with the sides.                 *)
Weighted(q, a, b, c, u, v, w) ==
  /\ (u + v + w) * q.x = u * a.x + v * b.x + w * c.x
  /\ (u + v + w) * q.y = u * a.y + v * b.y + w * c.y

LEMMA WeightsOfCorners ==
  ASSUME NEW a \in Point, NEW b \in Point, NEW c \in Point, NEW q \in Point,
         OnRightSide(c, b, a),
         ~OnRightSide(q, a, b), ~OnRightSide(q, b, c), ~OnRightSide(q, c, a)
  PROVE  \E u, v, w \in Nat : u + v + w > 0 /\ Weighted(q, a, b, c, u, v, w)
<1> DEFINE u == (b.x - q.x) * (c.y - q.y) - (c.x - q.x) * (b.y - q.y)
           v == (c.x - q.x) * (a.y - q.y) - (a.x - q.x) * (c.y - q.y)
           w == (a.x - q.x) * (b.y - q.y) - (b.x - q.x) * (a.y - q.y)
<1>1. /\ a.x \in Int /\ a.y \in Int /\ b.x \in Int /\ b.y \in Int
      /\ c.x \in Int /\ c.y \in Int /\ q.x \in Int /\ q.y \in Int
  BY DEF Point
<1>2. u \in Nat /\ v \in Nat /\ w \in Nat
  BY <1>1 DEF OnRightSide
<1>3. u + v + w = (a.x - c.x) * (b.y - c.y) - (b.x - c.x) * (a.y - c.y)
  BY <1>1
<1>4. u + v + w > 0
  BY <1>1, <1>3 DEF OnRightSide
<1>5. Weighted(q, a, b, c, u, v, w)
  BY <1>1 DEF Weighted
<1> QED BY <1>2, <1>4, <1>5

(* A mean of numbers is not below all of them, nor above.                  *)
LEMMA MeanBounded ==
  ASSUME NEW u \in Nat, NEW v \in Nat, NEW w \in Nat, u + v + w > 0,
         NEW r \in Int, NEW a \in Int, NEW b \in Int, NEW c \in Int,
         (u + v + w) * r = u * a + v * b + w * c,
         a <= 0, b <= 0, c <= 0
  PROVE  r <= 0
<1>1. u * a <= 0 /\ v * b <= 0 /\ w * c <= 0
  OBVIOUS
<1>2. (u + v + w) * r <= 0
  BY <1>1
<1>3. PICK d \in Int : d = u + v + w
  OBVIOUS
<1>4. d * r <= 0 /\ d > 0
  BY <1>2, <1>3
<1> QED BY <1>4

(* A triangle on one side of a line has no point on the other.             *)
LEMMA TriangleOnOneSide ==
  ASSUME NEW a \in Point, NEW b \in Point, NEW c \in Point, NEW q \in Point,
         NEW u \in Nat, NEW v \in Nat, NEW w \in Nat, u + v + w > 0,
         Weighted(q, a, b, c, u, v, w),
         NEW p0 \in Point, NEW p1 \in Point,
         ~OnRightSide(a, p0, p1), ~OnRightSide(b, p0, p1), ~OnRightSide(c, p0, p1)
  PROVE  ~OnRightSide(q, p0, p1)
<1> DEFINE m == p1.y - p0.y
           n1 == p0.x - p1.x
           k == p1.x * p0.y - p0.x * p1.y
           side(z) == m * z.x + n1 * z.y + k
<1>1. /\ a.x \in Int /\ a.y \in Int /\ b.x \in Int /\ b.y \in Int
      /\ c.x \in Int /\ c.y \in Int /\ q.x \in Int /\ q.y \in Int
      /\ p0.x \in Int /\ p0.y \in Int /\ p1.x \in Int /\ p1.y \in Int
  BY DEF Point
<1>2. m \in Int /\ n1 \in Int /\ k \in Int
  BY <1>1
<1>3. \A z \in Point : side(z) \in Int /\ (OnRightSide(z, p0, p1) <=> side(z) > 0)
  <2> SUFFICES ASSUME NEW z \in Point PROVE side(z) \in Int /\ (OnRightSide(z, p0, p1) <=> side(z) > 0)
    OBVIOUS
  <2>1. z.x \in Int /\ z.y \in Int
    BY DEF Point
  <2>2. side(z) = (p1.x - z.x) * (p0.y - z.y) - (p0.x - z.x) * (p1.y - z.y)
    BY <1>1, <2>1
  <2> QED BY <1>1, <2>1, <2>2 DEF OnRightSide
<1>4. (u + v + w) * side(q) = u * side(a) + v * side(b) + w * side(c)
  <2> HIDE DEF m, n1, k
  <2>1. (u + v + w) * side(q)
          = m * ((u + v + w) * q.x) + n1 * ((u + v + w) * q.y) + (u + v + w) * k
    BY <1>1, <1>2
  <2>2. u * side(a) + v * side(b) + w * side(c)
          = m * (u * a.x + v * b.x + w * c.x) + n1 * (u * a.y + v * b.y + w * c.y) + (u + v + w) * k
    BY <1>1, <1>2
  <2> QED BY <2>1, <2>2 DEF Weighted
<1> HIDE DEF side
<1>5. side(a) <= 0 /\ side(b) <= 0 /\ side(c) <= 0
  BY <1>3
<1>6. side(q) <= 0
  BY <1>3, <1>4, <1>5, MeanBounded
<1> QED BY <1>3, <1>6

(* A triangle lies in its circle: the excess is convex and 0 at corners.   *)
LEMMA TriangleInCircle ==
  ASSUME NEW a \in Point, NEW b \in Point, NEW c \in Point, NEW q \in Point,
         OnRightSide(c, b, a),
         NEW u \in Nat, NEW v \in Nat, NEW w \in Nat, u + v + w > 0,
         Weighted(q, a, b, c, u, v, w)
  PROVE  Excess(Circle(a, b, c), q) \in Int /\ Excess(Circle(a, b, c), q) <= 0
<1>1. /\ a.x \in Int /\ a.y \in Int /\ b.x \in Int /\ b.y \in Int
      /\ c.x \in Int /\ c.y \in Int /\ q.x \in Int /\ q.y \in Int
  BY DEF Point
<1>2. /\ b.x - a.x \in Int /\ b.y - a.y \in Int /\ c.x - a.x \in Int /\ c.y - a.y \in Int
      /\ q.x - a.x \in Int /\ q.y - a.y \in Int
  BY <1>1
<1>x. PICK x2 \in Int, y2 \in Int : x2 = b.x - a.x /\ y2 = b.y - a.y
  BY <1>2
<1>y. PICK x3 \in Int, y3 \in Int : x3 = c.x - a.x /\ y3 = c.y - a.y
  BY <1>2
<1>z. PICK x \in Int, y \in Int : x = q.x - a.x /\ y = q.y - a.y
  BY <1>2
<1>3. PICK d \in Int, f \in Int, s \in Int :
        d = x2 * y3 - y2 * x3 /\ f = x2 * (x2 - x3) + y2 * (y2 - y3) /\ s = u + v + w
  OBVIOUS
<1>4. d > 0
  <2>1. (a.x - c.x) * (b.y - c.y) > (b.x - c.x) * (a.y - c.y)
    BY DEF OnRightSide
  <2>2. d = (a.x - c.x) * (b.y - c.y) - (b.x - c.x) * (a.y - c.y)
    BY <1>1, <1>x, <1>y, <1>3
  <2> QED BY <1>1, <2>1, <2>2
<1>5. s * x = v * x2 + w * x3 /\ s * y = v * y2 + w * y3
  <2>1. /\ s * (q.x - a.x) = (u + v + w) * q.x - (u + v + w) * a.x
        /\ s * (q.y - a.y) = (u + v + w) * q.y - (u + v + w) * a.y
    BY <1>1, <1>3
  <2>2. /\ v * (b.x - a.x) + w * (c.x - a.x) = u * a.x + v * b.x + w * c.x - (u + v + w) * a.x
        /\ v * (b.y - a.y) + w * (c.y - a.y) = u * a.y + v * b.y + w * c.y - (u + v + w) * a.y
    BY <1>1
  <2>3. /\ s * (q.x - a.x) = v * (b.x - a.x) + w * (c.x - a.x)
        /\ s * (q.y - a.y) = v * (b.y - a.y) + w * (c.y - a.y)
    BY <1>1, <2>1, <2>2 DEF Weighted
  <2> QED BY <1>x, <1>y, <1>z, <2>3
<1> DEFINE e == d * (x * x + y * y) - (x * (x3 * d + f * y3) + y * (y3 * d - f * x3))
<1>6. Excess(Circle(a, b, c), q) = e
  BY <1>1, <1>x, <1>y, <1>z, <1>3 DEF Excess, Circle
<1>7. e \in Int
  OBVIOUS
<1>8. s * e = d * (s * (x * x + y * y) - v * (x2 * x2 + y2 * y2) - w * (x3 * x3 + y3 * y3))
  <2>1. s * e = d * s * (x * x + y * y)
                  - ((s * x) * (x3 * d + f * y3) + (s * y) * (y3 * d - f * x3))
    OBVIOUS
  <2>2. (s * x) * (x3 * d + f * y3) + (s * y) * (y3 * d - f * x3)
          = v * (x2 * (x3 * d + f * y3) + y2 * (y3 * d - f * x3))
              + w * (x3 * (x3 * d + f * y3) + y3 * (y3 * d - f * x3))
    BY <1>5
  <2>3. x2 * (x3 * d + f * y3) + y2 * (y3 * d - f * x3) = d * (x2 * x2 + y2 * y2)
    BY <1>3
  <2>4. x3 * (x3 * d + f * y3) + y3 * (y3 * d - f * x3) = d * (x3 * x3 + y3 * y3)
    OBVIOUS
  <2>5. s * e = d * s * (x * x + y * y) - (v * (d * (x2 * x2 + y2 * y2)) + w * (d * (x3 * x3 + y3 * y3)))
    BY <2>1, <2>2, <2>3, <2>4
  <2>6. d * s * (x * x + y * y) - (v * (d * (x2 * x2 + y2 * y2)) + w * (d * (x3 * x3 + y3 * y3)))
          = d * (s * (x * x + y * y) - v * (x2 * x2 + y2 * y2) - w * (x3 * x3 + y3 * y3))
    OBVIOUS
  <2> QED BY <2>5, <2>6
<1> DEFINE r == u * (x * x + y * y) + v * ((x - x2) * (x - x2) + (y - y2) * (y - y2))
                  + w * ((x - x3) * (x - x3) + (y - y3) * (y - y3))
<1>9. s * (x * x + y * y) - v * (x2 * x2 + y2 * y2) - w * (x3 * x3 + y3 * y3) = -r
  <2>1. r = (u + v + w) * (x * x + y * y) - 2 * x * (v * x2 + w * x3) - 2 * y * (v * y2 + w * y3)
              + v * (x2 * x2 + y2 * y2) + w * (x3 * x3 + y3 * y3)
    OBVIOUS
  <2>2. 2 * x * (v * x2 + w * x3) = 2 * s * x * x /\ 2 * y * (v * y2 + w * y3) = 2 * s * y * y
    BY <1>5
  <2> QED BY <1>3, <2>1, <2>2
<1>10. r \in Int /\ r >= 0
  <2>1. \A i1 \in Int : i1 * i1 \in Nat
    OBVIOUS
  <2>2. \A g \in Nat, i1, j \in Int : g * (i1 * i1 + j * j) \in Nat
    BY <2>1
  <2>3. x - x2 \in Int /\ y - y2 \in Int /\ x - x3 \in Int /\ y - y3 \in Int
    BY <1>2
  <2> QED BY <2>2, <2>3
<1> HIDE DEF e, r
<1>11. s * e <= 0 /\ s > 0
  <2>1. s * e = d * (-r)
    BY <1>8, <1>9
  <2>2. d * (-r) <= 0
    BY <1>3, <1>4, <1>10
  <2> QED BY <1>3, <2>1, <2>2
<1>12. e <= 0
  BY <1>3, <1>7, <1>11
<1> QED BY <1>6, <1>7, <1>12

Place(t, k) == mesh.points[mesh.triangles[t][k]]

LEMMA PointsOfTriangle ==
  ASSUME mesh \in Meshes, NEW t \in Triangles
  PROVE  /\ \A k \in 0..2 : Place(t, k) \in Point
         /\ OnRightSide(Place(t, 2), Place(t, 1), Place(t, 0))
<1>1. \A k \in 0..2 : Place(t, k) \in Point
  BY MeshShape DEF Place
<1>2. Next3(0) = 1 /\ Next3(Next3(0)) = 2 /\ 0 \in 0..2
  BY DEF Next3
<1>3. IsMesh(mesh)
  BY DelaunayAssumption
<1>4. OnRightSide(Place(t, 2), Place(t, 1), Place(t, 0))
  BY <1>2, <1>3, Zenon DEF IsMesh, Triangles, Place
<1> QED BY <1>1, <1>4

LEMMA WeightsInTriangle ==
  ASSUME mesh \in Meshes, NEW t \in Triangles, NEW q \in Point, InTriangle(t, q)
  PROVE  \E u, v, w \in Nat :
           u + v + w > 0 /\ Weighted(q, Place(t, 0), Place(t, 1), Place(t, 2), u, v, w)
<1>1. Next3(0) = 1 /\ Next3(1) = 2 /\ Next3(2) = 0 /\ 0 \in 0..2 /\ 1 \in 0..2 /\ 2 \in 0..2
  BY DEF Next3
<1>2. \A k \in 0..2 : ~OnRightSide(q, Place(t, k), Place(t, Next3(k)))
  BY DEF InTriangle, Place
<1>3. /\ ~OnRightSide(q, Place(t, 0), Place(t, 1)) /\ ~OnRightSide(q, Place(t, 1), Place(t, 2))
      /\ ~OnRightSide(q, Place(t, 2), Place(t, 0))
  BY <1>1, <1>2
<1>4. Place(t, 0) \in Point /\ Place(t, 1) \in Point /\ Place(t, 2) \in Point
  BY <1>1, PointsOfTriangle
<1> QED BY <1>3, <1>4, PointsOfTriangle, WeightsOfCorners

LEMMA TriangleInItsCircle ==
  ASSUME mesh \in Meshes, NEW t \in Triangles, NEW q \in Point, InTriangle(t, q)
  PROVE  Excess(CircleOf(mesh, t), q) <= 0
<1>1. CircleOf(mesh, t) = Circle(Place(t, 0), Place(t, 1), Place(t, 2))
  BY DEF CircleOf, Place
<1>2. PICK u \in Nat, v \in Nat, w \in Nat :
        u + v + w > 0 /\ Weighted(q, Place(t, 0), Place(t, 1), Place(t, 2), u, v, w)
  BY WeightsInTriangle
<1>3. Place(t, 0) \in Point /\ Place(t, 1) \in Point /\ Place(t, 2) \in Point
  BY PointsOfTriangle
<1> QED BY <1>1, <1>2, <1>3, PointsOfTriangle, TriangleInCircle

(* The side the walk leaves the mesh by has all of the mesh on its left.   *)
LEMMA BeyondTheHull ==
  ASSUME mesh \in Meshes, NEW q \in Point, NEW t \in Triangles, NEW k \in 0..2,
         OnRightSide(q, Place(t, k), Place(t, Next3(k))), mesh.neighbours[t][(k + 2) % 3] = -1
  PROVE  ~InHull(q)
<1>1. /\ (k + 2) % 3 \in 0..2 /\ Next3((k + 2) % 3) = k /\ Next3(Next3((k + 2) % 3)) = Next3(k)
      /\ Next3(k) \in 0..2
  BY DEF Next3
<1>2. IsMesh(mesh)
  BY DelaunayAssumption
<1>3. \A v \in Vertices : ~OnRightSide(mesh.points[v], Place(t, k), Place(t, Next3(k)))
  <2>1. \A l \in 0..2 : mesh.neighbours[t][l] = -1 =>
          \A v \in DOMAIN mesh.points :
            ~OnRightSide(mesh.points[v], mesh.points[mesh.triangles[t][Next3(l)]],
                         mesh.points[mesh.triangles[t][Next3(Next3(l))]])
    BY <1>2 DEF IsMesh, Triangles
  <2> QED BY <1>1, <2>1 DEF Place, Vertices
<1>4. ASSUME NEW s \in Triangles, InTriangle(s, q) PROVE FALSE
  <2>1. PICK u \in Nat, v \in Nat, w \in Nat :
          u + v + w > 0 /\ Weighted(q, Place(s, 0), Place(s, 1), Place(s, 2), u, v, w)
    BY <1>4, WeightsInTriangle
  <2>2. /\ \A l \in 0..2 : Place(s, l) \in Point
        /\ Place(t, k) \in Point /\ Place(t, Next3(k)) \in Point
    BY <1>1, PointsOfTriangle
  <2>3. \A l \in 0..2 : ~OnRightSide(Place(s, l), Place(t, k), Place(t, Next3(k)))
    BY <1>3, MeshShape DEF Place
  <2>4. 0 \in 0..2 /\ 1 \in 0..2 /\ 2 \in 0..2
    OBVIOUS
  <2>5. /\ ~OnRightSide(Place(s, 0), Place(t, k), Place(t, Next3(k)))
        /\ ~OnRightSide(Place(s, 1), Place(t, k), Place(t, Next3(k)))
        /\ ~OnRightSide(Place(s, 2), Place(t, k), Place(t, Next3(k)))
    BY <2>3, <2>4
  <2>6. /\ Place(s, 0) \in Point /\ Place(s, 1) \in Point /\ Place(s, 2) \in Point
        /\ Place(t, k) \in Point /\ Place(t, Next3(k)) \in Point
    BY <2>2, <2>4
  <2>7. ~OnRightSide(q, Place(t, k), Place(t, Next3(k)))
    BY <2>1, <2>5, <2>6, TriangleOnOneSide, ZenonT(40)
  <2> QED BY <2>7
<1> QED BY <1>4 DEF InHull

LEMMA MeanBetween ==
  ASSUME NEW u \in Nat, NEW v \in Nat, NEW w \in Nat, u + v + w > 0,
         NEW r \in Int, NEW a \in Int, NEW b \in Int, NEW c \in Int,
         (u + v + w) * r = u * a + v * b + w * c
  PROVE  (a <= r \/ b <= r \/ c <= r) /\ (a >= r \/ b >= r \/ c >= r)
<1>1. (u + v + w) * 1 = u * (r + 1 - a) + v * (r + 1 - b) + w * (r + 1 - c)
  OBVIOUS
<1>2. (u + v + w) * 1 = u * (a + 1 - r) + v * (b + 1 - r) + w * (c + 1 - r)
  OBVIOUS
<1>3. ASSUME a > r, b > r, c > r PROVE FALSE
  <2>1. r + 1 - a <= 0 /\ r + 1 - b <= 0 /\ r + 1 - c <= 0
    BY <1>3
  <2>2. r + 1 - a \in Int /\ r + 1 - b \in Int /\ r + 1 - c \in Int /\ 1 \in Int
    OBVIOUS
  <2>3. 1 <= 0
    BY <1>1, <2>1, <2>2, MeanBounded
  <2> QED BY <2>3
<1>4. ASSUME a < r, b < r, c < r PROVE FALSE
  <2>1. a + 1 - r <= 0 /\ b + 1 - r <= 0 /\ c + 1 - r <= 0
    BY <1>4
  <2>2. a + 1 - r \in Int /\ b + 1 - r \in Int /\ c + 1 - r \in Int /\ 1 \in Int
    OBVIOUS
  <2>3. 1 <= 0
    BY <1>2, <2>1, <2>2, MeanBounded
  <2> QED BY <2>3
<1> QED BY <1>3, <1>4

LEMMA HullInBox ==
  ASSUME mesh \in Meshes, p \in Point, InHull(p)
  PROVE  InBox
<1>1. PICK t \in Triangles : InTriangle(t, p)
  BY DEF InHull
<1>2. PICK u \in Nat, v \in Nat, w \in Nat :
        u + v + w > 0 /\ Weighted(p, Place(t, 0), Place(t, 1), Place(t, 2), u, v, w)
  BY <1>1, WeightsInTriangle
<1>3. 0 \in 0..2 /\ 1 \in 0..2 /\ 2 \in 0..2
  OBVIOUS
<1>4. /\ p.x \in Int /\ p.y \in Int
      /\ \A k \in 0..2 : Place(t, k).x \in Int /\ Place(t, k).y \in Int
  BY PointsOfTriangle DEF Point
<1>5. /\ (u + v + w) * p.x = u * Place(t, 0).x + v * Place(t, 1).x + w * Place(t, 2).x
      /\ (u + v + w) * p.y = u * Place(t, 0).y + v * Place(t, 1).y + w * Place(t, 2).y
  BY <1>2 DEF Weighted
<1>6. \E k, l \in 0..2 : Place(t, k).x <= p.x /\ p.x <= Place(t, l).x
  <2>1. /\ Place(t, 0).x <= p.x \/ Place(t, 1).x <= p.x \/ Place(t, 2).x <= p.x
        /\ Place(t, 0).x >= p.x \/ Place(t, 1).x >= p.x \/ Place(t, 2).x >= p.x
    BY <1>2, <1>3, <1>4, <1>5, MeanBetween
  <2> QED BY <1>3, <1>4, <2>1
<1>7. \E k, l \in 0..2 : Place(t, k).y <= p.y /\ p.y <= Place(t, l).y
  <2>1. /\ Place(t, 0).y <= p.y \/ Place(t, 1).y <= p.y \/ Place(t, 2).y <= p.y
        /\ Place(t, 0).y >= p.y \/ Place(t, 1).y >= p.y \/ Place(t, 2).y >= p.y
    BY <1>2, <1>3, <1>4, <1>5, MeanBetween
  <2> QED BY <1>3, <1>4, <2>1
<1>8. \A k \in 0..2 : mesh.triangles[t][k] \in Vertices
  BY MeshShape
<1> QED BY <1>6, <1>7, <1>8 DEF InBox, Place

LEMMA ExcessIsInt ==
  ASSUME mesh \in Meshes, NEW t \in Triangles, NEW q \in Point
  PROVE  Excess(CircleOf(mesh, t), q) \in Int
<1>1. CircleOf(mesh, t) = Circle(Place(t, 0), Place(t, 1), Place(t, 2))
  BY DEF CircleOf, Place
<1>2. PICK a \in Point, b \in Point, c \in Point :
        a = Place(t, 0) /\ b = Place(t, 1) /\ c = Place(t, 2)
  BY PointsOfTriangle
<1>3. /\ a.x \in Int /\ a.y \in Int /\ b.x \in Int /\ b.y \in Int
      /\ c.x \in Int /\ c.y \in Int /\ q.x \in Int /\ q.y \in Int
  BY DEF Point
<1>4. Excess(Circle(a, b, c), q) \in Int
  BY <1>3 DEF Excess, Circle
<1> QED BY <1>1, <1>2, <1>4

-----------------------------------------------------------------------------
(* Where a search looks for its point: the caller's array still holds the  *)
(* points of the mesh, and a walk ends in the point's triangle or outside. *)
LocatedInv ==
  /\ pc # "released" => points = mesh.points
  /\ pc # "store" => \A t \in Triangles : circles[t] = CircleOf(mesh, t)
  /\ pc = "missed" => ~InHull(p) /\ first_id = -1
  /\ contains => pc = "expand" /\ t_in # <<>> /\ InTriangle(first_id, p)

LEMMA InitLocated == DelaunayInit => LocatedInv
BY DEF DelaunayInit, LocatedInv

(* The mesh and the point stay, and with them what is said of both.        *)
LEMMA LocatedStays ==
  ASSUME UNCHANGED <<mesh, points, circles, p>>, LocatedInv,
         pc \notin {"store", "released"}, pc' \notin {"store", "released"},
         pc' = "missed" => ~InHull(p) /\ first_id' = -1,
         contains' => pc' = "expand" /\ t_in' # <<>> /\ InTriangle(first_id', p)
  PROVE  LocatedInv'
<1>1. Triangles' = Triangles /\ \A t : CircleOf(mesh', t) = CircleOf(mesh, t)
  BY DEF Triangles
<1>2. \A t : InTriangle(t, p)' <=> InTriangle(t, p)
  BY DEF InTriangle
<1>3. InHull(p)' <=> InHull(p)
  BY <1>1, <1>2 DEF InHull
<1>4. \A t : InTriangle(t, p') <=> InTriangle(t, p)
  OBVIOUS
<1>5. contains' => InTriangle(first_id, p)'
  BY <1>2 DEF InTriangle
<1> QED BY <1>1, <1>3, <1>5 DEF LocatedInv

LEMMA StepLocated == DelaunayTypeOK /\ LocatedInv /\ [DelaunayNext]_vars => LocatedInv'
<1> SUFFICES ASSUME DelaunayTypeOK, LocatedInv, [DelaunayNext]_vars PROVE LocatedInv'
  OBVIOUS
<1> USE DEF built, search, local, lists
<1>0. mesh \in Meshes /\ p \in Point /\ tid \in Triangles
  BY DelaunayAssumption DEF DelaunayTypeOK
<1>1. CASE StoreTriangles
  BY <1>1 DEF StoreTriangles, LocatedInv, Triangles, InTriangle, InHull
<1>2. CASE CountTriangles \/ AllocateLists \/ FillLists
  <2>1. /\ UNCHANGED <<mesh, points, circles, p, contains>> /\ pc \notin {"store", "released", "expand"}
        /\ pc' \notin {"store", "released", "missed"}
    BY <1>2 DEF CountTriangles, AllocateLists, FillLists
  <2>2. ~contains'
    BY <2>1 DEF LocatedInv
  <2> QED BY <2>1, <2>2, LocatedStays
<1>3. CASE \E q \in Queries : CirclesFind(q)
  <2>1. /\ UNCHANGED <<mesh, points, circles>> /\ pc \in {"ready", "found"} /\ pc' \in {"linear", "seed"}
        /\ ~contains'
    BY <1>3 DEF CirclesFind
  <2>2. Triangles' = Triangles /\ \A t : CircleOf(mesh', t) = CircleOf(mesh, t)
    BY <2>1 DEF Triangles
  <2> QED BY <2>1, <2>2 DEF LocatedInv
<1>4. CASE LinearSearch \/ ReuseSeed \/ SeedFromLast \/ SeedFromAll \/ NotFound \/ Pop \/ Return
  <2>1. /\ UNCHANGED <<mesh, points, circles, p>> /\ pc \notin {"store", "released"}
        /\ pc' \notin {"store", "released", "missed"}
        /\ contains' => contains /\ (pc # "expand" \/ t_in = <<>>)
    BY <1>4 DEF LinearSearch, ReuseSeed, SeedFromLast, SeedFromAll, NotFound, Pop, Return, Begin,
                LocatedInv
  <2> QED BY <2>1, LocatedStays DEF LocatedInv
<1>5. CASE Locate
  <2>1. /\ UNCHANGED <<mesh, points, circles, p, contains>> /\ pc = "seed"
        /\ pc' = "walk" \/ (pc' = "missed" /\ first_id' = -1 /\ ~InBox)
    BY <1>5 DEF Locate
  <2>2. ~InBox => ~InHull(p)
    BY <1>0, HullInBox
  <2> QED BY <2>1, <2>2, LocatedStays DEF LocatedInv
<1>6. CASE Walk
  <2>1. UNCHANGED <<mesh, points, circles, p, contains>> /\ pc = "walk"
    BY <1>6 DEF Walk
  <2>2. PICK k \in 0..2 :
          /\ Beyond(tid, k)
          /\ IF Across(tid, k) < 0
             THEN pc' = "missed" /\ first_id' = -1
             ELSE pc' = pc
    BY <1>6 DEF Walk
  <2>3. CASE Across(tid, k) < 0
    <3>1. OnRightSide(p, Place(tid, k), Place(tid, Next3(k)))
      BY <2>1, <2>2 DEF Beyond, Corner, LocatedInv, Place
    <3>2. (k + 2) % 3 \in 0..2
      OBVIOUS
    <3>3. mesh.neighbours[tid][(k + 2) % 3] = -1
      <4>1. mesh.neighbours[tid][(k + 2) % 3] \in Triangles \cup {-1}
        BY <1>0, <3>2, MeshShape
      <4>2. Triangles \subseteq Nat
        BY <1>0, MeshShape
      <4>3. \A n1 \in Triangles \cup {-1} : n1 < 0 => n1 = -1
        BY <4>2
      <4> QED BY <2>3, <4>1, <4>3 DEF Across
    <3>4. ~InHull(p)
      BY <1>0, <3>1, <3>3, BeyondTheHull
    <3> QED BY <2>1, <2>2, <2>3, <3>4, LocatedStays DEF LocatedInv
  <2>4. CASE ~(Across(tid, k) < 0)
    BY <2>1, <2>2, <2>4, LocatedStays DEF LocatedInv
  <2> QED BY <2>3, <2>4
<1>7. CASE Located
  <2>1. /\ UNCHANGED <<mesh, points, circles, p>> /\ pc = "walk" /\ pc' = "expand" /\ first_id' = tid
        /\ t_in' # <<>> /\ \A k \in 0..2 : ~Beyond(tid, k)
    BY <1>7 DEF Located, Begin
  <2>2. InTriangle(tid, p)
    BY <2>1 DEF InTriangle, Beyond, Corner, LocatedInv
  <2> QED BY <2>1, <2>2, LocatedStays
<1>8. CASE PushAround
  <2>1. UNCHANGED <<mesh, points, circles, p, contains, first_id, pc>> /\ pc = "expand"
    BY <1>8 DEF PushAround
  <2>2. t_in # <<>> => t_in' # <<>>
    <3>1. t_in' = t_in \/ \E t : t_in' = Append(t_in, t)
      BY <1>8 DEF PushAround
    <3>2. ASSUME NEW t PROVE Append(t_in, t) # <<>>
      <4>1. t_in \in Seq(Triangles \cup {t})
        BY DEF DelaunayTypeOK
      <4> QED BY <4>1, AppendProperties
    <3> QED BY <3>1, <3>2
  <2> QED BY <2>1, <2>2, LocatedStays DEF LocatedInv
<1>9. CASE ReuseArray
  BY <1>9 DEF ReuseArray, LocatedInv, Triangles
<1>10. CASE UNCHANGED vars
  BY <1>10 DEF vars, LocatedInv, Triangles, InTriangle, InHull
<1> QED BY <1>1, <1>2, <1>3, <1>4, <1>5, <1>6, <1>7, <1>8, <1>9, <1>10 DEF DelaunayNext, Find

-----------------------------------------------------------------------------
(* What a search has found.                                                *)
Power(t) == Excess(circles[t], p)

LinearFound ==
  /\ IsInjective(t_out)
  /\ \A t \in Range(t_out) : t < tid /\ Power(t) <= 0
  /\ \A t \in Triangles : t < tid /\ Power(t) < 0 => t \in Range(t_out)

(* The stack and the result share no triangle, and a flagged triangle that *)
(* is in neither does not have the point in its circle.  All triangles     *)
(* around a finished corner of a triangle of the result are flagged.       *)
Expanding ==
  /\ IsInjective(t_in) /\ IsInjective(t_out) /\ Range(t_in) \cap Range(t_out) = {}
  /\ Range(t_in) \cup Range(t_out) \subseteq Range(flagids)
  /\ \A t \in Range(flagids) : t \in Range(t_in) \cup Range(t_out) \/ ~(Power(t) < 0)
  /\ \A t \in Range(t_out) : Power(t) <= 0
  /\ first_id \in Triangles
  /\ t_out = <<>> => t_in = <<first_id>> /\ corner = 3 /\ (contains \/ CircleContains(first_id))
  /\ t_out # <<>> => ~contains /\ first_id \in Range(t_out)
  /\ corner # 3 => tid \in Range(t_out)
  /\ corner = 3 => entry = 0
  /\ \A t \in Range(t_out), k \in 0..2 :
       t # tid \/ k < corner => Around(mesh.triangles[t][k]) \subseteq Range(flagids)
  /\ corner # 3 =>
       \A e \in 1..entry : point_triangles[mesh.triangles[tid][corner]][e] \in Range(flagids)

SearchInv ==
  /\ pc # "expand" => corner = 3 /\ entry = 0
  /\ pc = "linear" => ntriangles <= N_SEARCH_TURNON /\ LinearFound
  /\ pc \in {"seed", "walk", "missed", "expand"} => ntriangles > N_SEARCH_TURNON
  /\ pc = "expand" => Expanding
  /\ ResultsRight

LEMMA SameMesh ==
  ASSUME UNCHANGED mesh
  PROVE  /\ Triangles' = Triangles /\ Vertices' = Vertices /\ ntriangles' = ntriangles
         /\ \A v : Around(v)' = Around(v)
         /\ \A t, u : SharesCorner(t, u)' <=> SharesCorner(t, u)
BY DEF Triangles, Vertices, ntriangles, Around, SharesCorner

LEMMA SamePower ==
  ASSUME UNCHANGED <<circles, touching, p>>
  PROVE  /\ \A t : Power(t)' = Power(t)
         /\ \A t : CircleContains(t)' <=> CircleContains(t)
BY DEF Power, CircleContains

LEMMA PowerOfCircles ==
  ASSUME DelaunayTypeOK, LocatedInv, pc # "store", NEW t \in Triangles
  PROVE  /\ Power(t) \in Int
         /\ CircleContains(t) => Power(t) <= 0
         /\ Power(t) < 0 => CircleContains(t)
         /\ InTriangle(t, p) => Power(t) <= 0
<1>1. mesh \in Meshes /\ p \in Point /\ circles[t] = CircleOf(mesh, t)
  BY DelaunayAssumption DEF DelaunayTypeOK, LocatedInv
<1>2. Power(t) \in Int
  BY <1>1, ExcessIsInt DEF Power
<1>3. InTriangle(t, p) => Power(t) <= 0
  BY <1>1, TriangleInItsCircle DEF Power
<1>4. CircleContains(t) <=> Power(t) < 0 \/ (Power(t) = 0 /\ <<t, p>> \in touching)
  BY DEF CircleContains, Power
<1> QED BY <1>2, <1>3, <1>4

(* Steps that are not part of a search, and those that look for its start. *)
LEMMA SearchStays ==
  ASSUME SearchInv, UNCHANGED <<mesh, corner, entry>>,
         pc # "expand", pc' \notin {"linear", "expand", "found"},
         pc' \in {"seed", "walk", "missed"} => ntriangles > N_SEARCH_TURNON
  PROVE  SearchInv'
<1>1. ntriangles' = ntriangles
  BY SameMesh
<1> QED BY <1>1 DEF SearchInv, ResultsRight

LEMMA SearchBegins ==
  ASSUME DelaunayTypeOK, FlagsTracked, LocatedInv, SearchInv,
         pc \in {"seed", "walk", "missed"}, NEW t \in Triangles, Begin(t),
         UNCHANGED <<built, p, tid, corner, entry>>,
         contains' \/ CircleContains(t)
  PROVE  SearchInv'
<1>1. UNCHANGED <<mesh, circles, touching, p>>
  BY DEF built
<1>2. Range(flagids) = {} /\ flagids = <<>>
  BY NoFlags DEF FlagsTracked
<1>3. Range(t_in') = {t} /\ IsInjective(t_in') /\ Range(flagids') = {t}
  <2>1. t \notin Range(<<>>) /\ IsInjective(<<>>) /\ Range(<<>>) = {} /\ <<>> \in Seq(Triangles)
    BY NoFlags
  <2>2. /\ Range(Append(<<>>, t)) = Range(<<>>) \cup {t} /\ IsInjective(Append(<<>>, t))
    BY <2>1, AppendEntries, ZenonT(40)
  <2>3. <<t>> = Append(<<>>, t)
    OBVIOUS
  <2> QED BY <1>2, <2>1, <2>2, <2>3 DEF Begin
<1>4. t_out' = <<>> /\ Range(t_out') = {} /\ IsInjective(t_out')
  BY NoFlags DEF Begin
<1>5. contains' \/ CircleContains(t)'
  BY <1>1, SamePower
<1>6. corner' = 3 /\ entry' = 0 /\ first_id' = t /\ t_in' = <<t>> /\ Triangles' = Triangles
      /\ ntriangles' > N_SEARCH_TURNON /\ pc' = "expand"
  BY <1>1, SameMesh DEF SearchInv, Begin
<1>7. Expanding'
  BY <1>3, <1>4, <1>5, <1>6 DEF Expanding
<1> QED BY <1>6, <1>7 DEF SearchInv, ResultsRight

LEMMA LinearStep ==
  ASSUME DelaunayTypeOK, LocatedInv, SearchInv, LinearSearch
  PROVE  SearchInv'
<1>0. /\ UNCHANGED <<mesh, circles, touching, p, corner, entry, first_id>> /\ tid \in Triangles
      /\ pc = "linear" /\ t_out \in Seq(Triangles) /\ mesh \in Meshes
      /\ ntriangles <= N_SEARCH_TURNON /\ LinearFound /\ corner = 3 /\ entry = 0
  BY DEF LinearSearch, built, SearchInv, DelaunayTypeOK
<1>1. /\ Triangles' = Triangles /\ ntriangles' = ntriangles /\ \A t : Power(t)' = Power(t)
      /\ Triangles = 0..(ntriangles - 1) /\ ntriangles \in Nat
  BY <1>0, SameMesh, SamePower, MeshShape
<1>2. /\ Range(t_out') = IF CircleContains(tid) THEN Range(t_out) \cup {tid} ELSE Range(t_out)
      /\ IsInjective(t_out')
  <2>1. tid \notin Range(t_out)
    BY <1>0, <1>1 DEF LinearFound
  <2> QED BY <1>0, <2>1, AppendEntries DEF LinearSearch, LinearFound
<1>3. /\ \A t \in Range(t_out') : t < tid + 1 /\ Power(t) <= 0
      /\ \A t \in Triangles : t < tid + 1 /\ Power(t) < 0 => t \in Range(t_out')
  <2>1. \A t \in Range(t_out) : t \in Triangles
    BY <1>0 DEF Range
  <2>2. CircleContains(tid) => Power(tid) <= 0
    BY <1>0, PowerOfCircles
  <2>3. Power(tid) < 0 => CircleContains(tid)
    BY <1>0, PowerOfCircles
  <2>4. \A t \in Range(t_out) : t < tid /\ Power(t) <= 0
    BY <1>0 DEF LinearFound
  <2>5. \A t \in Triangles : t < tid /\ Power(t) < 0 => t \in Range(t_out)
    BY <1>0 DEF LinearFound
  <2>6. \A t \in Triangles : t < tid + 1 <=> t < tid \/ t = tid
    BY <1>0, <1>1
  <2> QED BY <1>0, <1>2, <2>1, <2>2, <2>3, <2>4, <2>5, <2>6
<1>4. CASE tid + 1 = ntriangles
  <2>1. pc' = "found"
    BY <1>4 DEF LinearSearch
  <2>2. \A t \in Triangles : t < tid + 1
    BY <1>1, <1>4
  <2>3. \A t : Power(t)' = Excess(circles'[t], p')
    BY DEF Power
  <2>4. ResultsRight'
    BY <1>0, <1>1, <1>2, <1>3, <2>2, <2>3 DEF ResultsRight
  <2> QED BY <1>0, <2>1, <2>4 DEF SearchInv
<1>5. CASE tid + 1 # ntriangles
  <2>1. pc' = "linear" /\ tid' = tid + 1
    BY <1>5 DEF LinearSearch
  <2>2. LinearFound'
    BY <1>1, <1>2, <1>3, <2>1 DEF LinearFound
  <2> QED BY <1>0, <1>1, <2>1, <2>2 DEF SearchInv, ResultsRight
<1> QED BY <1>4, <1>5

(* The last entry of a stack is taken off.                                 *)
LEMMA PopEntries ==
  ASSUME NEW S, NEW s \in Seq(S), s # <<>>, IsInjective(s)
  PROVE  LET t == s[Len(s)]
             rest == SubSeq(s, 1, Len(s) - 1)
         IN  /\ t \in Range(s) /\ rest \in Seq(S)
             /\ Range(rest) = Range(s) \ {t} /\ IsInjective(rest)
<1> DEFINE t == s[Len(s)]
           rest == SubSeq(s, 1, Len(s) - 1)
<1>1. Len(s) \in Nat \ {0} /\ DOMAIN s = 1..Len(s)
  OBVIOUS
<1>2. /\ rest \in Seq(S) /\ DOMAIN rest = 1..(Len(s) - 1)
      /\ \A i1 \in 1..(Len(s) - 1) : rest[i1] = s[i1]
  BY <1>1
<1> HIDE DEF rest
<1>3. t \in Range(s)
  BY <1>1 DEF Range
<1>4. IsInjective(rest)
  BY <1>1, <1>2 DEF IsInjective
<1>5. ASSUME NEW u \in Range(rest) PROVE u \in Range(s) /\ u # t
  <2>1. PICK i1 \in 1..(Len(s) - 1) : u = s[i1]
    BY <1>2 DEF Range
  <2>2. i1 \in 1..Len(s) /\ Len(s) \in 1..Len(s) /\ i1 # Len(s)
    <3>1. \A n1 \in Nat \ {0} : \A j \in 1..(n1 - 1) : j \in 1..n1 /\ n1 \in 1..n1 /\ j # n1
      OBVIOUS
    <3> QED BY <1>1, <3>1, Zenon
  <2>3. u \in Range(s)
    BY <1>1, <2>1, <2>2 DEF Range
  <2>4. s[i1] # s[Len(s)]
    BY <1>1, <2>2 DEF IsInjective
  <2> QED BY <2>1, <2>3, <2>4
<1>6. ASSUME NEW u \in Range(s), u # t PROVE u \in Range(rest)
  <2>1. PICK i1 \in 1..Len(s) : u = s[i1]
    BY <1>1 DEF Range
  <2>2. i1 \in 1..(Len(s) - 1)
    BY <1>1, <1>6, <2>1
  <2> QED BY <1>2, <2>1, <2>2 DEF Range
<1>7. Range(rest) = Range(s) \ {t}
  BY <1>5, <1>6
<1> QED BY <1>2, <1>3, <1>4, <1>7 DEF rest

LEMMA PopStep ==
  ASSUME DelaunayTypeOK, LocatedInv, SearchInv, Pop
  PROVE  SearchInv'
<1> DEFINE t == t_in[Len(t_in)]
           holds == contains \/ CircleContains(t)
<1>0. /\ UNCHANGED <<mesh, circles, touching, p, entry, first_id, point_triangles, flagids>>
      /\ t_in \in Seq(Triangles) /\ t_out \in Seq(Triangles)
      /\ pc = "expand" /\ pc' = "expand" /\ mesh \in Meshes /\ ntriangles > N_SEARCH_TURNON
      /\ corner = 3 /\ entry = 0 /\ t_in # <<>> /\ Expanding
      /\ t_in' = SubSeq(t_in, 1, Len(t_in) - 1) /\ tid' = t /\ contains' = FALSE
      /\ t_out' = IF holds THEN Append(t_out, t) ELSE t_out
      /\ corner' = IF holds THEN 0 ELSE 3
  BY DEF Pop, built, lists, SearchInv, Expanding, DelaunayTypeOK
<1>1. /\ Triangles' = Triangles /\ ntriangles' = ntriangles /\ \A v : Around(v)' = Around(v)
      /\ \A u : Power(u)' = Power(u) /\ (CircleContains(u)' <=> CircleContains(u))
  BY <1>0, SameMesh, SamePower
<1>2. /\ t \in Range(t_in) /\ t \in Triangles
      /\ Range(t_in') = Range(t_in) \ {t} /\ IsInjective(t_in')
  <2>0. IsInjective(t_in)
    BY <1>0 DEF Expanding
  <2>1. t \in Range(t_in) /\ Range(t_in') = Range(t_in) \ {t} /\ IsInjective(t_in')
    BY <1>0, <2>0, PopEntries
  <2>2. Range(t_in) \subseteq Triangles
    BY <1>0 DEF Range
  <2> QED BY <2>1, <2>2
<1>3. /\ IsInjective(t_in) /\ IsInjective(t_out) /\ Range(t_in) \cap Range(t_out) = {}
      /\ Range(t_in) \cup Range(t_out) \subseteq Range(flagids)
      /\ \A u \in Range(flagids) : u \in Range(t_in) \cup Range(t_out) \/ ~(Power(u) < 0)
      /\ \A u \in Range(t_out) : Power(u) <= 0
      /\ first_id \in Triangles
      /\ \A u \in Range(t_out), k \in 0..2 : Around(mesh.triangles[u][k]) \subseteq Range(flagids)
  <2>1. \A k \in 0..2 : k < corner
    BY <1>0
  <2> QED BY <1>0, <2>1 DEF Expanding
<1>4. t_out = <<>> => t = first_id /\ holds
  <2>1. t_out = <<>> => t_in = <<first_id>> /\ (contains \/ CircleContains(first_id))
    BY <1>0 DEF Expanding
  <2>2. t_in = <<first_id>> => t = first_id
    OBVIOUS
  <2> QED BY <2>1, <2>2
<1>5. t_out # <<>> => ~contains /\ first_id \in Range(t_out)
  BY <1>0 DEF Expanding
<1>6. holds => Power(t) <= 0
  <2>1. CircleContains(t) => Power(t) <= 0
    BY <1>0, <1>2, PowerOfCircles
  <2>2. contains => InTriangle(t, p)
    BY <1>4, <1>5 DEF LocatedInv
  <2>3. InTriangle(t, p) => Power(t) <= 0
    BY <1>0, <1>2, PowerOfCircles
  <2> QED BY <2>1, <2>2, <2>3
<1>7. ~holds => ~(Power(t) < 0)
  BY <1>0, <1>2, PowerOfCircles
<1> HIDE DEF t
<1>8. CASE holds
  <2>1. t_out' = Append(t_out, t) /\ corner' = 0
    BY <1>0, <1>8
  <2>2. t \notin Range(t_out)
    BY <1>2, <1>3
  <2>3. Range(t_out') = Range(t_out) \cup {t} /\ IsInjective(t_out')
    BY <1>0, <1>2, <1>3, <2>1, <2>2, AppendEntries
  <2>4. t_out' # <<>>
    <3>1. t \in Range(t_out')
      BY <2>3
    <3> QED BY <3>1, NoFlags
  <2>5. first_id \in Range(t_out')
    BY <1>4, <1>5, <2>3
  <2>6. \A u \in Range(t_out'), k \in 0..2 :
          u # t \/ k < corner' => Around(mesh.triangles[u][k]) \subseteq Range(flagids)
    <3>1. \A k \in 0..2 : ~(k < corner')
      BY <2>1
    <3> QED BY <1>3, <2>3, <3>1
  <2>7. \A e \in 1..entry : FALSE
    BY <1>0
  <2>8. /\ IsInjective(t_in)' /\ IsInjective(t_out)' /\ (Range(t_in) \cap Range(t_out) = {})'
        /\ (Range(t_in) \cup Range(t_out) \subseteq Range(flagids))'
        /\ (\A u \in Range(flagids) : u \in Range(t_in) \cup Range(t_out) \/ ~(Power(u) < 0))'
        /\ (\A u \in Range(t_out) : Power(u) <= 0)'
    BY <1>0, <1>1, <1>2, <1>3, <1>6, <1>8, <2>2, <2>3
  <2>9. Expanding'
    BY <1>0, <1>1, <1>2, <1>3, <2>1, <2>3, <2>4, <2>5, <2>6, <2>7, <2>8 DEF Expanding
  <2> QED BY <1>0, <1>1, <2>9 DEF SearchInv, ResultsRight
<1>9. CASE ~holds
  <2>1. t_out' = t_out /\ corner' = 3 /\ t_out # <<>> /\ first_id \in Range(t_out)
    BY <1>0, <1>4, <1>5, <1>9
  <2>2. /\ IsInjective(t_in)' /\ IsInjective(t_out)' /\ (Range(t_in) \cap Range(t_out) = {})'
        /\ (Range(t_in) \cup Range(t_out) \subseteq Range(flagids))'
        /\ (\A u \in Range(flagids) : u \in Range(t_in) \cup Range(t_out) \/ ~(Power(u) < 0))'
        /\ (\A u \in Range(t_out) : Power(u) <= 0)'
    BY <1>0, <1>1, <1>2, <1>3, <1>7, <1>9, <2>1
  <2>3. Expanding'
    BY <1>0, <1>1, <1>3, <2>1, <2>2 DEF Expanding
  <2> QED BY <1>0, <1>1, <2>3 DEF SearchInv, ResultsRight
<1> QED BY <1>8, <1>9

(* All that is said of the result carries over when more is flagged.       *)
LEMMA PushStep ==
  ASSUME DelaunayTypeOK, FlagsTracked, ListsExact, LocatedInv, SearchInv, PushAround
  PROVE  SearchInv'
<1> DEFINE v == mesh.triangles[tid][corner]
           around == point_triangles[v]
           t == around[entry + 1]
<1>0. /\ UNCHANGED <<mesh, circles, touching, p, point_triangles, first_id, t_out, tid, contains>>
      /\ t_in \in Seq(Triangles) /\ t_out \in Seq(Triangles) /\ flagids \in Seq(Triangles)
      /\ flags \in [Triangles -> {0, 1}] /\ tid \in Triangles
      /\ pc = "expand" /\ pc' = "expand" /\ mesh \in Meshes /\ ntriangles > N_SEARCH_TURNON
      /\ corner \in 0..2 /\ entry \in Nat /\ entry < Len(around) /\ Expanding
  BY DEF PushAround, built, lists, SearchInv, DelaunayTypeOK
<1>1. /\ Triangles' = Triangles /\ ntriangles' = ntriangles /\ \A x : Around(x)' = Around(x)
      /\ \A u : Power(u)' = Power(u) /\ (CircleContains(u)' <=> CircleContains(u))
  BY <1>0, SameMesh, SamePower
<1>2. /\ v \in Vertices /\ around \in Seq(Triangles) /\ Range(around) = Around(v)
      /\ t \in Triangles
  <2>1. v \in Vertices
    BY <1>0, MeshShape
  <2>2. around \in Seq(Triangles) /\ Range(around) = Around(v)
    BY <1>0, <2>1 DEF DelaunayTypeOK, ListsExact, Building, Around
  <2> HIDE DEF around
  <2>3. t \in Triangles
    BY <1>0, <2>2
  <2> QED BY <2>1, <2>2, <2>3
<1>3. /\ entry' = IF entry + 1 = Len(around) THEN 0 ELSE entry + 1
      /\ corner' = IF entry + 1 = Len(around) THEN corner + 1 ELSE corner
      /\ IF flags[t] = 0
         THEN t_in' = Append(t_in, t) /\ flagids' = Append(flagids, t)
         ELSE UNCHANGED <<t_in, flagids>>
  BY DEF PushAround
<1>4. /\ IsInjective(t_in) /\ IsInjective(t_out) /\ Range(t_in) \cap Range(t_out) = {}
      /\ Range(t_in) \cup Range(t_out) \subseteq Range(flagids)
      /\ \A u \in Range(flagids) : u \in Range(t_in) \cup Range(t_out) \/ ~(Power(u) < 0)
      /\ \A u \in Range(t_out) : Power(u) <= 0
      /\ first_id \in Triangles /\ t_out # <<>> /\ ~contains /\ first_id \in Range(t_out)
      /\ tid \in Range(t_out)
  BY <1>0 DEF Expanding
<1>5. \A u \in Range(t_out), k \in 0..2 :
        u # tid \/ k < corner => Around(mesh.triangles[u][k]) \subseteq Range(flagids)
  BY <1>0 DEF Expanding
<1>6. \A e \in 1..entry : around[e] \in Range(flagids)
  BY <1>0 DEF Expanding
<1> HIDE DEF t, around
<1>7. /\ Range(flagids') = Range(flagids) \cup {t}
      /\ IsInjective(t_in') /\ Range(t_in') \cap Range(t_out) = {}
      /\ Range(t_in') \cup Range(t_out) \subseteq Range(flagids')
      /\ \A u \in Range(flagids') : u \in Range(t_in') \cup Range(t_out) \/ ~(Power(u) < 0)
  <2>1. CASE flags[t] = 0
    <3>1. t \notin Range(flagids)
      BY <1>2, <2>1 DEF FlagsTracked
    <3>2. t \notin Range(t_in) /\ t \notin Range(t_out)
      BY <1>4, <3>1
    <3>3. /\ t_in' = Append(t_in, t) /\ flagids' = Append(flagids, t)
          /\ t_in \in Seq(Triangles) /\ flagids \in Seq(Triangles) /\ IsInjective(t_in)
      BY <1>0, <1>3, <1>4, <2>1
    <3>4. Range(t_in') = Range(t_in) \cup {t} /\ IsInjective(t_in')
      BY <1>2, <3>2, <3>3, AppendEntries
    <3>5. Range(flagids') = Range(flagids) \cup {t}
      BY <1>2, <3>3, AppendEntries
    <3> QED BY <1>4, <3>2, <3>4, <3>5
  <2>2. CASE flags[t] # 0
    <3>1. t \in Range(flagids)
      BY <1>0, <1>2, <2>2 DEF FlagsTracked
    <3> QED BY <1>3, <1>4, <2>2, <3>1
  <2> QED BY <2>1, <2>2
<1>8. \A e \in 1..(entry + 1) : around[e] \in Range(flagids')
  <2>1. \A e \in 1..(entry + 1) : e \in 1..entry \/ e = entry + 1
    BY <1>0
  <2> QED BY <1>6, <1>7, <2>1 DEF t
<1>9. \A u \in Range(t_out), k \in 0..2 :
        u # tid \/ k < corner => Around(mesh.triangles[u][k]) \subseteq Range(flagids')
  BY <1>5, <1>7
<1> HIDE DEF v
<1>10. CASE entry + 1 = Len(around)
  <2>1. entry' = 0 /\ corner' = corner + 1
    BY <1>3, <1>10
  <2>2. Around(v) \subseteq Range(flagids')
    <3>1. DOMAIN around = 1..(entry + 1)
      BY <1>2, <1>10
    <3> QED BY <1>2, <1>8, <3>1 DEF Range
  <2>3. \A k \in 0..2 : k < corner' => k < corner \/ k = corner
    BY <1>0, <2>1
  <2>4. \A u \in Range(t_out), k \in 0..2 :
          u # tid \/ k < corner' => Around(mesh.triangles[u][k]) \subseteq Range(flagids')
    BY <1>9, <2>2, <2>3 DEF v
  <2>5. \A e \in 1..entry' : FALSE
    BY <2>1
  <2>6. Expanding'
    BY <1>0, <1>1, <1>4, <1>7, <2>1, <2>4, <2>5 DEF Expanding
  <2> QED BY <1>0, <1>1, <2>6 DEF SearchInv, ResultsRight
<1>11. CASE entry + 1 # Len(around)
  <2>1. entry' = entry + 1 /\ corner' = corner
    BY <1>3, <1>11
  <2>2. \A e \in 1..entry' : point_triangles'[mesh'.triangles[tid'][corner']][e] \in Range(flagids')
    BY <1>0, <1>8, <2>1 DEF around, v
  <2>3. corner' # 3
    BY <1>0, <2>1
  <2>4. Expanding'
    BY <1>0, <1>1, <1>4, <1>7, <1>9, <2>1, <2>2, <2>3 DEF Expanding
  <2> QED BY <1>0, <1>1, <2>4 DEF SearchInv, ResultsRight
<1> QED BY <1>10, <1>11

LEMMA ReturnStep ==
  ASSUME DelaunayTypeOK, SearchInv, Return
  PROVE  SearchInv'
<1>0. /\ UNCHANGED <<mesh, circles, touching, p, corner, entry, first_id, t_out>>
      /\ pc = "expand" /\ pc' = "found" /\ corner = 3 /\ t_in = <<>> /\ mesh \in Meshes
      /\ t_out \in Seq(Triangles) /\ Expanding /\ ntriangles > N_SEARCH_TURNON
  BY DEF Return, built, local, SearchInv, DelaunayTypeOK
<1>1. /\ Triangles' = Triangles /\ ntriangles' = ntriangles
      /\ \A t, u : SharesCorner(t, u)' <=> SharesCorner(t, u)
      /\ \A t : Power(t)' = Power(t) /\ Excess(circles'[t], p') = Excess(circles[t], p)
  BY <1>0, SameMesh, SamePower
<1>2. /\ Range(t_in) = {} /\ t_out # <<>> /\ first_id \in Range(t_out) /\ first_id \in Triangles
      /\ entry = 0 /\ IsInjective(t_out)
      /\ \A t \in Range(t_out) : Power(t) <= 0
      /\ \A t \in Range(flagids) : t \in Range(t_out) \/ ~(Power(t) < 0)
  <2>1. Range(t_in) = {}
    BY <1>0, NoFlags
  <2>2. <<>> # <<first_id>>
    OBVIOUS
  <2> QED BY <1>0, <2>1, <2>2 DEF Expanding
<1>3. \A t \in Range(t_out), k \in 0..2 : Around(mesh.triangles[t][k]) \subseteq Range(flagids)
  <2>1. \A k \in 0..2 : k < corner
    BY <1>0
  <2> QED BY <1>0, <2>1 DEF Expanding
<1>4. ASSUME NEW t \in Triangles, NEW u \in Range(t_out), SharesCorner(t, u), Power(t) < 0
      PROVE  t \in Range(t_out)
  <2>1. PICK k \in 0..2, l \in 0..2 : mesh.triangles[t][k] = mesh.triangles[u][l]
    BY <1>4 DEF SharesCorner
  <2>2. mesh.triangles[t] \in [0..2 -> Vertices]
    BY <1>0, DelaunayAssumption DEF IsMesh, Triangles, Vertices
  <2>3. t \in Around(mesh.triangles[u][l])
    BY <2>1, <2>2 DEF Around, Range
  <2>4. t \in Range(flagids)
    BY <1>3, <2>3
  <2> QED BY <1>2, <1>4, <2>4
<1>5. first_id # -1
  BY <1>0, <1>2, MeshShape
<1>6. ~(ntriangles <= N_SEARCH_TURNON)
  <2>1. ntriangles \in Int /\ N_SEARCH_TURNON \in Int
    BY <1>0, MeshShape, DelaunayAssumption
  <2> QED BY <1>0, <2>1
<1>7. \A t : Power(t) = Excess(circles[t], p)
  BY DEF Power
<1>8. ResultsRight'
  BY <1>0, <1>1, <1>2, <1>4, <1>5, <1>6, <1>7 DEF ResultsRight
<1> QED BY <1>0, <1>2, <1>8 DEF SearchInv

LEMMA StepSearch ==
  DelaunayTypeOK /\ FlagsTracked /\ ListsExact /\ LocatedInv /\ SearchInv /\ [DelaunayNext]_vars
    => SearchInv'
<1> SUFFICES ASSUME DelaunayTypeOK, FlagsTracked, ListsExact, LocatedInv, SearchInv,
                    [DelaunayNext]_vars
             PROVE  SearchInv'
  OBVIOUS
<1> USE DEF built, search, local, lists
<1>0. mesh \in Meshes /\ p \in Point /\ tid \in Triangles /\ 0 \in Triangles
  BY DelaunayAssumption, MeshShape DEF DelaunayTypeOK
<1>1. CASE StoreTriangles \/ CountTriangles \/ AllocateLists \/ FillLists \/ ReuseArray
  <2>1. /\ UNCHANGED <<mesh, corner, entry>> /\ pc # "expand"
        /\ pc' \notin {"linear", "expand", "found", "seed", "walk", "missed"}
    BY <1>1 DEF StoreTriangles, CountTriangles, AllocateLists, FillLists, ReuseArray
  <2> QED BY <2>1, SearchStays
<1>2. CASE \E q \in Queries : CirclesFind(q)
  <2>1. PICK q \in Queries : CirclesFind(q)
    BY <1>2
  <2>2. UNCHANGED <<mesh, corner, entry>> /\ pc \in {"ready", "found"} /\ tid' = 0
    BY <2>1 DEF CirclesFind
  <2>3. CASE ntriangles <= N_SEARCH_TURNON
    <3>1. pc' = "linear" /\ t_out' = <<>>
      BY <2>1, <2>3 DEF CirclesFind
    <3>2. IsInjective(t_out') /\ Range(t_out') = {}
      BY <3>1, NoFlags
    <3>3. \A t \in Triangles : ~(t < 0)
      BY <1>0, MeshShape
    <3>4. LinearFound'
      BY <2>2, <3>2, <3>3, SameMesh DEF LinearFound
    <3> QED BY <2>2, <2>3, <3>1, <3>4, SameMesh DEF SearchInv, ResultsRight
  <2>4. CASE ~(ntriangles <= N_SEARCH_TURNON)
    <3>1. pc' = "seed"
      BY <2>1, <2>4 DEF CirclesFind
    <3>2. ntriangles > N_SEARCH_TURNON
      <4>1. ntriangles \in Int /\ N_SEARCH_TURNON \in Int
        BY <1>0, MeshShape, DelaunayAssumption
      <4> QED BY <2>4, <4>1
    <3> QED BY <2>2, <3>1, <3>2, SearchStays
  <2> QED BY <2>3, <2>4
<1>3. CASE LinearSearch
  BY <1>3, LinearStep
<1>4. CASE ReuseSeed
  <2>1. first_id \in Triangles
    BY <1>0, <1>4, MeshShape DEF ReuseSeed, SeedOK, DelaunayTypeOK
  <2> QED BY <1>4, <2>1, SearchBegins DEF ReuseSeed, SeedOK
<1>5. CASE Locate \/ Walk
  <2>1. /\ UNCHANGED <<mesh, corner, entry>> /\ pc \in {"seed", "walk"}
        /\ pc' \in {"walk", "missed"}
    BY <1>5 DEF Locate, Walk
  <2>2. ntriangles > N_SEARCH_TURNON
    BY <2>1 DEF SearchInv
  <2> QED BY <2>1, <2>2, SearchStays
<1>6. CASE Located
  BY <1>0, <1>6, SearchBegins DEF Located
<1>7. CASE SeedFromLast
  <2>1. PICK i1 \in DOMAIN t_out : CircleContains(t_out[i1]) /\ Begin(t_out[i1])
    BY <1>7 DEF SeedFromLast
  <2>2. t_out[i1] \in Triangles
    BY <2>1 DEF DelaunayTypeOK
  <2> QED BY <1>7, <2>1, <2>2, SearchBegins DEF SeedFromLast
<1>8. CASE SeedFromAll
  <2>1. PICK t \in Triangles : CircleContains(t) /\ Begin(t)
    BY <1>8 DEF SeedFromAll
  <2> QED BY <1>8, <2>1, SearchBegins DEF SeedFromAll
<1>9. CASE NotFound
  <2>1. /\ UNCHANGED <<mesh, circles, touching, p, corner, entry, first_id>> /\ pc = "missed"
        /\ pc' = "found" /\ t_out' = <<>> /\ \A t \in Triangles : ~CircleContains(t)
    BY <1>9 DEF NotFound
  <2>2. first_id = -1 /\ ntriangles > N_SEARCH_TURNON /\ corner = 3 /\ entry = 0
    BY <2>1 DEF LocatedInv, SearchInv
  <2>3. IsInjective(t_out') /\ Range(t_out') = {}
    BY <2>1, NoFlags
  <2>4. \A t \in Triangles : ~(Excess(circles'[t], p') < 0) /\ ~CircleContains(t)'
    BY <2>1, SamePower DEF CircleContains
  <2>5. ResultsRight'
    BY <2>1, <2>2, <2>3, <2>4, SameMesh DEF ResultsRight
  <2> QED BY <2>1, <2>2, <2>5 DEF SearchInv
<1>10. CASE Pop
  BY <1>10, PopStep
<1>11. CASE PushAround
  BY <1>11, PushStep
<1>12. CASE Return
  BY <1>12, ReturnStep
<1>13. CASE UNCHANGED vars
  <2>1. /\ Triangles' = Triangles /\ ntriangles' = ntriangles
        /\ \A v : Around(v)' = Around(v) /\ \A t, u : SharesCorner(t, u)' <=> SharesCorner(t, u)
        /\ \A t : Power(t)' = Power(t) /\ (CircleContains(t)' <=> CircleContains(t))
    BY <1>13, SameMesh, SamePower DEF vars
  <2>2. LinearFound' <=> LinearFound
    BY <1>13, <2>1 DEF vars, LinearFound
  <2>3. Expanding' <=> Expanding
    BY <1>13, <2>1 DEF vars, Expanding
  <2>4. ResultsRight' <=> ResultsRight
    BY <1>13, <2>1 DEF vars, ResultsRight
  <2> QED BY <1>13, <2>1, <2>2, <2>3, <2>4 DEF vars, SearchInv
<1> QED BY <1>1, <1>2, <1>3, <1>4, <1>5, <1>6, <1>7, <1>8, <1>9, <1>10, <1>11, <1>12, <1>13
        DEF DelaunayNext, Find

(* The walk gives up only on points outside the hull and otherwise ends in *)
(* a triangle that holds the point; and whatever the searches before it    *)
(* have left, a search returns circles the point is in or on, each once,   *)
(* with all the others that hold the point around their corners.           *)
THEOREM SearchesAreExact == DelaunaySpec => []SearchExact
<1>1. DelaunayInit => SearchInv
  BY DEF DelaunayInit, SearchInv, ResultsRight
<1>2. FlagsTracked /\ LocatedInv /\ SearchInv => SearchExact
  BY DEF LocatedInv, LocatedRight, SearchInv, SearchExact
<1>3. DelaunayInit => FlagsTracked
  BY NoFlags DEF DelaunayInit, FlagsTracked
<1> QED BY <1>1, <1>2, <1>3, InitTyped, StepTyped, StepTracked, InitLists, StepLists, ListsFit,
           InitLocated, StepLocated, StepSearch, PTL DEF DelaunaySpec

-----------------------------------------------------------------------------
(* How far a search is from its end: the walk, by powers of the point.      *)

(* Which corner of a triangle comes first makes no difference to its circle. *)
LEMMA CircleTurns ==
  ASSUME NEW a \in Point, NEW b \in Point, NEW c \in Point, NEW q \in Point
  PROVE  /\ Excess(Circle(a, b, c), q) = Excess(Circle(b, c, a), q)
         /\ Circle(a, b, c).denom = Circle(b, c, a).denom
         /\ Circle(a, b, c).denom \in Int /\ Excess(Circle(a, b, c), q) \in Int
<1>1. /\ a.x \in Int /\ a.y \in Int /\ b.x \in Int /\ b.y \in Int
      /\ c.x \in Int /\ c.y \in Int /\ q.x \in Int /\ q.y \in Int
  BY DEF Point
<1>2. PICK x2 \in Int, y2 \in Int : x2 = b.x - a.x /\ y2 = b.y - a.y
  BY <1>1
<1>3. PICK x3 \in Int, y3 \in Int : x3 = c.x - a.x /\ y3 = c.y - a.y
  BY <1>1
<1>4. PICK x \in Int, y \in Int : x = q.x - a.x /\ y = q.y - a.y
  BY <1>1
<1>5. /\ c.x - b.x = x3 - x2 /\ c.y - b.y = y3 - y2 /\ a.x - b.x = -x2 /\ a.y - b.y = -y2
      /\ q.x - b.x = x - x2 /\ q.y - b.y = y - y2
  BY <1>1, <1>2, <1>3, <1>4
<1> DEFINE d == x2 * y3 - y2 * x3
           f == x2 * (x2 - x3) + y2 * (y2 - y3)
           e == (x3 - x2) * (-y2) - (y3 - y2) * (-x2)
           g == (x3 - x2) * (x3 - x2 - (-x2)) + (y3 - y2) * (y3 - y2 - (-y2))
<1>6. /\ Circle(a, b, c) = [origin |-> a, denom |-> d, x |-> x3 * d + f * y3, y |-> y3 * d - f * x3]
      /\ Circle(b, c, a) = [origin |-> b, denom |-> e, x |-> (-x2) * e + g * (-y2), y |-> (-y2) * e - g * (-x2)]
  BY <1>2, <1>3, <1>5 DEF Circle
<1>7. /\ Excess(Circle(a, b, c), q) = d * (x * x + y * y) - (x * (x3 * d + f * y3) + y * (y3 * d - f * x3))
      /\ Excess(Circle(b, c, a), q)
           = e * ((x - x2) * (x - x2) + (y - y2) * (y - y2))
               - ((x - x2) * ((-x2) * e + g * (-y2)) + (y - y2) * ((-y2) * e - g * (-x2)))
  BY <1>4, <1>5, <1>6 DEF Excess
<1>8. e = d
  OBVIOUS
<1>9. d * (x * x + y * y) - (x * (x3 * d + f * y3) + y * (y3 * d - f * x3))
        = e * ((x - x2) * (x - x2) + (y - y2) * (y - y2))
               - ((x - x2) * ((-x2) * e + g * (-y2)) + (y - y2) * ((-y2) * e - g * (-x2)))
  OBVIOUS
<1>10. d \in Int /\ f \in Int
  OBVIOUS
<1>11. d * (x * x + y * y) - (x * (x3 * d + f * y3) + y * (y3 * d - f * x3)) \in Int
  OBVIOUS
<1> QED BY <1>6, <1>7, <1>8, <1>9, <1>10, <1>11

(* Two triangles on either side of the side from a to b: how the power of a  *)
(* point with respect to their circles differs depends on how far it is      *)
(* beyond that side, and on how far the one's third corner is outside the    *)
(* other's circle.                                                           *)
LEMMA PowersDiffer ==
  ASSUME NEW a \in Point, NEW b \in Point, NEW c \in Point, NEW d \in Point, NEW q \in Point,
         Circle(a, d, b).denom # 0
  PROVE  Excess(Circle(a, d, b), q) * Circle(a, b, c).denom - Excess(Circle(a, b, c), q) * Circle(a, d, b).denom
           = Excess(Circle(a, b, c), d) * ((q.x - b.x) * (a.y - b.y) - (a.x - b.x) * (q.y - b.y))
<1>1. /\ a.x \in Int /\ a.y \in Int /\ b.x \in Int /\ b.y \in Int
      /\ c.x \in Int /\ c.y \in Int /\ d.x \in Int /\ d.y \in Int /\ q.x \in Int /\ q.y \in Int
  BY DEF Point
<1>2. PICK bx \in Int, by \in Int : bx = b.x - a.x /\ by = b.y - a.y
  BY <1>1
<1>3. PICK cx \in Int, cy \in Int : cx = c.x - a.x /\ cy = c.y - a.y
  BY <1>1
<1>4. PICK dx \in Int, dy \in Int : dx = d.x - a.x /\ dy = d.y - a.y
  BY <1>1
<1>5. PICK x \in Int, y \in Int : x = q.x - a.x /\ y = q.y - a.y
  BY <1>1
<1> DEFINE D == bx * cy - by * cx
           f == bx * (bx - cx) + by * (by - cy)
           X == cx * D + f * cy
           Y == cy * D - f * cx
           E == dx * by - dy * bx
           g == dx * (dx - bx) + dy * (dy - by)
           V == bx * E + g * by
           W == by * E - g * bx
<1>6. /\ Circle(a, b, c) = [origin |-> a, denom |-> D, x |-> X, y |-> Y]
      /\ Circle(a, d, b) = [origin |-> a, denom |-> E, x |-> V, y |-> W]
  BY <1>2, <1>3, <1>4 DEF Circle
<1>7. /\ Excess(Circle(a, b, c), q) = D * (x * x + y * y) - (x * X + y * Y)
      /\ Excess(Circle(a, b, c), d) = D * (dx * dx + dy * dy) - (dx * X + dy * Y)
      /\ Excess(Circle(a, d, b), q) = E * (x * x + y * y) - (x * V + y * W)
  BY <1>4, <1>5, <1>6 DEF Excess
<1>8. (E * (x * x + y * y) - (x * V + y * W)) * D - (D * (x * x + y * y) - (x * X + y * Y)) * E
        = x * (X * E - V * D) + y * (Y * E - W * D)
  OBVIOUS
<1>9. bx * X + by * Y = D * (bx * bx + by * by)
  OBVIOUS
<1>10. /\ bx * V + by * W = E * (bx * bx + by * by)
       /\ dx * V + dy * W = E * (dx * dx + dy * dy)
  OBVIOUS
<1>11. PICK P \in Int, R \in Int : P = X * E - V * D /\ R = Y * E - W * D
  OBVIOUS
<1>12. PICK F \in Int : F = D * (dx * dx + dy * dy) - (dx * X + dy * Y)
  OBVIOUS
<1>13. bx * P + by * R = 0
  BY <1>9, <1>10, <1>11
<1>14. dx * P + dy * R = -(F * E)
  BY <1>10, <1>11, <1>12
<1>15. E * P = E * (-(F * by)) /\ E * R = E * (F * bx)
  BY <1>13, <1>14
<1>16. P = -(F * by) /\ R = F * bx
  BY <1>6, <1>15
<1>17. (q.x - b.x) * (a.y - b.y) - (a.x - b.x) * (q.y - b.y) = bx * y - by * x
  BY <1>1, <1>2, <1>5
<1> HIDE DEF D, E, X, Y, V, W
<1>18. x * P + y * R = F * (bx * y - by * x)
  BY <1>16
<1> QED BY <1>6, <1>7, <1>8, <1>11, <1>12, <1>17, <1>18
(* The same for the circle of a triangle.                                   *)
LEMMA CircleFrom ==
  ASSUME mesh \in Meshes, NEW t \in Triangles, NEW k \in 0..2, NEW q \in Point,
         NEW a, NEW b, NEW c, a = Place(t, k), b = Place(t, Next3(k)), c = Place(t, Next3(Next3(k)))
  PROVE  /\ a \in Point /\ b \in Point /\ c \in Point
         /\ Excess(CircleOf(mesh, t), q) = Excess(Circle(a, b, c), q)
         /\ CircleOf(mesh, t).denom = Circle(a, b, c).denom
<1>1. CircleOf(mesh, t) = Circle(Place(t, 0), Place(t, 1), Place(t, 2))
  BY DEF CircleOf, Place
<1>2. PICK a0 \in Point, b0 \in Point, c0 \in Point :
        a0 = Place(t, 0) /\ b0 = Place(t, 1) /\ c0 = Place(t, 2)
  BY PointsOfTriangle
<1>3. Next3(0) = 1 /\ Next3(1) = 2 /\ Next3(2) = 0
  BY DEF Next3
<1>4. /\ Excess(Circle(a0, b0, c0), q) = Excess(Circle(b0, c0, a0), q)
      /\ Excess(Circle(b0, c0, a0), q) = Excess(Circle(c0, a0, b0), q)
      /\ Circle(a0, b0, c0).denom = Circle(b0, c0, a0).denom
      /\ Circle(b0, c0, a0).denom = Circle(c0, a0, b0).denom
  BY CircleTurns
<1>5. CASE k = 0
  BY <1>1, <1>2, <1>3, <1>5
<1>6. CASE k = 1
  BY <1>1, <1>2, <1>3, <1>4, <1>6
<1>7. CASE k = 2
  BY <1>1, <1>2, <1>3, <1>4, <1>7
<1> QED BY <1>5, <1>6, <1>7

(* Triangles turn left.                                                     *)
LEMMA DenominatorPositive ==
  ASSUME mesh \in Meshes, NEW t \in Triangles
  PROVE  CircleOf(mesh, t).denom \in Nat \ {0}
<1>1. PICK a \in Point, b \in Point, c \in Point :
        a = Place(t, 0) /\ b = Place(t, 1) /\ c = Place(t, 2)
  BY PointsOfTriangle
<1>2. CircleOf(mesh, t) = Circle(a, b, c)
  BY <1>1 DEF CircleOf, Place
<1>3. /\ a.x \in Int /\ a.y \in Int /\ b.x \in Int /\ b.y \in Int /\ c.x \in Int /\ c.y \in Int
  BY DEF Point
<1>4. (a.x - c.x) * (b.y - c.y) > (b.x - c.x) * (a.y - c.y)
  BY <1>1, PointsOfTriangle DEF OnRightSide
<1>5. PICK d \in Int : d = (b.x - a.x) * (c.y - a.y) - (b.y - a.y) * (c.x - a.x)
  BY <1>3
<1>6. d = (a.x - c.x) * (b.y - c.y) - (b.x - c.x) * (a.y - c.y)
  BY <1>3, <1>5
<1>7. d > 0
  BY <1>3, <1>4, <1>6
<1> QED BY <1>2, <1>5, <1>7 DEF Circle

(* The two ends of a side are on the circle.                                *)
LEMMA EndsOnCircle ==
  ASSUME NEW a \in Point, NEW b \in Point, NEW c \in Point
  PROVE  Excess(Circle(a, b, c), a) = 0 /\ Excess(Circle(a, b, c), b) = 0
<1>1. /\ a.x \in Int /\ a.y \in Int /\ b.x \in Int /\ b.y \in Int /\ c.x \in Int /\ c.y \in Int
  BY DEF Point
<1>2. PICK x2 \in Int, y2 \in Int : x2 = b.x - a.x /\ y2 = b.y - a.y
  BY <1>1
<1>3. PICK x3 \in Int, y3 \in Int : x3 = c.x - a.x /\ y3 = c.y - a.y
  BY <1>1
<1>4. a.x - a.x = 0 /\ a.y - a.y = 0
  BY <1>1
<1> DEFINE d == x2 * y3 - y2 * x3
           f == x2 * (x2 - x3) + y2 * (y2 - y3)
<1>5. Circle(a, b, c) = [origin |-> a, denom |-> d, x |-> x3 * d + f * y3, y |-> y3 * d - f * x3]
  BY <1>2, <1>3 DEF Circle
<1>6. /\ Excess(Circle(a, b, c), a) = d * (0 * 0 + 0 * 0) - (0 * (x3 * d + f * y3) + 0 * (y3 * d - f * x3))
      /\ Excess(Circle(a, b, c), b)
           = d * (x2 * x2 + y2 * y2) - (x2 * (x3 * d + f * y3) + y2 * (y3 * d - f * x3))
  BY <1>2, <1>4, <1>5 DEF Excess
<1>7. d * (0 * 0 + 0 * 0) - (0 * (x3 * d + f * y3) + 0 * (y3 * d - f * x3)) = 0
  OBVIOUS
<1>8. d * (x2 * x2 + y2 * y2) - (x2 * (x3 * d + f * y3) + y2 * (y3 * d - f * x3)) = 0
  OBVIOUS
<1> QED BY <1>6, <1>7, <1>8

(* A step of the walk.                                                      *)
LEMMA WalkGoesDown ==
  ASSUME DelaunayTypeOK, LocatedInv, Walk, pc' = "walk"
  PROVE  Downhill(tid, tid')
<1>1. /\ pc = "walk" /\ mesh \in Meshes /\ p \in Point /\ tid \in Triangles /\ points = mesh.points
      /\ IsMesh(mesh) /\ EmptyCircles(mesh)
      /\ \A t \in Triangles : circles[t] = CircleOf(mesh, t)
  BY DelaunayAssumption DEF DelaunayTypeOK, LocatedInv, Walk
<1>2. PICK k \in 0..2 : Beyond(tid, k) /\ ~(Across(tid, k) < 0) /\ tid' = Across(tid, k)
  BY DEF Walk
<1>3. PICK t \in Triangles : t = tid
  BY <1>1
<1>4. (k + 2) % 3 \in 0..2 /\ Next3((k + 2) % 3) = k /\ Next3(k) \in 0..2 /\ Next3(Next3(k)) \in 0..2
  BY DEF Next3
<1>5. PICK u \in Triangles : u = tid' /\ u = mesh.neighbours[t][(k + 2) % 3] /\ u # -1
  BY <1>1, <1>2, <1>3, <1>4, MeshShape DEF Across
<1>6. PICK l \in 0..2 : /\ mesh.triangles[u][Next3(l)] = mesh.triangles[t][Next3(k)]
                        /\ mesh.triangles[u][Next3(Next3(l))] = mesh.triangles[t][k]
  <2>1. \A j \in 0..2 : mesh.neighbours[t][j] # -1 =>
          \E l \in 0..2 :
            /\ mesh.triangles[mesh.neighbours[t][j]][Next3(l)] = mesh.triangles[t][Next3(Next3(j))]
            /\ mesh.triangles[mesh.neighbours[t][j]][Next3(Next3(l))] = mesh.triangles[t][Next3(j)]
    BY <1>1 DEF IsMesh, Triangles
  <2>2. PICK m \in 0..2 : m = (k + 2) % 3
    BY <1>4
  <2>3. Next3(m) = k /\ u = mesh.neighbours[t][m] /\ mesh.neighbours[t][m] # -1
    BY <1>4, <1>5, <2>2
  <2> QED BY <2>1, <2>3
<1>7. PICK a \in Point, b \in Point, c \in Point :
        a = Place(t, k) /\ b = Place(t, Next3(k)) /\ c = Place(t, Next3(Next3(k)))
  BY <1>1, <1>4, PointsOfTriangle
<1>8. PICK d \in Point : d = Place(u, l)
  BY <1>1, PointsOfTriangle
<1>9. Place(u, Next3(l)) = b /\ Place(u, Next3(Next3(l))) = a
  BY <1>6, <1>7 DEF Place
<1>10. PICK q \in Point : q = p
  BY <1>1
<1>11. /\ Excess(circles[t], q) = Excess(Circle(a, b, c), q)
       /\ Excess(circles[t], d) = Excess(Circle(a, b, c), d)
       /\ circles[t].denom = Circle(a, b, c).denom
  BY <1>1, <1>7, CircleFrom
<1>12. /\ Excess(circles[u], q) = Excess(Circle(a, d, b), q)
       /\ circles[u].denom = Circle(a, d, b).denom
  <2>1. Excess(circles[u], q) = Excess(Circle(d, b, a), q) /\ circles[u].denom = Circle(d, b, a).denom
    BY <1>1, <1>8, <1>9, CircleFrom
  <2> QED BY <2>1, CircleTurns
<1>13. PICK D \in Nat \ {0}, E \in Nat \ {0} : D = circles[t].denom /\ E = circles[u].denom
  BY <1>1, DenominatorPositive
<1>14. PICK F \in Nat : F = Excess(circles[t], d)
  <2>1. mesh.triangles[u][l] \in Vertices
    BY <1>1, MeshShape
  <2>2. Excess(CircleOf(mesh, t), d) >= 0
    BY <1>1, <1>8, <2>1 DEF EmptyCircles, Triangles, Vertices, Place
  <2>3. Excess(CircleOf(mesh, t), d) \in Int
    BY <1>1, ExcessIsInt
  <2> QED BY <1>1, <2>2, <2>3
<1>15. PICK s \in Int : s = (q.x - b.x) * (a.y - b.y) - (a.x - b.x) * (q.y - b.y) /\ s < 0
  <2>1. a.x \in Int /\ a.y \in Int /\ b.x \in Int /\ b.y \in Int /\ q.x \in Int /\ q.y \in Int
    BY DEF Point
  <2>2. (b.x - q.x) * (a.y - q.y) > (a.x - q.x) * (b.y - q.y)
    BY <1>1, <1>2, <1>3, <1>7, <1>10 DEF Beyond, Corner, Place, OnRightSide
  <2>3. (q.x - b.x) * (a.y - b.y) - (a.x - b.x) * (q.y - b.y)
          = (a.x - q.x) * (b.y - q.y) - (b.x - q.x) * (a.y - q.y)
    BY <2>1
  <2> QED BY <2>1, <2>2, <2>3
<1>16. PICK there \in Int, here \in Int : there = Excess(circles[u], q) * D /\ here = Excess(circles[t], q) * E
  <2>1. Excess(circles[u], q) \in Int /\ Excess(circles[t], q) \in Int
    BY <1>1, ExcessIsInt
  <2> QED BY <2>1
<1>17. there - here = F * s
  BY <1>11, <1>12, <1>13, <1>14, <1>15, <1>16, PowersDiffer
<1>18. CASE F # 0
  <2>1. F * s < 0
    BY <1>15, <1>18
  <2>2. there < here
    BY <1>17, <2>1
  <2> QED BY <1>3, <1>5, <1>10, <1>13, <1>16, <2>2 DEF Downhill
<1>19. CASE F = 0
  <2>1. there = here
    BY <1>17, <1>19
  <2>2. ASSUME NEW m \in 0..2 PROVE Excess(circles[t], Place(u, m)) = 0
    <3>1. Excess(Circle(a, b, c), a) = 0 /\ Excess(Circle(a, b, c), b) = 0
      BY EndsOnCircle
    <3>2. Excess(circles[t], a) = 0 /\ Excess(circles[t], b) = 0 /\ Excess(circles[t], d) = 0
      BY <1>1, <1>7, <1>14, <1>19, <3>1, CircleFrom
    <3>3. m = l \/ m = Next3(l) \/ m = Next3(Next3(l))
      BY DEF Next3
    <3> QED BY <1>8, <1>9, <3>2, <3>3
  <2>3. OneCircle(t, u)
    BY <2>2 DEF OneCircle, Place
  <2> QED BY <1>3, <1>5, <1>10, <1>13, <1>16, <2>1, <2>3 DEF Downhill
<1> QED BY <1>18, <1>19

(* In one search no more triangles are flagged than there are.              *)
FlagsFew == Len(flagids) \in 0..ntriangles /\ Len(t_in) \in Nat

LEMMA FlagsFit ==
  ASSUME DelaunayTypeOK, FlagsTracked
  PROVE  FlagsFew
<1>1. mesh \in Meshes /\ flagids \in Seq(Triangles) /\ IsInjective(flagids)
  BY DEF DelaunayTypeOK, FlagsTracked
<1>2. Cardinality(Range(flagids)) = Len(flagids) /\ Len(flagids) \in Nat
  BY <1>1, EntriesCounted
<1>3. Range(flagids) \subseteq Triangles
  BY <1>1 DEF Range
<1>4. Cardinality(Range(flagids)) <= ntriangles
  BY <1>1, <1>3, MeshShape, FS_Subset DEF ntriangles
<1>5. Len(t_in) \in Nat
  BY DEF DelaunayTypeOK
<1> QED BY <1>1, <1>2, <1>4, <1>5, MeshShape DEF FlagsFew

(* The number of steps left, as it is after any step of the main cycle.     *)
LEMMA StepsBounded ==
  ASSUME NEW N \in Nat, NEW pops \in Nat, NEW j \in 0..3, NEW e \in Nat, e <= N, j = 3 => e = 0
  PROVE  0 <= pops * (3 * (N + 1) + 1) + (3 - j) * (N + 1) - e
<1>1. PICK W \in Nat : W = N + 1 /\ e < W
  OBVIOUS
<1>2. pops * (3 * W + 1) \in Nat
  OBVIOUS
<1>3. (3 - j) * W - e >= 0
  <2>1. CASE j = 3
    BY <2>1
  <2>2. CASE j = 0 \/ j = 1 \/ j = 2
    BY <1>1, <2>2
  <2> QED BY <2>1, <2>2
<1> QED BY <1>1, <1>2, <1>3

(* A step of the main cycle.                                                *)
LEMMA CycleAdvances ==
  ASSUME DelaunayTypeOK, DelaunayTypeOK', FlagsFew, FlagsFew', ListsExact, SearchInv, SearchInv',
         pc = "expand", pc' = "expand", Pop \/ PushAround
  PROVE  0 <= StepsLeft' /\ StepsLeft' < StepsLeft
<1>1. PICK N \in Nat : N = ntriangles
  BY MeshShape DEF DelaunayTypeOK
<1>2. ntriangles' = N /\ mesh' = mesh
  BY <1>1, SameMesh DEF Pop, PushAround, built
<1>3. /\ Len(flagids) \in 0..N /\ Len(flagids') \in 0..N
      /\ Len(t_in) \in Nat /\ Len(t_in') \in Nat
  BY <1>1, <1>2 DEF FlagsFew
<1>4. PICK W \in Nat : W = N + 1
  OBVIOUS
<1>5. PICK out \in Nat, inn \in Nat : out = N - Len(flagids) + Len(t_in) /\ inn = N - Len(flagids') + Len(t_in')
  <2>1. N - Len(flagids) + Len(t_in) \in Nat
    BY <1>3
  <2>2. N - Len(flagids') + Len(t_in') \in Nat
    BY <1>3
  <2> QED BY <2>1, <2>2, Zenon
<1>6. /\ StepsLeft = out * (3 * W + 1) + (3 - corner) * W - entry
      /\ StepsLeft' = inn * (3 * W + 1) + (3 - corner') * W - entry'
  BY <1>1, <1>2, <1>4, <1>5 DEF StepsLeft
<1>7. /\ corner \in 0..3 /\ entry \in Nat /\ (corner = 3 => entry = 0)
      /\ corner' \in 0..3 /\ entry' \in Nat /\ (corner' = 3 => entry' = 0)
  BY DEF DelaunayTypeOK, SearchInv, Expanding
<1> PICK j \in 0..3, e \in Nat : j = corner' /\ e = entry'
  BY <1>7
<1>8. CASE Pop
  <2>1. /\ t_in # <<>> /\ t_in \in Seq(Triangles) /\ t_in' = SubSeq(t_in, 1, Len(t_in) - 1)
        /\ flagids' = flagids /\ corner = 3 /\ entry = 0 /\ entry' = 0
    BY <1>7, <1>8 DEF Pop, DelaunayTypeOK
  <2>2. Len(t_in) \in Nat \ {0} /\ Len(t_in') = Len(t_in) - 1
    <3>1. Len(t_in) # 0
      BY <2>1, EmptySeq
    <3>2. PICK n \in Int : n = Len(t_in) - 1 /\ n >= 0
      <4>1. Len(t_in) - 1 \in Int /\ Len(t_in) - 1 >= 0
        BY <1>3, <3>1
      <4> QED BY <4>1, Zenon
    <3>3. \A i \in 1..n : t_in[i] \in Triangles
      BY <2>1, <3>2
    <3>4. Len(SubSeq(t_in, 1, n)) = IF 1 <= n THEN n - 1 + 1 ELSE 0
      BY <3>3, SubSeqProperties
    <3>5. Len(SubSeq(t_in, 1, n)) = n
      BY <3>2, <3>4
    <3> QED BY <1>3, <2>1, <3>1, <3>2, <3>5
  <2>3. out = inn + 1
    BY <1>3, <1>5, <2>1, <2>2
  <2>4. j = 0 \/ j = 3
    BY <1>8 DEF Pop
  <2>5. (inn + 1) * (3 * W + 1) = inn * (3 * W + 1) + 3 * W + 1
    OBVIOUS
  <2>6. StepsLeft' < StepsLeft
    <3>1. PICK x \in Nat : x = inn * (3 * W + 1)
      OBVIOUS
    <3>2. StepsLeft = x + 3 * W + 1
      BY <1>6, <2>1, <2>3, <2>5, <3>1
    <3>3. StepsLeft' = x + (3 - j) * W
      BY <1>6, <2>1, <3>1
    <3>4. CASE j = 0
      BY <3>2, <3>3, <3>4
    <3>5. CASE j = 3
      BY <3>2, <3>3, <3>5
    <3> QED BY <2>4, <3>4, <3>5
  <2>7. 0 <= StepsLeft'
    <3>1. e <= N /\ (j = 3 => e = 0)
      BY <2>1
    <3>2. 0 <= inn * (3 * (N + 1) + 1) + (3 - j) * (N + 1) - e
      BY <3>1, StepsBounded
    <3> QED BY <1>4, <1>6, <3>2
  <2> QED BY <2>6, <2>7
<1>9. CASE PushAround
  <2> DEFINE around == point_triangles[mesh.triangles[tid][corner]]
  <2>0. corner \in 0..2
    <3>1. corner < 3
      BY <1>9 DEF PushAround
    <3> QED BY <1>7, <3>1
  <2>1. PICK len \in Nat : len = Len(around) /\ len <= N /\ entry < len
    <3>1. mesh.triangles[tid][corner] \in Vertices
      BY <1>7, <2>0, MeshShape DEF DelaunayTypeOK
    <3>2. around \in Seq(Triangles) /\ IsInjective(around)
      BY <3>1 DEF DelaunayTypeOK, ListsExact, Building
    <3>3. Cardinality(Range(around)) = Len(around) /\ Len(around) \in Nat
      BY <3>2, EntriesCounted
    <3>4. Range(around) \subseteq Triangles
      BY <3>2 DEF Range
    <3>5. Cardinality(Range(around)) <= ntriangles
      BY <3>4, MeshShape, FS_Subset DEF ntriangles, DelaunayTypeOK
    <3> QED BY <1>1, <1>9, <3>3, <3>5 DEF PushAround
  <2> HIDE DEF around
  <2>2. corner < 3 /\ (\/ entry + 1 = len /\ entry' = 0 /\ corner' = corner + 1
                       \/ entry + 1 # len /\ entry' = entry + 1 /\ corner' = corner)
    BY <1>9, <2>1 DEF PushAround, around
  <2>3. out = inn
    <3>1. CASE UNCHANGED <<t_in, flagids>>
      BY <1>5, <3>1
    <3>2. CASE \E t \in Triangles : t_in' = Append(t_in, t) /\ flagids' = Append(flagids, t)
      <4>1. t_in \in Seq(Triangles) /\ flagids \in Seq(Triangles)
        BY DEF DelaunayTypeOK
      <4>2. Len(t_in') = Len(t_in) + 1 /\ Len(flagids') = Len(flagids) + 1
        BY <3>2, <4>1, AppendProperties
      <4>3. Len(t_in) \in Nat /\ Len(flagids) \in Nat
        BY <4>1
      <4> QED BY <1>5, <4>2, <4>3
    <3>3. \/ \E t \in Triangles : t_in' = Append(t_in, t) /\ flagids' = Append(flagids, t)
          \/ UNCHANGED <<t_in, flagids>>
      <4>1. around[entry + 1] \in Triangles
        <5>1. mesh.triangles[tid][corner] \in Vertices
          BY <2>0, MeshShape DEF DelaunayTypeOK
        <5>2. around \in Seq(Triangles)
          BY <5>1 DEF DelaunayTypeOK, around
        <5>3. entry + 1 \in 1..len
          BY <1>7, <2>1
        <5> QED BY <2>1, <5>2, <5>3
      <4> QED BY <1>9, <4>1 DEF PushAround, around
    <3> QED BY <3>1, <3>2, <3>3
  <2>4. StepsLeft' < StepsLeft
    <3>1. CASE entry + 1 = len /\ entry' = 0 /\ corner' = corner + 1
      <4>1. PICK x \in Nat, y \in Int : x = inn * (3 * W + 1) /\ y = (3 - corner) * W
        BY <1>7
      <4>2. (3 - corner') * W = y - W
        BY <1>7, <3>1, <4>1
      <4> QED BY <1>4, <1>6, <1>7, <2>1, <2>3, <3>1, <4>1, <4>2
    <3>2. CASE entry + 1 # len /\ entry' = entry + 1 /\ corner' = corner
      <4>1. PICK x \in Nat, y \in Int : x = inn * (3 * W + 1) /\ y = (3 - corner) * W
        BY <1>7
      <4> QED BY <1>6, <1>7, <2>3, <3>2, <4>1
    <3> QED BY <2>2, <3>1, <3>2
  <2>5. entry' <= N
    BY <1>7, <2>1, <2>2
  <2>6. 0 <= StepsLeft'
    <3>1. e <= N /\ (j = 3 => e = 0)
      BY <1>7, <2>5
    <3>2. 0 <= inn * (3 * (N + 1) + 1) + (3 - j) * (N + 1) - e
      BY <3>1, StepsBounded
    <3> QED BY <1>4, <1>6, <3>2
  <2> QED BY <2>4, <2>6
<1> QED BY <1>8, <1>9

(* The walk goes downhill, so that it can only come back to a triangle      *)
(* round triangles on one circle; and the main cycle gets nearer to its end *)
(* with every step, so that it takes no more than StepsLeft.                *)
THEOREM SearchesGetOn == DelaunaySpec => SearchProgresses
<1> DEFINE Inv == DelaunayTypeOK /\ FlagsTracked /\ ListsInv /\ LocatedInv /\ SearchInv
<1>1. DelaunayInit => Inv
  BY InitTyped, InitLists, InitLocated, NoFlags DEF DelaunayInit, FlagsTracked, SearchInv, ResultsRight
<1>2. Inv /\ [DelaunayNext]_vars => Inv'
  BY StepTyped, StepTracked, StepLists, ListsFit, StepLocated, StepSearch
<1>3. Inv /\ Inv' /\ [DelaunayNext]_vars => [Walk /\ pc' = "walk" => Downhill(tid, tid')]_vars
  BY WalkGoesDown
<1>4. Inv => FlagsFew
  BY FlagsFit
<1>5. Inv /\ Inv' /\ FlagsFew /\ FlagsFew' /\ [DelaunayNext]_vars
        => [pc = "expand" /\ pc' = "expand" => 0 <= StepsLeft' /\ StepsLeft' < StepsLeft]_vars
  <2> SUFFICES ASSUME Inv, Inv', FlagsFew, FlagsFew', DelaunayNext, pc = "expand", pc' = "expand"
               PROVE  0 <= StepsLeft' /\ StepsLeft' < StepsLeft
    OBVIOUS
  <2>1. Pop \/ PushAround
    BY DEF DelaunayNext, StoreTriangles, CountTriangles, AllocateLists, FillLists, CirclesFind, ReuseArray,
           Find, LinearSearch, ReuseSeed, Locate, Walk, Located, SeedFromLast, SeedFromAll, NotFound, Return
  <2> QED BY <2>1, CycleAdvances, ListsFit
<1> QED BY <1>1, <1>2, <1>3, <1>4, <1>5, PTL DEF DelaunaySpec, SearchProgresses, WalkDescends, ExpansionEnds
=============================================================================
