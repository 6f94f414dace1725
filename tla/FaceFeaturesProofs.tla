------------------------- MODULE FaceFeaturesProofs --------------------------
(***************************************************************************)
(* What a frame is computed from, for photos of any size and faces of any  *)
(* shape: what normalizePhotos and the eight calls of ApplyFeatures do to  *)
(* the landmarks, at any intensity; and the types of the two sides of a    *)
(* detection, its service included.                                        *)
(***************************************************************************)
EXTENDS MCFaces, FaceDetectProofs, SequenceTheorems, WellFoundedInduction

-----------------------------------------------------------------------------
(* Induction, for the sums and for the calls one after another.            *)

(* A set that 0 is in, and k + 1 with k, holds every natural number: those *)
(* it does not hold would have a least one.                                *)
LEMMA SetInduction ==
  ASSUME NEW S, 0 \in S, \A k \in Nat : k \in S => k + 1 \in S
  PROVE  Nat \subseteq S
<1> DEFINE Under == {ss \in Nat \X Nat : ss[1] < ss[2]}
<1> SUFFICES ASSUME Nat \ S # {} PROVE FALSE
  OBVIOUS
<1>1. IsWellFoundedOn(Under, Nat)
  BY NatLessThanWellFounded DEF OpToRel
<1>2. PICK m \in Nat \ S : \A k \in Nat \ S : ~(<<k, m>> \in Under)
  BY <1>1, WFMin
<1>3. m # 0 /\ m - 1 \in Nat /\ m - 1 < m /\ (m - 1) + 1 = m
  BY <1>2
<1>4. m - 1 \in S
  BY <1>2, <1>3 DEF Under
<1> QED BY <1>2, <1>3, <1>4

(* The recursive definition of the sums has a solution.                    *)
LEMMA SumsExist ==
  ASSUME NEW len \in Nat, NEW s, \A j \in 1..len : s[j] \in Int
  PROVE  \E f \in [0..len -> Int] : f = [j \in 0..len |-> IF j = 0 THEN 0 ELSE f[j - 1] + s[j]]
<1> DEFINE Solves(f, m) == \A j \in 0..m : f[j] = IF j = 0 THEN 0 ELSE f[j - 1] + s[j]
           G == {m \in Nat : m <= len => \E f \in [0..m -> Int] : Solves(f, m)}
<1>1. 0 \in G
  <2>1. [j \in 0..0 |-> 0] \in [0..0 -> Int] /\ Solves([j \in 0..0 |-> 0], 0)
    OBVIOUS
  <2> QED BY <2>1
<1>2. ASSUME NEW m \in Nat, m \in G PROVE m + 1 \in G
  <2> SUFFICES ASSUME m + 1 <= len PROVE \E f \in [0..(m + 1) -> Int] : Solves(f, m + 1)
    OBVIOUS
  <2>1. PICK f \in [0..m -> Int] : Solves(f, m)
    BY <1>2
  <2>2. s[m + 1] \in Int /\ f[m] \in Int
    OBVIOUS
  <2>3. [j \in 0..(m + 1) |-> IF j = m + 1 THEN f[m] + s[m + 1] ELSE f[j]] \in [0..(m + 1) -> Int]
    BY <2>2
  <2>4. PICK h \in [0..(m + 1) -> Int] :
          h = [j \in 0..(m + 1) |-> IF j = m + 1 THEN f[m] + s[m + 1] ELSE f[j]]
    BY <2>3
  <2>5. h[m + 1] = f[m] + s[m + 1] /\ \A j \in 0..m : h[j] = f[j]
    BY <2>4
  <2>6. ASSUME NEW j \in 0..(m + 1) PROVE h[j] = IF j = 0 THEN 0 ELSE h[j - 1] + s[j]
    <3>1. CASE j = m + 1
      BY <2>5, <3>1
    <3>2. CASE j \in 0..m
      <4>1. j # 0 => j - 1 \in 0..m
        BY <3>2
      <4> QED BY <2>1, <2>5, <3>2, <4>1
    <3> QED BY <3>1, <3>2
  <2> QED BY <2>6
<1>3. len \in G
  <2> HIDE DEF G
  <2> QED BY <1>1, <1>2, SetInduction
<1>4. PICK f \in [0..len -> Int] : Solves(f, len)
  BY <1>3
<1>5. f = [j \in 0..len |-> IF j = 0 THEN 0 ELSE f[j - 1] + s[j]]
  BY <1>4
<1> QED BY <1>5

(* The sums of a sequence, one after another.                              *)
LEMMA SumsAre ==
  ASSUME NEW len \in Nat, NEW s, Len(s) = len, \A j \in 1..len : s[j] \in Int
  PROVE  /\ Sums(s) \in [0..len -> Int] /\ Sums(s)[0] = 0
         /\ \A j \in 1..len : Sums(s)[j] = Sums(s)[j - 1] + s[j]
<1> DEFINE IsSum(f) == f = [j \in 0..len |-> IF j = 0 THEN 0 ELSE f[j - 1] + s[j]]
<1>1. PICK f \in [0..len -> Int] : IsSum(f)
  BY SumsExist
<1>2. Sums(s) = CHOOSE h : IsSum(h)
  BY DEF Sums
<1>3. IsSum(Sums(s))
  BY <1>1, <1>2
<1>4. PICK h : h = Sums(s)
  OBVIOUS
<1>5. /\ \A j \in 0..len : h[j] = IF j = 0 THEN 0 ELSE h[j - 1] + s[j]
      /\ \A j \in 0..len : f[j] = IF j = 0 THEN 0 ELSE f[j - 1] + s[j]
      /\ h = [j \in 0..len |-> h[j]]
  <2>1. h = [j \in 0..len |-> IF j = 0 THEN 0 ELSE h[j - 1] + s[j]]
    BY <1>3, <1>4
  <2> QED BY <1>1, <2>1
<1> DEFINE G == {m \in Nat : m <= len => h[m] = f[m]}
<1>6. 0 \in G
  <2>1. 0 \in 0..len
    OBVIOUS
  <2>2. h[0] = 0 /\ f[0] = 0
    BY <1>5, <2>1
  <2> QED BY <2>2
<1>7. ASSUME NEW m \in Nat, m \in G PROVE m + 1 \in G
  <2> SUFFICES ASSUME m + 1 \in 0..len PROVE h[m + 1] = f[m + 1]
    OBVIOUS
  <2>1. h[m] = f[m] /\ m + 1 # 0 /\ (m + 1) - 1 = m /\ m <= len
    BY <1>7
  <2>2. h[m + 1] = h[m] + s[m + 1] /\ f[m + 1] = f[m] + s[m + 1]
    BY <1>5, <2>1
  <2> QED BY <2>1, <2>2
<1>8. Nat \subseteq G
  <2> HIDE DEF G
  <2> QED BY <1>6, <1>7, SetInduction
<1>9. ASSUME NEW j \in 0..len PROVE h[j] = f[j] /\ f[j] \in Int
  <2>1. j \in G
    <3> HIDE DEF G
    <3> QED BY <1>8
  <2> QED BY <1>1, <2>1
<1>10. h \in [0..len -> Int]
  BY <1>5, <1>9
<1>11. h[0] = 0
  <2>1. 0 \in 0..len
    OBVIOUS
  <2> QED BY <1>5, <2>1
<1>12. ASSUME NEW j \in 1..len PROVE h[j] = h[j - 1] + s[j]
  <2>1. j \in 0..len /\ j # 0
    OBVIOUS
  <2> QED BY <1>5, <2>1
<1> QED BY <1>4, <1>10, <1>11, <1>12

(* A linear equation between the entries holds between the sums.           *)
SumsCombine(s, t, u, len) ==
  \A a, b, c, d \in Int :
    (\A j \in 1..len : a * s[j] = b * t[j] + c * u[j] + d)
      => a * Sums(s)[len] = b * Sums(t)[len] + c * Sums(u)[len] + d * len

(* Where all entries are numbers, sums combine as entries do.              *)
LEMMA SumsCombined ==
  ASSUME NEW len \in Nat, NEW s, NEW t, NEW u, Len(s) = len, Len(t) = len, Len(u) = len,
         \A j \in 1..len : s[j] \in Int /\ t[j] \in Int /\ u[j] \in Int
  PROVE  SumsCombine(s, t, u, len)
<1> SUFFICES ASSUME NEW a \in Int, NEW b \in Int, NEW c \in Int, NEW d \in Int,
                    \A j \in 1..len : a * s[j] = b * t[j] + c * u[j] + d
             PROVE  a * Sums(s)[len] = b * Sums(t)[len] + c * Sums(u)[len] + d * len
  BY DEF SumsCombine
<1>1. /\ Sums(s) \in [0..len -> Int] /\ Sums(s)[0] = 0
      /\ \A j \in 1..len : Sums(s)[j] = Sums(s)[j - 1] + s[j]
  BY SumsAre
<1>2. /\ Sums(t) \in [0..len -> Int] /\ Sums(t)[0] = 0
      /\ \A j \in 1..len : Sums(t)[j] = Sums(t)[j - 1] + t[j]
  BY SumsAre
<1>3. /\ Sums(u) \in [0..len -> Int] /\ Sums(u)[0] = 0
      /\ \A j \in 1..len : Sums(u)[j] = Sums(u)[j - 1] + u[j]
  BY SumsAre
<1> DEFINE Holds(m) == a * Sums(s)[m] = b * Sums(t)[m] + c * Sums(u)[m] + d * m
           G == {m \in Nat : m <= len => Holds(m)}
<1>4. 0 \in G
  BY <1>1, <1>2, <1>3
<1>5. ASSUME NEW m \in Nat, m \in G PROVE m + 1 \in G
  <2> SUFFICES ASSUME m + 1 <= len PROVE Holds(m + 1)
    OBVIOUS
  <2>1. m \in 0..len /\ m + 1 \in 1..len /\ (m + 1) - 1 = m /\ Holds(m)
    BY <1>5
  <2>2. PICK ss \in Int, tt \in Int, uu \in Int :
          ss = Sums(s)[m] /\ tt = Sums(t)[m] /\ uu = Sums(u)[m]
    BY <1>1, <1>2, <1>3, <2>1
  <2>3. PICK sj \in Int, tj \in Int, uj \in Int :
          sj = s[m + 1] /\ tj = t[m + 1] /\ uj = u[m + 1]
    BY <2>1
  <2>4. Sums(s)[m + 1] = ss + sj /\ Sums(t)[m + 1] = tt + tj /\ Sums(u)[m + 1] = uu + uj
    BY <1>1, <1>2, <1>3, <2>1, <2>2, <2>3
  <2>5. a * ss = b * tt + c * uu + d * m /\ a * sj = b * tj + c * uj + d
    BY <2>1, <2>2, <2>3
  <2>6. a * (ss + sj) = b * (tt + tj) + c * (uu + uj) + d * (m + 1)
    BY <2>5
  <2> QED BY <2>4, <2>6
<1>6. Nat \subseteq G
  <2> HIDE DEF G
  <2> QED BY <1>4, <1>5, SetInduction
<1> QED BY <1>6

-----------------------------------------------------------------------------
(* The groups.                                                             *)

(* s holds every element of S, each once.                                  *)
Lists(s, S) ==
  /\ s \in Seq(S) /\ Len(s) \in Nat \ {0}
  /\ \A v \in S : \E j \in 1..Len(s) : s[j] = v
  /\ \A j, k \in 1..Len(s) : s[j] = s[k] => j = k

(* A single landmark.                                                      *)
LEMMA OneListed == ASSUME NEW x PROVE Lists(<<x>>, {x})
<1>1. <<x>> \in Seq({x}) /\ Len(<<x>>) = 1 /\ <<x>>[1] = x
  OBVIOUS
<1>2. 1..1 = {1}
  OBVIOUS
<1> QED BY <1>1, <1>2 DEF Lists

(* A run of landmarks.                                                     *)
LEMMA RunListed ==
  ASSUME NEW a \in Int, NEW b \in Int, a <= b
  PROVE  Lists(Run(a, b), a..b)
<1>1. PICK len \in Nat \ {0} : len = b - a + 1
  OBVIOUS
<1>2. PICK f : f = [j \in 1..len |-> a + j - 1]
  OBVIOUS
<1>3. Run(a, b) = f
  BY <1>1, <1>2 DEF Run
<1>4. f \in [1..len -> a..b] /\ \A j \in 1..len : f[j] = a + j - 1
  BY <1>1, <1>2
<1>5. f \in Seq(a..b) /\ Len(f) = len
  BY <1>2, <1>4
<1>6. ASSUME NEW v \in a..b PROVE \E j \in 1..len : f[j] = v
  <2>1. v - a + 1 \in 1..len
    BY <1>1
  <2>2. f[v - a + 1] = v
    BY <1>4, <2>1
  <2> QED BY <2>1, <2>2
<1>7. \A j, k \in 1..len : f[j] = f[k] => j = k
  BY <1>4
<1> QED BY <1>3, <1>5, <1>6, <1>7 DEF Lists

(* Two lists of different landmarks, one behind the other.                 *)
LEMMA JoinListed ==
  ASSUME NEW p, NEW P, Lists(p, P), NEW q, NEW Q, Lists(q, Q), P \cap Q = {}
  PROVE  Lists(p \o q, P \cup Q)
<1>1. PICK a \in Nat \ {0}, b \in Nat \ {0} : a = Len(p) /\ b = Len(q)
  BY DEF Lists
<1>2. /\ p \in Seq(P \cup Q) /\ q \in Seq(P \cup Q)
      /\ \A j \in 1..a : p[j] \in P
      /\ \A j \in 1..b : q[j] \in Q
  BY <1>1, ElementOfSeq DEF Lists
<1>3. PICK r : r = p \o q
  OBVIOUS
<1>4. r \in Seq(P \cup Q) /\ Len(r) = a + b
  BY <1>1, <1>2, <1>3, ConcatProperties
<1>5. \A j \in 1..(a + b) : r[j] = IF j <= a THEN p[j] ELSE q[j - a]
  BY <1>1, <1>2, <1>3, ConcatProperties
<1>6. \A j \in 1..a : r[j] = p[j]
  BY <1>5
<1>7. ASSUME NEW j \in 1..b PROVE j + a \in 1..(a + b) /\ r[j + a] = q[j]
  <2>1. j + a \in 1..(a + b) /\ ~(j + a <= a) /\ (j + a) - a = j
    OBVIOUS
  <2> QED BY <1>5, <2>1
<1>8. /\ \A v \in P : \E j \in 1..a : p[j] = v
      /\ \A v \in Q : \E j \in 1..b : q[j] = v
      /\ \A j, k \in 1..a : p[j] = p[k] => j = k
      /\ \A j, k \in 1..b : q[j] = q[k] => j = k
  BY <1>1 DEF Lists
<1>9. ASSUME NEW v \in P \cup Q PROVE \E j \in 1..(a + b) : r[j] = v
  <2>1. CASE v \in P
    <3>1. PICK j \in 1..a : p[j] = v
      BY <1>8, <2>1
    <3>2. j \in 1..(a + b)
      OBVIOUS
    <3> QED BY <1>6, <3>1, <3>2
  <2>2. CASE v \in Q
    <3>1. PICK j \in 1..b : q[j] = v
      BY <1>8, <2>2
    <3> QED BY <1>7, <3>1
  <2> QED BY <2>1, <2>2
<1>10. ASSUME NEW j \in 1..(a + b)
       PROVE  \/ j \in 1..a /\ r[j] = p[j] /\ r[j] \in P
              \/ j - a \in 1..b /\ r[j] = q[j - a] /\ r[j] \in Q
  <2>1. CASE j \in 1..a
    BY <1>2, <1>6, <2>1
  <2>2. CASE j - a \in 1..b
    BY <1>2, <1>5, <2>2
  <2> QED BY <2>1, <2>2
<1>11. ASSUME NEW j \in 1..(a + b), NEW k \in 1..(a + b), r[j] = r[k] PROVE j = k
  <2>1. CASE j \in 1..a /\ r[j] = p[j] /\ r[j] \in P
    <3>1. k \in 1..a /\ r[k] = p[k]
      BY <1>10, <1>11, <2>1
    <3> QED BY <1>8, <1>11, <2>1, <3>1
  <2>2. CASE j - a \in 1..b /\ r[j] = q[j - a] /\ r[j] \in Q
    <3>1. k - a \in 1..b /\ r[k] = q[k - a]
      BY <1>10, <1>11, <2>2
    <3>2. j - a = k - a
      BY <1>8, <1>11, <2>2, <3>1
    <3> QED BY <3>2
  <2> QED BY <1>10, <2>1, <2>2
<1>12. a + b \in Nat \ {0}
  OBVIOUS
<1> QED BY <1>3, <1>4, <1>9, <1>11, <1>12 DEF Lists

(* The tables of landmarks: no landmark is twice in a group, and the two    *)
(* halves of the mouth are the only groups that share some.                *)
GroupOf(g) ==
  CASE g = "le" -> 36..41 [] g = "re" -> 42..47 [] g = "leb" -> 17..21 [] g = "reb" -> 22..26
    [] g = "nu" -> 27..30 [] g = "nd" -> 31..35 [] g = "mu" -> 48..54 \cup 60..64
    [] g = "md" -> 54..60 \cup 64..67 \cup {48}

(* The names of the eight groups.                                          *)
LEMMA GroupNames == Groups = {"le", "re", "leb", "reb", "nu", "nd", "mu", "md"}
BY DEF Groups, Vids

(* The tables of DLibDefaultFaceStruct list the landmarks of their groups. *)
LEMMA GroupsListed == \A g \in Groups : Lists(Vids[g], GroupOf(g))
<1>0. /\ 17 \in Int /\ 21 \in Int /\ 17 <= 21 /\ 22 \in Int /\ 26 \in Int /\ 22 <= 26
      /\ 27 \in Int /\ 30 \in Int /\ 27 <= 30 /\ 31 \in Int /\ 35 \in Int /\ 31 <= 35
      /\ 36 \in Int /\ 41 \in Int /\ 36 <= 41 /\ 42 \in Int /\ 47 \in Int /\ 42 <= 47
      /\ 48 \in Int /\ 54 \in Int /\ 48 <= 54 /\ 54 \in Int /\ 59 \in Int /\ 54 <= 59
      /\ 60 \in Int /\ 64 \in Int /\ 60 <= 64 /\ 64 \in Int /\ 67 \in Int /\ 64 <= 67
  OBVIOUS
<1>1. /\ Lists(Vids["le"], 36..41) /\ Lists(Vids["re"], 42..47) /\ Lists(Vids["leb"], 17..21)
      /\ Lists(Vids["reb"], 22..26) /\ Lists(Vids["nu"], 27..30) /\ Lists(Vids["nd"], 31..35)
  <2>1. Lists(Run(36, 41), 36..41) /\ Lists(Run(42, 47), 42..47)
    BY <1>0, RunListed, Zenon
  <2>2. Lists(Run(17, 21), 17..21) /\ Lists(Run(22, 26), 22..26)
    BY <1>0, RunListed, Zenon
  <2>3. Lists(Run(27, 30), 27..30) /\ Lists(Run(31, 35), 31..35)
    BY <1>0, RunListed, Zenon
  <2> QED BY <2>1, <2>2, <2>3 DEF Vids
<1>2. Lists(Vids["mu"], 48..54 \cup 60..64)
  <2>1. Lists(Run(48, 54), 48..54) /\ Lists(Run(60, 64), 60..64)
    BY <1>0, RunListed, Zenon
  <2>2. (48..54) \cap (60..64) = {}
    OBVIOUS
  <2> QED BY <2>1, <2>2, JoinListed DEF Vids
<1>3. Lists(Vids["md"], 54..60 \cup 64..67 \cup {48})
  <2>1. Lists(Run(54, 59), 54..59) /\ Lists(Run(64, 67), 64..67)
    BY <1>0, RunListed, Zenon
  <2>2. Lists(<<48>>, {48}) /\ Lists(<<60>>, {60})
    BY OneListed
  <2>3. (54..59) \cap {48} = {}
    OBVIOUS
  <2>4. Lists(Run(54, 59) \o <<48>>, (54..59) \cup {48})
    BY <2>1, <2>2, <2>3, JoinListed
  <2>5. ((54..59) \cup {48}) \cap (64..67) = {}
    OBVIOUS
  <2>6. Lists(Run(54, 59) \o <<48>> \o Run(64, 67), ((54..59) \cup {48}) \cup (64..67))
    BY <2>1, <2>4, <2>5, JoinListed
  <2>7. (((54..59) \cup {48}) \cup (64..67)) \cap {60} = {}
    OBVIOUS
  <2>8. Lists(Run(54, 59) \o <<48>> \o Run(64, 67) \o <<60>>, (((54..59) \cup {48}) \cup (64..67)) \cup {60})
    BY <2>2, <2>6, <2>7, JoinListed
  <2>9. (((54..59) \cup {48}) \cup (64..67)) \cup {60} = 54..60 \cup 64..67 \cup {48}
    OBVIOUS
  <2>10. Vids["md"] = Run(54, 59) \o <<48>> \o Run(64, 67) \o <<60>>
    BY DEF Vids
  <2> QED BY <2>8, <2>9, <2>10
<1>4. ASSUME NEW g \in Groups PROVE Lists(Vids[g], GroupOf(g))
  <2>1. CASE g = "le" BY <1>1, <2>1 DEF GroupOf
  <2>2. CASE g = "re" BY <1>1, <2>2 DEF GroupOf
  <2>3. CASE g = "leb" BY <1>1, <2>3 DEF GroupOf
  <2>4. CASE g = "reb" BY <1>1, <2>4 DEF GroupOf
  <2>5. CASE g = "nu" BY <1>1, <2>5 DEF GroupOf
  <2>6. CASE g = "nd" BY <1>1, <2>6 DEF GroupOf
  <2>7. CASE g = "mu" BY <1>2, <2>7 DEF GroupOf
  <2>8. CASE g = "md" BY <1>3, <2>8 DEF GroupOf
  <2> QED BY <2>1, <2>2, <2>3, <2>4, <2>5, <2>6, <2>7, <2>8, GroupNames
<1> QED BY <1>4

(* The same, index by index.                                               *)
LEMMA GroupsAre ==
  ASSUME NEW g \in Groups
  PROVE  /\ Len(Vids[g]) \in Nat \ {0} /\ DOMAIN Vids[g] = 1..Len(Vids[g])
         /\ \A j \in 1..Len(Vids[g]) : Vids[g][j] \in GroupOf(g) /\ Vids[g][j] \in 0..67
         /\ \A v \in GroupOf(g) : \E j \in 1..Len(Vids[g]) : Vids[g][j] = v
         /\ \A j, k \in 1..Len(Vids[g]) : Vids[g][j] = Vids[g][k] => j = k
<1>1. GroupOf(g) \subseteq 0..67
  BY GroupNames DEF GroupOf
<1>2. Lists(Vids[g], GroupOf(g))
  BY GroupsListed
<1>3. Vids[g] \in Seq(GroupOf(g)) /\ Len(Vids[g]) \in Nat \ {0}
  BY <1>2 DEF Lists
<1>4. \A j \in 1..Len(Vids[g]) : Vids[g][j] \in GroupOf(g)
  BY <1>3, ElementOfSeq
<1>5. DOMAIN Vids[g] = 1..Len(Vids[g])
  BY <1>3, LenProperties
<1>6. /\ \A v \in GroupOf(g) : \E j \in 1..Len(Vids[g]) : Vids[g][j] = v
      /\ \A j, k \in 1..Len(Vids[g]) : Vids[g][j] = Vids[g][k] => j = k
  BY <1>2 DEF Lists
<1> QED BY <1>1, <1>3, <1>4, <1>5, <1>6

(* The landmarks of a group in a photo, and their mean.                    *)
LEMMA PhotosAre ==
  ASSUME NEW p \in Photos
  PROVE  /\ p.points \in [0..67 -> Int] /\ p.face \in Nat \ {0}
         /\ \A v \in 0..70 : KeyPoints(p)[v] \in Int
         /\ \A v \in 0..67 : KeyPoints(p)[v] = p.points[v]
<1>1. p.points \in [0..67 -> Int] /\ p.face \in Nat \ {0}
  BY FeaturesAssumption
<1>2. PICK f \in [0..67 -> Int] : f = p.points
  BY <1>1
<1>3. PICK brow \in Int : brow = (f[19] + f[24]) \div 2
  OBVIOUS
<1>4. f[27] \in Int /\ f[30] \in Int
  OBVIOUS
<1>5. KeyPoints(p) = [v \in 0..70 |-> CASE v = 68 -> brow [] v = 69 -> 2 * brow - f[27]
                                       [] v = 70 -> 2 * brow - f[30] [] OTHER -> f[v]]
  BY <1>2, <1>3 DEF KeyPoints
<1>6. ASSUME NEW v \in 0..67 PROVE KeyPoints(p)[v] = f[v] /\ f[v] \in Int
  BY <1>5
<1>7. KeyPoints(p)[68] = brow /\ KeyPoints(p)[69] = 2 * brow - f[27] /\ KeyPoints(p)[70] = 2 * brow - f[30]
  BY <1>5
<1>8. \A v \in 0..70 : v \in 0..67 \/ v = 68 \/ v = 69 \/ v = 70
  OBVIOUS
<1>9. ASSUME NEW v \in 0..70 PROVE KeyPoints(p)[v] \in Int
  <2>1. CASE v \in 0..67
    BY <1>6, <2>1
  <2>2. CASE v \notin 0..67
    BY <1>4, <1>7, <1>8, <2>2
  <2> QED BY <2>1, <2>2
<1> QED BY <1>1, <1>2, <1>6, <1>9

(* The landmarks of a group and their mean are numbers.                    *)
LEMMA MeansAre ==
  ASSUME NEW p \in Photos, NEW g \in Groups
  PROVE  /\ Len(GroupPoints(p, g)) = Len(Vids[g])
         /\ \A j \in 1..Len(Vids[g]) : /\ GroupPoints(p, g)[j] = p.points[Vids[g][j]]
                                       /\ GroupPoints(p, g)[j] = KeyPoints(p)[Vids[g][j]]
                                       /\ GroupPoints(p, g)[j] \in Int
         /\ MeanOfPoints(GroupPoints(p, g)) \in Int
<1>1. PICK len \in Nat \ {0} : len = Len(Vids[g])
  BY GroupsAre
<1>2. \A j \in 1..len : Vids[g][j] \in 0..67
  BY <1>1, GroupsAre
<1>3. PICK s : s = GroupPoints(p, g)
  OBVIOUS
<1>4. s = [j \in 1..len |-> KeyPoints(p)[Vids[g][j]]]
  BY <1>1, <1>3 DEF GroupPoints
<1>5. \A j \in 1..len : s[j] = KeyPoints(p)[Vids[g][j]] /\ s[j] = p.points[Vids[g][j]] /\ s[j] \in Int
  <2>1. \A v \in 0..67 : KeyPoints(p)[v] = p.points[v] /\ p.points[v] \in Int
    BY PhotosAre
  <2> QED BY <1>2, <1>4, <2>1
<1>6. Len(s) = len
  BY <1>4
<1>7. Sums(s)[len] \in Int
  BY <1>5, <1>6, SumsAre
<1>8. MeanOfPoints(s) \in Int
  BY <1>6, <1>7 DEF MeanOfPoints
<1> QED BY <1>1, <1>3, <1>5, <1>6, <1>8
-----------------------------------------------------------------------------
(* The invariant: groups are those of the items or empty, the filter's own  *)
(* are rescaled from them, and a frame is of the items as they are.         *)

ItemsInv == item \in [Roles -> Photos \cup {NoPhoto}]

ExtractedInv ==
  /\ features = [r \in Roles |-> features[r]]
  /\ \A r \in Roles :
       features[r] # NoFeatures => /\ item[r] \in Photos /\ item[r].face >= TinyFace
                                   /\ features[r] = ExtractFeatures(item[r])

BlendedInv ==
  normalized =>
    /\ \A r \in Roles : item[r] \in Photos
    /\ blended = [g \in Groups |-> NormalizeFeature(features["mine"][g])]

Calls(points, k) ==
  /\ points[0] = TextureCoordinate(item["model"])
  /\ \A j \in 1..Len(ApplyOrder) : points[j] = ApplyFeatures(points[j - 1], ApplyOrder[j], k)

FrameInv ==
  frame.complete =>
    /\ normalized /\ \A r \in Roles : features[r] # NoFeatures
    /\ frame.k \in 0..IntensitySteps
    /\ frame.mine = item["mine"] /\ frame.model = item["model"]
    /\ \E points : Calls(points, frame.k) /\ np_list = points[Len(ApplyOrder)]

FeaturesInv == ItemsInv /\ ExtractedInv /\ BlendedInv /\ FrameInv

(* Before anything is detected.                                            *)
LEMMA InitFeatures == FeaturesInit => FeaturesInv
BY DEF FeaturesInit, FeaturesInv, ItemsInv, ExtractedInv, BlendedInv, FrameInv, NoFrame

(* The eight calls, one after another: the recursive definition has a        *)
(* solution.                                                                *)
LEMMA AppliedIs == ASSUME NEW k PROVE Calls(Applied(k), k)
<1> DEFINE start == TextureCoordinate(item["model"])
           Solves(f, m) == f = [j \in 0..m |-> IF j = 0 THEN start
                                               ELSE ApplyFeatures(f[j - 1], ApplyOrder[j], k)]
           G == {m \in Nat : \E f : Solves(f, m)}
<1>1. 0 \in G
  <2>1. PICK f : f = [j \in 0..0 |-> start]
    OBVIOUS
  <2>2. Solves(f, 0)
    BY <2>1
  <2> QED BY <2>2
<1>2. ASSUME NEW m \in Nat, m \in G PROVE m + 1 \in G
  <2>1. PICK f : Solves(f, m)
    BY <1>2
  <2>2. PICK h : h = [j \in 0..(m + 1) |-> IF j = m + 1 THEN ApplyFeatures(f[m], ApplyOrder[m + 1], k)
                                           ELSE f[j]]
    OBVIOUS
  <2>3. ASSUME NEW j \in 0..(m + 1)
        PROVE  h[j] = IF j = 0 THEN start ELSE ApplyFeatures(h[j - 1], ApplyOrder[j], k)
    <3>1. CASE j = m + 1
      <4>1. h[m + 1] = ApplyFeatures(f[m], ApplyOrder[m + 1], k) /\ h[m] = f[m]
        BY <2>2
      <4> QED BY <3>1, <4>1
    <3>2. CASE j \in 0..m
      <4>1. h[j] = f[j] /\ (j # 0 => j - 1 \in 0..m /\ h[j - 1] = f[j - 1])
        BY <2>2, <3>2
      <4> QED BY <2>1, <3>2, <4>1
    <3> QED BY <3>1, <3>2
  <2>4. Solves(h, m + 1)
    <3>1. h = [j \in 0..(m + 1) |-> h[j]]
      BY <2>2
    <3> QED BY <2>3, <3>1
  <2> QED BY <2>4
<1>3. Len(ApplyOrder) \in Nat
  BY DEF ApplyOrder
<1>4. Len(ApplyOrder) \in G
  <2> HIDE DEF G
  <2> QED BY <1>1, <1>2, <1>3, SetInduction
<1>5. PICK f : Solves(f, Len(ApplyOrder))
  BY <1>4
<1>6. Applied(k) = CHOOSE h : Solves(h, Len(ApplyOrder))
  BY DEF Applied
<1>7. Solves(Applied(k), Len(ApplyOrder))
  BY <1>5, <1>6
<1>8. PICK h : h = Applied(k)
  OBVIOUS
<1>9. \A j \in 0..Len(ApplyOrder) :
        h[j] = IF j = 0 THEN start ELSE ApplyFeatures(h[j - 1], ApplyOrder[j], k)
  BY <1>7, <1>8
<1>10. 0 \in 0..Len(ApplyOrder) /\ \A j \in 1..Len(ApplyOrder) : j \in 0..Len(ApplyOrder) /\ j # 0
  BY <1>3
<1> QED BY <1>8, <1>9, <1>10 DEF Calls

(* An item or its groups change: nothing is normalized, no frame drawn.     *)
LEMMA GroupsChange ==
  ASSUME ItemsInv', ExtractedInv', normalized' = FALSE, Freed
  PROVE  FeaturesInv'
BY DEF FeaturesInv, BlendedInv, FrameInv, Freed, NoFrame

(* A face too small has no groups.                                          *)
LEMMA TinyFaces ==
  ASSUME NEW p \in Photos, ~(p.face >= TinyFace)
  PROVE  ExtractFeatures(p) = NoFeatures
<1>1. p.face < TinyFace
  BY PhotosAre, FeaturesAssumption
<1> QED BY <1>1 DEF ExtractFeatures, NoFeatures

(* A new item with its groups.                                             *)
LEMMA DetectStep ==
  ASSUME FeaturesInv, NEW r \in Roles, NEW p \in Photos, DetectFeatures(r, p)
  PROVE  FeaturesInv'
<1>1. /\ item' = [item EXCEPT ![r] = p] /\ features' = [features EXCEPT ![r] = ExtractFeatures(p)]
      /\ normalized' = FALSE /\ Freed
  BY DEF DetectFeatures
<1>2. ItemsInv'
  BY <1>1 DEF FeaturesInv, ItemsInv
<1>3. DOMAIN item = Roles /\ features = [q \in Roles |-> features[q]]
  BY DEF FeaturesInv, ItemsInv, ExtractedInv
<1>4. ASSUME NEW q \in Roles, features'[q] # NoFeatures
      PROVE  item'[q] \in Photos /\ item'[q].face >= TinyFace /\ features'[q] = ExtractFeatures(item'[q])
  <2>1. CASE q = r
    BY <1>1, <1>3, <1>4, <2>1, TinyFaces
  <2>2. CASE q # r
    BY <1>1, <1>3, <1>4, <2>2 DEF FeaturesInv, ExtractedInv
  <2> QED BY <2>1, <2>2
<1>5. ExtractedInv'
  <2>1. features' = [q \in Roles |-> features'[q]]
    BY <1>1, <1>3
  <2>2. \A q : ExtractFeatures(item[q])' = ExtractFeatures(item'[q])
    BY DEF ExtractFeatures
  <2> QED BY <1>4, <2>1, <2>2 DEF ExtractedInv
<1> QED BY <1>1, <1>2, <1>5, GroupsChange

(* An item comes back from an archive, or is extracted again.              *)
LEMMA DecodeStep ==
  ASSUME FeaturesInv, NEW r \in Roles, Decode(r) \/ Extract(r)
  PROVE  FeaturesInv'
<1>1. /\ item' = item /\ item[r] # NoPhoto /\ normalized' = FALSE /\ Freed
      /\ \/ features' = [features EXCEPT ![r] = NoFeatures]
         \/ features' = features
         \/ item[r].face >= TinyFace /\ features' = [features EXCEPT ![r] = ExtractFeatures(item[r])]
  <2>1. CASE Decode(r)
    BY <2>1 DEF Decode
  <2>2. CASE Extract(r)
    <3>1. item[r] \in Photos
      BY <2>2 DEF Extract, FeaturesInv, ItemsInv
    <3>2. item[r].face < TinyFace \/ item[r].face >= TinyFace
      BY <3>1, PhotosAre, FeaturesAssumption
    <3>3. features = [features EXCEPT ![r] = features[r]]
      BY DEF FeaturesInv, ExtractedInv
    <3>4. item[r].face >= TinyFace => ~(item[r].face < TinyFace)
      BY <3>1, PhotosAre, FeaturesAssumption
    <3>5. item' = item /\ item[r] # NoPhoto /\ normalized' = FALSE /\ Freed
      BY <2>2 DEF Extract
    <3>6. features' = [features EXCEPT ![r] = IF item[r].face < TinyFace THEN features[r]
                                              ELSE ExtractFeatures(item[r])]
      BY <2>2 DEF Extract
    <3> QED BY <3>2, <3>3, <3>4, <3>5, <3>6
  <2> QED BY <2>1, <2>2
<1>2. ItemsInv'
  BY <1>1 DEF FeaturesInv, ItemsInv
<1>3. features = [q \in Roles |-> features[q]] /\ item[r] \in Photos
  BY <1>1 DEF FeaturesInv, ItemsInv, ExtractedInv
<1>4. ASSUME NEW q \in Roles, features'[q] # NoFeatures
      PROVE  item[q] \in Photos /\ item[q].face >= TinyFace /\ features'[q] = ExtractFeatures(item[q])
  BY <1>1, <1>3, <1>4 DEF FeaturesInv, ExtractedInv
<1>5. ExtractedInv'
  <2>1. features' = [q \in Roles |-> features'[q]]
    BY <1>1, <1>3
  <2>2. \A q : ExtractFeatures(item[q])' = ExtractFeatures(item[q])
    BY <1>1 DEF ExtractFeatures
  <2> QED BY <1>1, <1>4, <2>1, <2>2 DEF ExtractedInv
<1> QED BY <1>1, <1>2, <1>5, GroupsChange

(* normalizePhotos.                                                        *)
LEMMA NormalizeStep == FeaturesInv /\ NormalizePhotos => FeaturesInv'
<1> SUFFICES ASSUME FeaturesInv, NormalizePhotos PROVE FeaturesInv'
  OBVIOUS
<1>1. /\ item' = item /\ features' = features /\ Freed
      /\ blended' = [g \in Groups |-> NormalizeFeature(features["mine"][g])]
      /\ \A r \in Roles : item[r] # NoPhoto
  BY DEF NormalizePhotos
<1>2. ItemsInv' /\ \A r \in Roles : item[r] \in Photos
  BY <1>1 DEF FeaturesInv, ItemsInv
<1>3. \A q : ExtractFeatures(item[q])' = ExtractFeatures(item[q])
  BY <1>1 DEF ExtractFeatures
<1>4. ExtractedInv'
  BY <1>1, <1>3 DEF FeaturesInv, ExtractedInv
<1>5. \A g : NormalizeFeature(features["mine"][g])' = NormalizeFeature(features["mine"][g])
  BY <1>1 DEF NormalizeFeature, Scaled
<1>6. BlendedInv'
  BY <1>1, <1>2, <1>5 DEF BlendedInv
<1>7. FrameInv'
  BY <1>1 DEF FrameInv, Freed, NoFrame
<1> QED BY <1>2, <1>4, <1>6, <1>7 DEF FeaturesInv

(* A frame is drawn.                                                       *)
LEMMA DrawStep ==
  ASSUME FeaturesInv, NEW k \in 0..IntensitySteps, DrawFrame(k)
  PROVE  FeaturesInv'
<1>1. /\ item' = item /\ features' = features /\ blended' = blended /\ normalized' = normalized
      /\ np_list' = Applied(k)[Len(ApplyOrder)]
      /\ frame' = [k |-> k, mine |-> item["mine"], model |-> item["model"],
                   complete |-> normalized /\ \A r \in Roles : features[r] # NoFeatures]
  BY DEF DrawFrame
<1>2. /\ \A q : ExtractFeatures(item[q])' = ExtractFeatures(item[q])
      /\ \A g : NormalizeFeature(features["mine"][g])' = NormalizeFeature(features["mine"][g])
  BY <1>1 DEF ExtractFeatures, NormalizeFeature, Scaled
<1>3. ItemsInv' /\ ExtractedInv' /\ BlendedInv'
  BY <1>1, <1>2 DEF FeaturesInv, ItemsInv, ExtractedInv, BlendedInv
<1>4. \A np, g, j : ApplyFeatures(np, g, j)' = ApplyFeatures(np, g, j)
  BY <1>1 DEF ApplyFeatures, Vector
<1>5. /\ frame'.k = k /\ frame'.mine = item["mine"] /\ frame'.model = item["model"]
      /\ frame'.complete <=> normalized /\ \A r \in Roles : features[r] # NoFeatures
  BY <1>1
<1>6. PICK points : Calls(points, k) /\ np_list' = points[Len(ApplyOrder)]
  BY <1>1, AppliedIs
<1>7. Calls(points, frame.k)'
  BY <1>1, <1>4, <1>5, <1>6 DEF Calls
<1>8. FrameInv'
  BY <1>1, <1>5, <1>6, <1>7 DEF FrameInv
<1> QED BY <1>3, <1>8 DEF FeaturesInv

(* Every step.                                                             *)
LEMMA StepFeatures == FeaturesInv /\ [FeaturesNext]_featureVars => FeaturesInv'
<1> SUFFICES ASSUME FeaturesInv, [FeaturesNext]_featureVars PROVE FeaturesInv'
  OBVIOUS
<1>1. CASE UNCHANGED featureVars
  <2>1. /\ item' = item /\ features' = features /\ blended' = blended /\ normalized' = normalized
        /\ np_list' = np_list /\ frame' = frame
    BY <1>1 DEF featureVars
  <2>2. /\ \A q : ExtractFeatures(item[q])' = ExtractFeatures(item[q])
        /\ \A g : NormalizeFeature(features["mine"][g])' = NormalizeFeature(features["mine"][g])
    BY <2>1 DEF ExtractFeatures, NormalizeFeature, Scaled
  <2>3. \A np, g, j : ApplyFeatures(np, g, j)' = ApplyFeatures(np, g, j)
    BY <2>1 DEF ApplyFeatures, Vector
  <2>4. \A points : Calls(points, frame.k)' <=> Calls(points, frame.k)
    BY <2>1, <2>3 DEF Calls
  <2> QED BY <2>1, <2>2, <2>4 DEF FeaturesInv, ItemsInv, ExtractedInv, BlendedInv, FrameInv
<1> QED BY <1>1, DetectStep, DecodeStep, NormalizeStep, DrawStep DEF FeaturesNext

(* Whatever order the faces come in, the groups and frames are of them.    *)
THEOREM FeaturesInvariant == FeaturesSpec => []FeaturesInv
BY InitFeatures, StepFeatures, PTL DEF FeaturesSpec

-----------------------------------------------------------------------------
(* The points of a complete frame.                                          *)

(* Where a landmark of a group is drawn: moved from its place in the model  *)
(* by a part of the way to my shape around the model's centre.              *)
Shape(g, j) ==
  LET mine == GroupPoints(frame.mine, g)
  IN  ((mine[j] - MeanOfPoints(mine)) * frame.model.face) \div frame.mine.face

Value(g, j) ==
  LET model == GroupPoints(frame.model, g)
  IN  model[j] + (frame.k * (Shape(g, j) - (model[j] - MeanOfPoints(model)))) \div IntensitySteps

(* The two photos of a complete frame.                                      *)
LEMMA FramePhotos ==
  ASSUME FeaturesInv, frame.complete
  PROVE  /\ frame.mine = item["mine"] /\ frame.model = item["model"]
         /\ frame.mine \in Photos /\ frame.mine.face >= TinyFace
         /\ frame.model \in Photos /\ frame.model.face >= TinyFace
         /\ features["mine"] = ExtractFeatures(frame.mine)
         /\ features["model"] = ExtractFeatures(frame.model)
         /\ blended = [g \in Groups |-> NormalizeFeature(features["mine"][g])]
         /\ frame.k \in 0..IntensitySteps /\ IntensitySteps \in Nat \ {0}
<1>1. "mine" \in Roles /\ "model" \in Roles
  BY DEF Roles
<1>2. normalized /\ features["mine"] # NoFeatures /\ features["model"] # NoFeatures
      /\ frame.mine = item["mine"] /\ frame.model = item["model"] /\ frame.k \in 0..IntensitySteps
  BY <1>1 DEF FeaturesInv, FrameInv
<1>3. blended = [g \in Groups |-> NormalizeFeature(features["mine"][g])]
  BY <1>2 DEF FeaturesInv, BlendedInv
<1> QED BY <1>1, <1>2, <1>3, FeaturesAssumption DEF FeaturesInv, ExtractedInv

(* The groups a frame is drawn from.                                        *)
LEMMA GroupsExtracted ==
  ASSUME NEW p \in Photos, p.face >= TinyFace, NEW g \in Groups
  PROVE  ExtractFeatures(p)[g] =
           [point |-> MeanOfPoints(GroupPoints(p, g)),
            list |-> [j \in 1..Len(Vids[g]) |-> GroupPoints(p, g)[j] - MeanOfPoints(GroupPoints(p, g))]]
<1>1. ~(p.face < TinyFace)
  BY PhotosAre, FeaturesAssumption
<1>2. Len(GroupPoints(p, g)) = Len(Vids[g])
  BY MeansAre
<1> QED BY <1>1, <1>2 DEF ExtractFeatures

(* A call of ApplyFeatures moves the landmarks of its group and no others.  *)
LEMMA CallMoves ==
  ASSUME FeaturesInv, frame.complete, NEW g \in Groups, NEW np
  PROVE  /\ \A v \in 0..70 : v \notin GroupOf(g) => ApplyFeatures(np, g, frame.k)[v] = np[v]
         /\ \A j \in 1..Len(Vids[g]) : ApplyFeatures(np, g, frame.k)[Vids[g][j]] = Value(g, j)
<1>1. PICK len \in Nat \ {0} : len = Len(Vids[g])
  BY GroupsAre
<1>2. PICK a : a = GroupPoints(frame.mine, g)
  OBVIOUS
<1>3. PICK b : b = GroupPoints(frame.model, g)
  OBVIOUS
<1>4. PICK A \in Int, B \in Int : A = MeanOfPoints(a) /\ B = MeanOfPoints(b)
  BY <1>2, <1>3, FramePhotos, MeansAre
<1>5. \A j \in 1..len : a[j] \in Int /\ b[j] \in Int
  BY <1>1, <1>2, <1>3, FramePhotos, MeansAre
<1>6. features["model"][g] = [point |-> B, list |-> [j \in 1..len |-> b[j] - B]]
  BY <1>1, <1>3, <1>4, FramePhotos, GroupsExtracted
<1>7. features["mine"][g] = [point |-> A, list |-> [j \in 1..len |-> a[j] - A]]
  BY <1>1, <1>2, <1>4, FramePhotos, GroupsExtracted
<1>8. blended[g] = NormalizeFeature(features["mine"][g])
  BY FramePhotos
<1>9. PICK n : n = blended[g].list
  OBVIOUS
<1>10. n = [j \in 1..len |-> Scaled(a[j] - A)]
  BY <1>7, <1>8, <1>9 DEF NormalizeFeature
<1>11. \A j \in 1..len : n[j] = Shape(g, j)
  BY <1>2, <1>4, <1>10, FramePhotos DEF Shape, Scaled
<1>12. PICK m : m = [j \in 1..len |-> b[j] - B]
  OBVIOUS
<1>13. DOMAIN n = 1..len /\ DOMAIN m = 1..len /\ \A j \in 1..len : m[j] = b[j] - B
  BY <1>10, <1>12
<1> DEFINE Drawn(j) == B + m[j] + (frame.k * (n[j] - m[j])) \div IntensitySteps
<1>14. \A j \in 1..len : Vector(blended[g], j) = n[j]
  BY <1>9, <1>13 DEF Vector
<1>15. PICK r : r = ApplyFeatures(np, g, frame.k)
  OBVIOUS
<1>16. r = [v \in 0..70 |-> IF \E j \in DOMAIN m : Vids[g][j] = v
                            THEN B + m[CHOOSE j \in DOMAIN m : Vids[g][j] = v]
                                 + (frame.k * (Vector(blended[g], CHOOSE j \in DOMAIN m : Vids[g][j] = v)
                                               - m[CHOOSE j \in DOMAIN m : Vids[g][j] = v])) \div IntensitySteps
                            ELSE np[v]]
  <2>1. B = features["model"][g].point /\ m = features["model"][g].list
    BY <1>6, <1>12
  <2> QED BY <1>15, <2>1, Zenon DEF ApplyFeatures
<1>17. ASSUME NEW v \in 0..70, v \notin GroupOf(g) PROVE r[v] = np[v]
  <2>1. ~\E j \in 1..len : Vids[g][j] = v
    BY <1>1, <1>17, GroupsAre
  <2> QED BY <1>13, <1>16, <2>1
<1>18. ASSUME NEW j \in 1..len PROVE r[Vids[g][j]] = Value(g, j)
  <2>1. PICK v \in 0..70 : v = Vids[g][j]
    <3>1. Vids[g][j] \in 0..67
      BY <1>1, GroupsAre
    <3>2. Vids[g][j] \in 0..70
      BY <3>1
    <3> QED BY <3>2
  <2>2. \A l \in 1..len : Vids[g][l] = v => l = j
    <3>1. \A l \in 1..len : Vids[g][l] = Vids[g][j] => l = j
      BY <1>1, GroupsAre
    <3> QED BY <2>1, <3>1
  <2>3. (CHOOSE l \in 1..len : Vids[g][l] = v) = j
    BY <2>1, <2>2
  <2>4. r[v] = B + m[j] + (frame.k * (Vector(blended[g], j) - m[j])) \div IntensitySteps
    BY <1>13, <1>16, <2>1, <2>3
  <2>5. B + m[j] = b[j] /\ m[j] = b[j] - B /\ Vector(blended[g], j) = Shape(g, j)
    BY <1>4, <1>5, <1>11, <1>13, <1>14
  <2> QED BY <1>3, <1>4, <2>1, <2>4, <2>5 DEF Value
<1> QED BY <1>1, <1>15, <1>17, <1>18

(* The first half of it, for one landmark.                                 *)
LEMMA CallKeeps ==
  ASSUME FeaturesInv, frame.complete, NEW g \in Groups, NEW np, NEW v \in 0..70, v \notin GroupOf(g)
  PROVE  ApplyFeatures(np, g, frame.k)[v] = np[v]
BY CallMoves

(* The groups other than the mouth's share no landmarks.                     *)
LEMMA GroupsApart ==
  ASSUME NEW g \in Groups, NEW h \in Groups, g # h, ~({g, h} \subseteq {"mu", "md"})
  PROVE  GroupOf(g) \cap GroupOf(h) = {}
<1> DEFINE Owner(v) == IF v \in 17..21 THEN "leb" ELSE IF v \in 22..26 THEN "reb"
                       ELSE IF v \in 27..30 THEN "nu" ELSE IF v \in 31..35 THEN "nd"
                       ELSE IF v \in 36..41 THEN "le" ELSE IF v \in 42..47 THEN "re" ELSE "mouth"
<1>1. ASSUME NEW o \in Groups, NEW v \in GroupOf(o)
      PROVE  Owner(v) = IF o \in {"mu", "md"} THEN "mouth" ELSE o
  <2>1. CASE o = "le" BY <2>1 DEF GroupOf
  <2>2. CASE o = "re" BY <2>2 DEF GroupOf
  <2>3. CASE o = "leb" BY <2>3 DEF GroupOf
  <2>4. CASE o = "reb" BY <2>4 DEF GroupOf
  <2>5. CASE o = "nu" BY <2>5 DEF GroupOf
  <2>6. CASE o = "nd" BY <2>6 DEF GroupOf
  <2>7. CASE o = "mu" BY <2>7 DEF GroupOf
  <2>8. CASE o = "md" BY <2>8 DEF GroupOf
  <2> QED BY <2>1, <2>2, <2>3, <2>4, <2>5, <2>6, <2>7, <2>8, GroupNames
<1>2. ASSUME NEW v \in GroupOf(g), v \in GroupOf(h) PROVE FALSE
  <2>1. /\ Owner(v) = IF g \in {"mu", "md"} THEN "mouth" ELSE g
        /\ Owner(v) = IF h \in {"mu", "md"} THEN "mouth" ELSE h
    BY <1>1, <1>2
  <2> HIDE DEF Owner
  <2> QED BY <2>1, GroupNames
<1> QED BY <1>2

(* Where a landmark lies is what the last call that moves it makes of it.   *)
LEMMA LastCall ==
  ASSUME FeaturesInv, frame.complete, NEW points, Calls(points, frame.k),
         NEW m \in 0..8, NEW v \in 0..70,
         \A j \in 1..8 : j > m => v \notin GroupOf(ApplyOrder[j])
  PROVE  points[8][v] = points[m][v]
<1>1. Len(ApplyOrder) = 8 /\ \A j \in 1..8 : ApplyOrder[j] \in Groups
  BY GroupNames DEF ApplyOrder
<1>2. ASSUME NEW j \in 1..8, j > m PROVE points[j][v] = points[j - 1][v]
  <2>1. points[j] = ApplyFeatures(points[j - 1], ApplyOrder[j], frame.k)
    BY <1>1 DEF Calls
  <2>2. PICK g \in Groups : g = ApplyOrder[j]
    BY <1>1
  <2>3. v \notin GroupOf(g)
    BY <1>2, <2>2
  <2>4. ApplyFeatures(points[j - 1], g, frame.k)[v] = points[j - 1][v]
    BY <2>3, CallKeeps
  <2> QED BY <2>1, <2>2, <2>4
<1> DEFINE G == {l \in Nat : l <= 8 - m => points[m + l][v] = points[m][v]}
<1>3. 0 \in G
  OBVIOUS
<1>4. ASSUME NEW l \in Nat, l \in G PROVE l + 1 \in G
  <2> SUFFICES ASSUME l + 1 <= 8 - m PROVE points[m + (l + 1)][v] = points[m][v]
    OBVIOUS
  <2>1. m + (l + 1) \in 1..8 /\ m + (l + 1) > m /\ (m + (l + 1)) - 1 = m + l
    OBVIOUS
  <2>2. points[m + (l + 1)][v] = points[m + l][v]
    BY <1>2, <2>1
  <2> QED BY <1>4, <2>2
<1>5. Nat \subseteq G
  <2> HIDE DEF G
  <2> QED BY <1>3, <1>4, SetInduction
<1>6. 8 - m \in Nat /\ m + (8 - m) = 8
  OBVIOUS
<1> QED BY <1>5, <1>6

(* The landmarks of every group but the upper half of the mouth are where    *)
(* its own call put them; the upper half shares some with the lower.         *)
LEMMA GroupsDrawn ==
  ASSUME FeaturesInv, frame.complete, NEW g \in Groups, NEW j \in 1..Len(Vids[g])
  PROVE  \/ np_list[Vids[g][j]] = Value(g, j)
         \/ /\ g = "mu"
            /\ \E l \in 1..Len(Vids["md"]) : /\ Vids["md"][l] = Vids[g][j]
                                             /\ np_list[Vids[g][j]] = Value("md", l)
<1>1. PICK points : Calls(points, frame.k) /\ np_list = points[Len(ApplyOrder)]
  BY DEF FeaturesInv, FrameInv
<1>2. Len(ApplyOrder) = 8
  BY DEF ApplyOrder
<1>3. PICK v \in 0..70 : v = Vids[g][j] /\ v \in GroupOf(g)
  <2>1. Vids[g][j] \in GroupOf(g) /\ Vids[g][j] \in 0..67
    BY GroupsAre
  <2>2. Vids[g][j] \in 0..70
    BY <2>1
  <2> QED BY <2>1, <2>2
<1>4. ASSUME NEW m \in 1..8, NEW h \in Groups, h = ApplyOrder[m], NEW l \in 1..Len(Vids[h]), Vids[h][l] = v,
             \A o \in 1..8 : o > m => v \notin GroupOf(ApplyOrder[o])
      PROVE  np_list[v] = Value(h, l)
  <2>1. m \in 0..8 /\ m \in 1..Len(ApplyOrder)
    BY <1>2
  <2>2. points[8][v] = points[m][v]
    BY <1>1, <1>4, <2>1, LastCall
  <2>3. points[m] = ApplyFeatures(points[m - 1], h, frame.k)
    BY <1>1, <1>4, <2>1 DEF Calls
  <2>4. points[m][v] = Value(h, l)
    BY <1>4, <2>3, CallMoves
  <2> QED BY <1>1, <1>2, <2>2, <2>4
<1>5. CASE g # "mu"
  <2>1. PICK m \in 1..8 : g = ApplyOrder[m] /\ m # 7
    BY <1>5, GroupNames DEF ApplyOrder
  <2>2. ASSUME NEW o \in 1..8, o > m PROVE v \notin GroupOf(ApplyOrder[o])
    <3>1. PICK h \in Groups : h = ApplyOrder[o] /\ h # g /\ ~({g, h} \subseteq {"mu", "md"})
      BY <1>5, <2>1, <2>2, GroupNames DEF ApplyOrder
    <3>2. GroupOf(g) \cap GroupOf(h) = {}
      BY <3>1, GroupsApart
    <3> QED BY <1>3, <3>1, <3>2
  <2> QED BY <1>3, <1>4, <2>1, <2>2
<1>6. CASE g = "mu" /\ v \in GroupOf("md")
  <2>1. "md" \in Groups /\ "md" = ApplyOrder[8]
    BY GroupNames DEF ApplyOrder
  <2>2. PICK l \in 1..Len(Vids["md"]) : Vids["md"][l] = v
    <3>1. \A w \in GroupOf("md") : \E l \in 1..Len(Vids["md"]) : Vids["md"][l] = w
      BY <2>1, GroupsAre, Zenon
    <3> QED BY <1>6, <3>1
  <2>3. np_list[v] = Value("md", l)
    BY <1>4, <2>1, <2>2
  <2> QED BY <1>3, <1>6, <2>2, <2>3
<1>7. CASE g = "mu" /\ v \notin GroupOf("md")
  <2>1. g = ApplyOrder[7] /\ ApplyOrder[8] = "md"
    BY <1>7 DEF ApplyOrder
  <2>2. \A o \in 1..8 : o > 7 => o = 8
    OBVIOUS
  <2>3. \A o \in 1..8 : o > 7 => v \notin GroupOf(ApplyOrder[o])
    BY <1>7, <2>1, <2>2
  <2> QED BY <1>3, <1>4, <2>1, <2>3
<1> QED BY <1>5, <1>6, <1>7

(* A landmark of no group is where the model's texture has it.               *)
LEMMA OthersDrawn ==
  ASSUME FeaturesInv, frame.complete, NEW v \in 0..70, v \notin Grouped
  PROVE  np_list[v] = TextureCoordinate(frame.model)[v]
<1>1. PICK points : Calls(points, frame.k) /\ np_list = points[Len(ApplyOrder)]
  BY DEF FeaturesInv, FrameInv
<1>2. Len(ApplyOrder) = 8 /\ \A j \in 1..8 : ApplyOrder[j] \in Groups
  BY GroupNames DEF ApplyOrder
<1>3. ASSUME NEW g \in Groups PROVE v \notin GroupOf(g)
  <2>1. \A j \in DOMAIN Vids[g] : Vids[g][j] # v
    BY <1>3 DEF Grouped
  <2> QED BY <2>1, GroupsAre
<1>4. points[8][v] = points[0][v]
  <2>1. \A j \in 1..8 : v \notin GroupOf(ApplyOrder[j])
    BY <1>2, <1>3
  <2>2. 0 \in 0..8
    OBVIOUS
  <2> QED BY <1>1, <2>1, <2>2, LastCall
<1>5. points[0] = TextureCoordinate(item["model"]) /\ frame.model = item["model"]
  BY <1>1, FramePhotos DEF Calls
<1> QED BY <1>1, <1>2, <1>4, <1>5

-----------------------------------------------------------------------------
(* Where the groups of a complete frame lie.                                *)

(* A division that comes out even, and cancelling a factor.                  *)
LEMMA EvenDivision ==
  ASSUME NEW n \in Nat \ {0}, NEW x \in Int, x % n = 0
  PROVE  x \div n \in Int /\ n * (x \div n) = x
OBVIOUS

(* An equation divided by a positive number.                               *)
LEMMA Cancel ==
  ASSUME NEW n \in Nat \ {0}, NEW x \in Int, NEW y \in Int, n * x = n * y
  PROVE  x = y
OBVIOUS

(* A product divided by a factor.                                          *)
LEMMA ProductDivided ==
  ASSUME NEW n \in Nat \ {0}, NEW y \in Int
  PROVE  (n * y) \div n = y /\ (n * y) % n = 0
OBVIOUS

(* Products, rearranged: a difference around the same centre.              *)
LEMMA Difference ==
  ASSUME NEW l \in Int, NEW x \in Int, NEW y \in Int, NEW z \in Int
  PROVE  (x - z) * l - (y - z) * l = (x - y) * l
OBVIOUS

(* A linear combination multiplied.                                        *)
LEMMA Distribute ==
  ASSUME NEW l \in Int, NEW x \in Int, NEW y \in Int, NEW z \in Int, NEW b \in Int, NEW c \in Int
  PROVE  l * (b * x + c * y + z) = b * (l * x) + c * (l * y) + z * l
OBVIOUS

(* The order of three factors.                                             *)
LEMMA Reorder ==
  ASSUME NEW l \in Int, NEW x \in Int, NEW b \in Int
  PROVE  l * (b * x) = b * (l * x)
OBVIOUS

(* The mean of a group is exact.                                             *)
LEMMA MeansExact ==
  ASSUME NEW p \in Photos, p.face >= TinyFace, NEW g \in Groups
  PROVE  Sums(GroupPoints(p, g))[Len(Vids[g])] = Len(Vids[g]) * MeanOfPoints(GroupPoints(p, g))
<1>1. PICK len \in Nat \ {0} : len = Len(Vids[g])
  BY GroupsAre
<1>2. PICK s : s = GroupPoints(p, g)
  OBVIOUS
<1>3. Len(s) = len /\ \A j \in 1..len : s[j] \in Int
  BY <1>1, <1>2, MeansAre
<1>4. Sums(s)[len] \in Int
  BY <1>3, SumsAre
<1>5. Sums(s)[len] % len = 0
  BY <1>2, <1>3, ExactAssumption
<1>6. len * (Sums(s)[len] \div len) = Sums(s)[len]
  BY <1>4, <1>5, EvenDivision
<1> QED BY <1>1, <1>2, <1>3, <1>6 DEF MeanOfPoints

(* The places of the landmarks in the two photos, their means, my shape and  *)
(* where they are drawn, without a division.                                 *)
Placed(g, a, b, A, B, mf, nf, len) ==
  /\ a = GroupPoints(frame.mine, g) /\ b = GroupPoints(frame.model, g)
  /\ A = MeanOfPoints(a) /\ B = MeanOfPoints(b) /\ A \in Int /\ B \in Int
  /\ mf = frame.mine.face /\ nf = frame.model.face /\ mf \in Nat \ {0} /\ nf \in Nat \ {0}
  /\ len = Len(Vids[g]) /\ len \in Nat \ {0} /\ Len(a) = len /\ Len(b) = len
  /\ Sums(a)[len] = len * A /\ Sums(b)[len] = len * B
  /\ \A j \in 1..len :
       /\ a[j] \in Int /\ b[j] \in Int /\ Shape(g, j) \in Int /\ Value(g, j) \in Int
       /\ mf * Shape(g, j) = (a[j] - A) * nf
       /\ IntensitySteps * (Value(g, j) - b[j]) = frame.k * (Shape(g, j) - (b[j] - B))

(* Every group of a complete frame is placed so.                           *)
LEMMA ValuesAre ==
  ASSUME FeaturesInv, frame.complete, NEW g \in Groups
  PROVE  \E a, b, A, B, mf, nf, len : Placed(g, a, b, A, B, mf, nf, len)
<1>0. PICK a, b : a = GroupPoints(frame.mine, g) /\ b = GroupPoints(frame.model, g)
  OBVIOUS
<1>1. PICK len \in Nat \ {0} : len = Len(Vids[g])
  BY GroupsAre
<1>2. /\ frame.mine \in Photos /\ frame.mine.face >= TinyFace
      /\ frame.model \in Photos /\ frame.model.face >= TinyFace
  BY FramePhotos
<1>3. PICK mf \in Nat \ {0}, nf \in Nat \ {0} : mf = frame.mine.face /\ nf = frame.model.face
  BY <1>2, PhotosAre
<1>4. Len(a) = len /\ Len(b) = len /\ \A j \in 1..len : a[j] \in Int /\ b[j] \in Int
  BY <1>0, <1>1, <1>2, MeansAre
<1>5. PICK A \in Int, B \in Int : A = MeanOfPoints(a) /\ B = MeanOfPoints(b)
  BY <1>0, <1>2, MeansAre
<1>6. Sums(a)[len] = len * A /\ Sums(b)[len] = len * B
  BY <1>0, <1>1, <1>2, <1>5, MeansExact
<1>7. PICK k \in Int, n \in Nat \ {0} : k = frame.k /\ n = IntensitySteps
  <2>1. frame.k \in 0..IntensitySteps /\ IntensitySteps \in Nat \ {0}
    BY FramePhotos
  <2>2. frame.k \in Int
    BY <2>1
  <2> QED BY <2>1, <2>2
<1>8. ASSUME NEW j \in 1..len
      PROVE  /\ Shape(g, j) \in Int /\ Value(g, j) \in Int
             /\ mf * Shape(g, j) = (a[j] - A) * nf
             /\ n * (Value(g, j) - b[j]) = k * (Shape(g, j) - (b[j] - B))
  <2>1. PICK aj \in Int, bj \in Int : aj = a[j] /\ bj = b[j]
    BY <1>4
  <2>2. /\ ((aj - A) * nf) % mf = 0
        /\ (((aj - A) * nf) \div mf - (bj - B)) % n = 0
    <3>1. \A o \in 1..Len(a) :
            /\ ((a[o] - MeanOfPoints(a)) * frame.model.face) % frame.mine.face = 0
            /\ (((a[o] - MeanOfPoints(a)) * frame.model.face) \div frame.mine.face - (b[o] - MeanOfPoints(b)))
                 % IntensitySteps = 0
      BY <1>0, <1>2, ExactAssumption
    <3> QED BY <1>3, <1>4, <1>5, <1>7, <2>1, <3>1
  <2>3. PICK length \in Int : length = (aj - A) * nf
    OBVIOUS
  <2>4. PICK S \in Int : S = length \div mf /\ mf * S = length
    BY <2>2, <2>3, EvenDivision
  <2>5. Shape(g, j) = S
    BY <1>0, <1>3, <1>5, <2>1, <2>3, <2>4 DEF Shape
  <2>6. PICK way \in Int : way = S - (bj - B)
    OBVIOUS
  <2>7. PICK y \in Int : n * y = way
    BY <2>2, <2>3, <2>4, <2>6, EvenDivision
  <2>8. PICK z \in Int : z = k * y
    OBVIOUS
  <2>9. k * way = n * z
    BY <2>7, <2>8
  <2>10. Value(g, j) = bj + (k * way) \div n
    BY <1>0, <1>5, <1>7, <2>1, <2>5, <2>6 DEF Value
  <2>11. Value(g, j) = bj + z
    BY <2>9, <2>10, ProductDivided
  <2>12. n * ((bj + z) - bj) = n * z
    OBVIOUS
  <2> QED BY <2>1, <2>3, <2>4, <2>5, <2>6, <2>9, <2>11, <2>12
<1>9. \A j \in 1..len :
        /\ a[j] \in Int /\ b[j] \in Int /\ Shape(g, j) \in Int /\ Value(g, j) \in Int
        /\ mf * Shape(g, j) = (a[j] - A) * nf
        /\ IntensitySteps * (Value(g, j) - b[j]) = frame.k * (Shape(g, j) - (b[j] - B))
  BY <1>4, <1>7, <1>8
<1>10. Placed(g, a, b, A, B, mf, nf, len)
  BY <1>0, <1>1, <1>3, <1>4, <1>5, <1>6, <1>9 DEF Placed
<1> QED BY <1>10

(* At intensity 0 a landmark is drawn where it lies in the model.            *)
LEMMA NothingMoved ==
  ASSUME FeaturesInv, frame.complete, NEW g \in Groups, NEW j \in 1..Len(Vids[g]),
         frame.k = 0 \/ Shape(g, j) = GroupPoints(frame.model, g)[j] - MeanOfPoints(GroupPoints(frame.model, g))
  PROVE  Value(g, j) = KeyPoints(frame.model)[Vids[g][j]]
<1>1. PICK a, b, A, B, mf, nf, len : Placed(g, a, b, A, B, mf, nf, len)
  BY ValuesAre
<1>2. PICK n \in Nat \ {0}, k \in Int : n = IntensitySteps /\ k = frame.k
  BY FramePhotos
<1>3. PICK bj \in Int, S \in Int, v \in Int : bj = b[j] /\ S = Shape(g, j) /\ v = Value(g, j)
  BY <1>1 DEF Placed
<1>4. n * (v - bj) = k * (S - (bj - B)) /\ B \in Int
  BY <1>1, <1>2, <1>3 DEF Placed
<1>5. k = 0 \/ S = bj - B
  BY <1>1, <1>2, <1>3 DEF Placed
<1>6. n * (v - bj) = n * 0
  BY <1>4, <1>5
<1>7. v - bj = 0
  BY <1>6, Cancel
<1>8. bj = KeyPoints(frame.model)[Vids[g][j]]
  BY <1>1, <1>3, FramePhotos, MeansAre DEF Placed
<1> QED BY <1>3, <1>7, <1>8

(* A landmark of the groups is drawn where it lies in the model when every   *)
(* group would put it there.                                                 *)
LEMMA GroupedDrawn ==
  ASSUME FeaturesInv, frame.complete, NEW v \in Grouped,
         \A g \in Groups : \A j \in 1..Len(Vids[g]) : Value(g, j) = KeyPoints(frame.model)[Vids[g][j]]
  PROVE  np_list[v] = KeyPoints(frame.model)[v]
<1>1. PICK g \in Groups : \E j \in DOMAIN Vids[g] : Vids[g][j] = v
  BY DEF Grouped
<1>2. PICK j \in 1..Len(Vids[g]) : Vids[g][j] = v
  BY <1>1, GroupsAre
<1>3. "md" \in Groups
  BY GroupNames
<1> QED BY <1>2, <1>3, GroupsDrawn

(* Intensity 0 moves nothing.                                              *)
LEMMA NeutralHolds == FeaturesInv => NeutralFrame
<1> SUFFICES ASSUME FeaturesInv, frame.complete, frame.k = 0, NEW v \in 0..70
             PROVE  np_list[v] = IF v \in Grouped THEN KeyPoints(frame.model)[v]
                                 ELSE Clamped(KeyPoints(frame.model)[v], frame.model.image - Pixel)
  BY DEF NeutralFrame
<1>1. CASE v \in Grouped
  BY <1>1, NothingMoved, GroupedDrawn
<1>2. CASE v \notin Grouped
  BY <1>2, OthersDrawn DEF TextureCoordinate
<1> QED BY <1>1, <1>2

(* A similar face has similar means and the same shape, so it moves nothing. *)
LEMMA SameFaceHolds == FeaturesInv => SameFaceUnchanged
<1> SUFFICES ASSUME FeaturesInv, frame.complete, Similar(frame.mine, frame.model), NEW v \in Grouped
             PROVE  np_list[v] = KeyPoints(frame.model)[v]
  BY DEF SameFaceUnchanged
<1>1. ASSUME NEW g \in Groups, NEW j \in 1..Len(Vids[g])
      PROVE  Value(g, j) = KeyPoints(frame.model)[Vids[g][j]]
  <2>1. PICK a, b, A, B, mf, nf, len : Placed(g, a, b, A, B, mf, nf, len)
    BY ValuesAre
  <2>2. PICK m0 \in Int, q0 \in Int : m0 = frame.mine.points[0] /\ q0 = frame.model.points[0]
    <3>1. frame.mine.points \in [0..67 -> Int] /\ frame.model.points \in [0..67 -> Int]
      BY FramePhotos, PhotosAre
    <3>2. 0 \in 0..67
      OBVIOUS
    <3> QED BY <3>1, <3>2
  <2>3. mf \in Nat \ {0} /\ nf \in Nat \ {0} /\ len \in Nat \ {0} /\ A \in Int /\ B \in Int
    BY <2>1 DEF Placed
  <2>4. PICK d \in Int, c \in Int : d = m0 * nf - q0 * mf /\ c = 0
    BY <2>3
  <2>5. ASSUME NEW o \in 1..len
        PROVE  a[o] \in Int /\ b[o] \in Int /\ nf * a[o] = mf * b[o] + c * b[o] + d
    <3>1. PICK ao \in Int, bo \in Int : ao = a[o] /\ bo = b[o]
      BY <2>1 DEF Placed
    <3>2. Vids[g][o] \in 1..67
      <4>1. o \in 1..Len(Vids[g])
        BY <2>1 DEF Placed
      <4>2. Vids[g][o] \in GroupOf(g)
        BY <4>1, GroupsAre
      <4>3. GroupOf(g) \subseteq 1..67
        BY GroupNames DEF GroupOf
      <4> QED BY <4>2, <4>3
    <3>3. ao = frame.mine.points[Vids[g][o]] /\ bo = frame.model.points[Vids[g][o]]
      <4>1. a = GroupPoints(frame.mine, g) /\ b = GroupPoints(frame.model, g) /\ o \in 1..Len(Vids[g])
        BY <2>1 DEF Placed
      <4>2. frame.mine \in Photos /\ frame.model \in Photos
        BY FramePhotos
      <4> QED BY <3>1, <4>1, <4>2, MeansAre
    <3>4. (ao - m0) * nf = (bo - q0) * mf
      BY <2>1, <2>2, <3>2, <3>3 DEF Similar, Placed
    <3>5. nf * ao = mf * bo + c * bo + d
      BY <2>3, <2>4, <3>4
    <3> QED BY <3>1, <3>5
  <2>6. nf * Sums(a)[len] = mf * Sums(b)[len] + c * Sums(b)[len] + d * len
    <3>1. Len(a) = len /\ Len(b) = len /\ len \in Nat /\ nf \in Int /\ mf \in Int
      BY <2>1, <2>3 DEF Placed
    <3>2. \A o \in 1..len : a[o] \in Int /\ b[o] \in Int /\ b[o] \in Int
      BY <2>5
    <3>3. \A o \in 1..len : nf * a[o] = mf * b[o] + c * b[o] + d
      BY <2>5
    <3>4. SumsCombine(a, b, b, len)
      BY <3>1, <3>2, SumsCombined
    <3> QED BY <2>4, <3>1, <3>3, <3>4 DEF SumsCombine
  <2>7. Sums(a)[len] = len * A /\ Sums(b)[len] = len * B
    BY <2>1 DEF Placed
  <2>8. len * (nf * A) = len * (mf * B + d)
    BY <2>3, <2>4, <2>6, <2>7
  <2>9. nf * A = mf * B + d
    BY <2>3, <2>4, <2>8, Cancel
  <2>10. PICK S \in Int, aj \in Int, bj \in Int : S = Shape(g, j) /\ aj = a[j] /\ bj = b[j]
    BY <2>1 DEF Placed
  <2>11. mf * S = (aj - A) * nf /\ nf * aj = mf * bj + c * bj + d
    BY <2>1, <2>5, <2>10 DEF Placed
  <2>12. mf * S = mf * (bj - B)
    BY <2>3, <2>4, <2>9, <2>11
  <2>13. S = bj - B
    BY <2>3, <2>12, Cancel
  <2>14. Shape(g, j) = GroupPoints(frame.model, g)[j] - MeanOfPoints(GroupPoints(frame.model, g))
    BY <2>1, <2>10, <2>13 DEF Placed
  <2> QED BY <2>14, NothingMoved
<1> QED BY <1>1, GroupedDrawn

(* At full intensity a group is my shape around the centre of the model.   *)
LEMMA ShapeHolds == FeaturesInv => ShapeTaken
<1> SUFFICES ASSUME FeaturesInv, frame.complete, frame.k = IntensitySteps,
                    NEW g \in Groups \ {"mu"}, NEW o \in DOMAIN Vids[g], NEW j \in DOMAIN Vids[g]
             PROVE  (np_list[Vids[g][o]] - np_list[Vids[g][j]]) * frame.mine.face
                      = (frame.mine.points[Vids[g][o]] - frame.mine.points[Vids[g][j]]) * frame.model.face
  BY DEF ShapeTaken
<1>1. PICK a, b, A, B, mf, nf, len : Placed(g, a, b, A, B, mf, nf, len)
  BY ValuesAre
<1>2. PICK n \in Nat \ {0} : n = IntensitySteps
  BY FramePhotos
<1>3. mf \in Nat \ {0} /\ nf \in Nat \ {0} /\ A \in Int /\ B \in Int /\ o \in 1..len /\ j \in 1..len
  <2>1. DOMAIN Vids[g] = 1..Len(Vids[g])
    BY GroupsAre
  <2> QED BY <1>1, <2>1 DEF Placed
<1>4. ASSUME NEW l \in 1..len
      PROVE  \E v \in Int, x \in Int : /\ v = np_list[Vids[g][l]] /\ x = frame.mine.points[Vids[g][l]]
                                       /\ mf * v = (x - A) * nf + mf * B
  <2>1. PICK v \in Int, x \in Int, bl \in Int, S \in Int :
          v = Value(g, l) /\ x = a[l] /\ bl = b[l] /\ S = Shape(g, l)
    BY <1>1 DEF Placed
  <2>2. v = np_list[Vids[g][l]] /\ x = frame.mine.points[Vids[g][l]]
    <3>1. l \in 1..Len(Vids[g])
      BY <1>1 DEF Placed
    <3>2. v = np_list[Vids[g][l]]
      BY <2>1, <3>1, GroupsDrawn
    <3>3. a = GroupPoints(frame.mine, g) /\ frame.mine \in Photos
      BY <1>1, FramePhotos DEF Placed
    <3> QED BY <2>1, <3>1, <3>2, <3>3, MeansAre
  <2>3. n * (v - bl) = n * (S - (bl - B)) /\ mf * S = (x - A) * nf
    BY <1>1, <1>2, <2>1 DEF Placed
  <2>4. v - bl = S - (bl - B)
    BY <1>3, <2>3, Cancel
  <2>5. v = S + B
    BY <1>3, <2>4
  <2>6. mf * v = (x - A) * nf + mf * B
    BY <1>3, <2>3, <2>5
  <2> QED BY <2>2, <2>6
<1>5. PICK v \in Int, x \in Int : /\ v = np_list[Vids[g][o]] /\ x = frame.mine.points[Vids[g][o]]
                                  /\ mf * v = (x - A) * nf + mf * B
  BY <1>3, <1>4
<1>6. PICK w \in Int, y \in Int : /\ w = np_list[Vids[g][j]] /\ y = frame.mine.points[Vids[g][j]]
                                  /\ mf * w = (y - A) * nf + mf * B
  BY <1>3, <1>4
<1>7. (v - w) * mf = (x - y) * nf
  <2>1. mf * v - mf * w = (x - A) * nf - (y - A) * nf
    BY <1>3, <1>5, <1>6
  <2>2. (x - A) * nf - (y - A) * nf = (x - y) * nf
    BY <1>3, Difference
  <2>3. (v - w) * mf = mf * v - mf * w
    BY <1>3, <1>5, <1>6
  <2> QED BY <2>1, <2>2, <2>3
<1> QED BY <1>1, <1>5, <1>6, <1>7 DEF Placed

(* The equation of one landmark, as it follows from the way it is moved and  *)
(* with its terms collected.                                                 *)
Moved(n, k, mf, nf, A, B, v, x, y) ==
  mf * (n * (v - y)) = k * ((x - A) * nf) - k * (mf * (y - B))

Collected(n, k, mf, nf, A, B, v, x, y) ==
  (n * mf) * v = (n * mf - k * mf) * y + (k * nf) * x + ((k * mf) * B - (k * nf) * A)

LEMMA TermsCollected ==
  ASSUME NEW n \in Int, NEW k \in Int, NEW mf \in Int, NEW nf \in Int,
         NEW A \in Int, NEW B \in Int, NEW v \in Int, NEW x \in Int, NEW y \in Int,
         Moved(n, k, mf, nf, A, B, v, x, y)
  PROVE  Collected(n, k, mf, nf, A, B, v, x, y)
<1>1. mf * (n * (v - y)) = (n * mf) * v - (n * mf) * y
  OBVIOUS
<1>2. k * ((x - A) * nf) = (k * nf) * x - (k * nf) * A
  OBVIOUS
<1>3. k * (mf * (y - B)) = (k * mf) * y - (k * mf) * B
  OBVIOUS
<1>4. (n * mf - k * mf) * y = (n * mf) * y - (k * mf) * y
  OBVIOUS
<1> QED BY <1>1, <1>2, <1>3, <1>4 DEF Moved, Collected

(* The ways the landmarks of a group are moved add up to nothing.          *)
LEMMA CentreHolds == FeaturesInv => GroupsCentred
<1> SUFFICES ASSUME FeaturesInv, frame.complete, NEW g \in Groups \ {"mu"}
             PROVE  MeanOfPoints([o \in DOMAIN Vids[g] |-> np_list[Vids[g][o]]])
                      = MeanOfPoints([o \in DOMAIN Vids[g] |-> KeyPoints(frame.model)[Vids[g][o]]])
  BY DEF GroupsCentred
<1>1. PICK a, b, A, B, mf, nf, len : Placed(g, a, b, A, B, mf, nf, len)
  BY ValuesAre
<1>2. PICK n \in Nat \ {0}, k \in Int : n = IntensitySteps /\ k = frame.k
  BY FramePhotos
<1>3. /\ mf \in Nat \ {0} /\ nf \in Nat \ {0} /\ len \in Nat \ {0} /\ A \in Int /\ B \in Int
      /\ len = Len(Vids[g]) /\ DOMAIN Vids[g] = 1..len
  BY <1>1, GroupsAre DEF Placed
<1>4. PICK s : s = [o \in 1..len |-> np_list[Vids[g][o]]]
  OBVIOUS
<1>5. PICK c1 \in Int, c2 \in Int, c3 \in Int, d \in Int :
        c1 = n * mf /\ c2 = n * mf - k * mf /\ c3 = k * nf /\ d = (k * mf) * B - (k * nf) * A
  BY <1>2, <1>3
<1>6. ASSUME NEW o \in 1..len
      PROVE  /\ s[o] \in Int /\ a[o] \in Int /\ b[o] \in Int
             /\ c1 * s[o] = c2 * b[o] + c3 * a[o] + d
  <2>1. PICK v \in Int, x \in Int, y \in Int, S \in Int :
          v = Value(g, o) /\ x = a[o] /\ y = b[o] /\ S = Shape(g, o)
    BY <1>1 DEF Placed
  <2>2. s[o] = v
    BY <1>3, <1>4, <2>1, GroupsDrawn
  <2>3. n * (v - y) = k * (S - (y - B)) /\ mf * S = (x - A) * nf
    BY <1>1, <1>2, <2>1 DEF Placed
  <2>4. Moved(n, k, mf, nf, A, B, v, x, y)
    <3>1. mf * (n * (v - y)) = k * (mf * S) - k * (mf * (y - B))
      BY <1>3, <2>3
    <3> QED BY <2>3, <3>1 DEF Moved
  <2>5. n \in Int /\ k \in Int /\ mf \in Int /\ nf \in Int /\ A \in Int /\ B \in Int
    BY <1>3
  <2>6. Collected(n, k, mf, nf, A, B, v, x, y)
    BY <2>4, <2>5, TermsCollected
  <2> QED BY <1>5, <2>1, <2>2, <2>6 DEF Collected
<1>7. c1 * Sums(s)[len] = c2 * Sums(b)[len] + c3 * Sums(a)[len] + d * len
  <2>1. Len(s) = len /\ Len(a) = len /\ Len(b) = len /\ len \in Nat
    BY <1>1, <1>3, <1>4 DEF Placed
  <2>2. \A o \in 1..len : s[o] \in Int /\ b[o] \in Int /\ a[o] \in Int
    BY <1>6
  <2>3. \A o \in 1..len : c1 * s[o] = c2 * b[o] + c3 * a[o] + d
    BY <1>6
  <2>4. SumsCombine(s, b, a, len)
    BY <2>1, <2>2, SumsCombined
  <2>5. c1 \in Int /\ c2 \in Int /\ c3 \in Int /\ d \in Int
    BY <1>5
  <2> QED BY <2>3, <2>4, <2>5 DEF SumsCombine
<1>8. PICK sum \in Int : sum = Sums(s)[len]
  <2>1. Len(s) = len /\ len \in Nat
    BY <1>3, <1>4
  <2> QED BY <1>6, <2>1, SumsAre
<1>9. Sums(a)[len] = len * A /\ Sums(b)[len] = len * B
  BY <1>1 DEF Placed
<1>10. c1 * sum = c2 * (len * B) + c3 * (len * A) + d * len
  BY <1>7, <1>8, <1>9
<1>11. c1 * sum = c1 * (len * B)
  <2>1. c2 * B + c3 * A + d = c1 * B
    BY <1>3, <1>5
  <2>2. c1 * sum = len * (c2 * B + c3 * A + d)
    <3>1. len * (c2 * B + c3 * A + d) = c2 * (len * B) + c3 * (len * A) + d * len
      <4>1. len \in Int /\ A \in Int /\ B \in Int /\ c2 \in Int /\ c3 \in Int /\ d \in Int
        BY <1>3, <1>5
      <4> QED BY <4>1, Distribute
    <3> QED BY <1>10, <3>1
  <2>3. len * (c1 * B) = c1 * (len * B)
    <3>1. len \in Int /\ B \in Int /\ c1 \in Int
      BY <1>3, <1>5
    <3> QED BY <3>1, Reorder
  <2> QED BY <2>1, <2>2, <2>3
<1>12. sum = len * B
  <2>1. c1 \in Nat \ {0}
    BY <1>3, <1>5
  <2> QED BY <1>3, <1>11, <2>1, Cancel
<1>13. MeanOfPoints(s) = B
  <2>1. Len(s) = len
    BY <1>3, <1>4
  <2>2. (len * B) \div len = B
    BY <1>3, ProductDivided
  <2> QED BY <1>8, <1>12, <2>1, <2>2 DEF MeanOfPoints
<1>14. b = [o \in 1..len |-> KeyPoints(frame.model)[Vids[g][o]]]
  BY <1>1, <1>3 DEF Placed, GroupPoints
<1>15. MeanOfPoints(b) = B
  BY <1>1 DEF Placed
<1> QED BY <1>3, <1>4, <1>13, <1>14, <1>15

-----------------------------------------------------------------------------
(* Whatever was detected, decoded, extracted and normalized before, and at   *)
(* any intensity: the same face, larger or elsewhere in its picture, changes *)
(* no landmark, and every group stays around its centre (normalizePhotos,    *)
(* ApplyFeatures).                                                           *)
THEOREM FaceNormalizedRight == FeaturesSpec => []NormalizedRight
BY FeaturesInvariant, SameFaceHolds, CentreHolds, PTL DEF NormalizedRight

(* A frame at intensity 0 shows the model as it is, and one at full          *)
(* intensity every group in my shape (newFrameReadyAtTime1).                 *)
THEOREM IntensityFramesRight == FeaturesSpec => []FramesRight
BY FeaturesInvariant, NeutralHolds, ShapeHolds, PTL DEF FramesRight

-----------------------------------------------------------------------------
(* Types: of the filter's own groups and of the points drawn, which keep     *)
(* what they were given when the items were others.                          *)
GroupTyped(f, g) ==
  /\ f.point \in Int
  /\ f.list = <<>> \/ f.list \in [1..Len(Vids[g]) -> Int]

TypedInv ==
  /\ \A g \in Groups : GroupTyped(blended[g], g)
  /\ normalized \in BOOLEAN
  /\ \A v \in 0..70 : np_list[v] \in Int
  /\ frame.k \in 0..IntensitySteps /\ frame.complete \in BOOLEAN

(* A group without vectors is typed.                                       *)
LEMMA EmptyTyped == ASSUME NEW g \in Groups PROVE GroupTyped(NoFeatures[g], g)
BY DEF NoFeatures, Empty, GroupTyped

(* The groups of the items are typed.                                        *)
LEMMA FeaturesTyped ==
  ASSUME FeaturesInv, NEW r \in Roles, NEW g \in Groups
  PROVE  GroupTyped(features[r][g], g)
<1>1. CASE features[r] = NoFeatures
  BY <1>1, EmptyTyped
<1>2. CASE features[r] # NoFeatures
  <2>1. PICK p \in Photos : p.face >= TinyFace /\ features[r] = ExtractFeatures(p)
    BY <1>2 DEF FeaturesInv, ExtractedInv
  <2>2. PICK A \in Int : A = MeanOfPoints(GroupPoints(p, g))
    BY MeansAre
  <2>3. PICK a : a = GroupPoints(p, g)
    OBVIOUS
  <2>4. \A j \in 1..Len(Vids[g]) : a[j] \in Int
    BY <2>3, MeansAre
  <2>5. features[r][g] = [point |-> A, list |-> [j \in 1..Len(Vids[g]) |-> a[j] - A]]
    BY <2>1, <2>2, <2>3, GroupsExtracted
  <2>6. [j \in 1..Len(Vids[g]) |-> a[j] - A] \in [1..Len(Vids[g]) -> Int]
    BY <2>4
  <2> QED BY <2>5, <2>6 DEF GroupTyped
<1> QED BY <1>1, <1>2

(* A call of ApplyFeatures keeps the points in the plane.                    *)
LEMMA CallTyped ==
  ASSUME FeaturesInv, TypedInv, NEW g \in Groups, NEW k \in Int,
         NEW np, \A v \in 0..70 : np[v] \in Int
  PROVE  \A v \in 0..70 : ApplyFeatures(np, g, k)[v] \in Int
<1>1. PICK m : m = features["model"][g].list
  OBVIOUS
<1>2. PICK B \in Int : B = features["model"][g].point
  BY FeaturesTyped DEF GroupTyped, Roles
<1>3. m = <<>> \/ m \in [1..Len(Vids[g]) -> Int]
  BY <1>1, FeaturesTyped DEF GroupTyped, Roles
<1>4. ASSUME NEW j \in DOMAIN m PROVE m[j] \in Int
  <2>1. m # <<>>
    OBVIOUS
  <2> QED BY <1>3, <2>1
<1>5. ASSUME NEW j PROVE Vector(blended[g], j) \in Int
  <2>1. PICK l : l = blended[g].list
    OBVIOUS
  <2>2. l = <<>> \/ l \in [1..Len(Vids[g]) -> Int]
    BY <2>1 DEF TypedInv, GroupTyped
  <2>3. ASSUME j \in DOMAIN l PROVE l[j] \in Int
    <3>1. l # <<>>
      BY <2>3
    <3> QED BY <2>2, <2>3, <3>1
  <2> QED BY <2>1, <2>3 DEF Vector
<1>6. IntensitySteps \in Nat \ {0}
  BY FeaturesAssumption
<1> DEFINE Drawn(j) == B + m[j] + (k * (Vector(blended[g], j) - m[j])) \div IntensitySteps
<1>7. ASSUME NEW j \in DOMAIN m PROVE Drawn(j) \in Int
  <2>1. PICK x \in Int, y \in Int, n \in Nat \ {0} : x = m[j] /\ y = Vector(blended[g], j) /\ n = IntensitySteps
    BY <1>4, <1>5, <1>6
  <2>2. PICK z \in Int : z = k * (y - x)
    OBVIOUS
  <2>3. z \div n \in Int
    OBVIOUS
  <2>4. Drawn(j) = B + x + z \div n
    BY <2>1, <2>2
  <2> QED BY <2>3, <2>4
<1>8. PICK r : r = ApplyFeatures(np, g, k)
  OBVIOUS
<1>9. r = [v \in 0..70 |-> IF \E j \in DOMAIN m : Vids[g][j] = v
                           THEN Drawn(CHOOSE j \in DOMAIN m : Vids[g][j] = v) ELSE np[v]]
  BY <1>1, <1>2, <1>8, Zenon DEF ApplyFeatures
<1> HIDE DEF Drawn
<1>10. ASSUME NEW v \in 0..70 PROVE r[v] \in Int
  <2>1. CASE \E j \in DOMAIN m : Vids[g][j] = v
    <3>1. PICK j \in DOMAIN m : j = CHOOSE l \in DOMAIN m : Vids[g][l] = v
      BY <2>1
    <3>2. r[v] = Drawn(j)
      BY <1>9, <2>1, <3>1
    <3> QED BY <1>7, <3>2
  <2>2. CASE ~\E j \in DOMAIN m : Vids[g][j] = v
    BY <1>9, <2>2
  <2> QED BY <2>1, <2>2
<1> QED BY <1>8, <1>10

(* So do all eight calls.                                                  *)
LEMMA AppliedTyped ==
  ASSUME FeaturesInv, TypedInv, NEW k \in Int, item["model"] \in Photos
  PROVE  \A v \in 0..70 : Applied(k)[Len(ApplyOrder)][v] \in Int
<1>1. PICK points : points = Applied(k) /\ Calls(points, k)
  BY AppliedIs
<1>2. Len(ApplyOrder) = 8 /\ \A j \in 1..8 : ApplyOrder[j] \in Groups
  BY GroupNames DEF ApplyOrder
<1> DEFINE G == {l \in Nat : l <= 8 => \A v \in 0..70 : points[l][v] \in Int}
<1>3. 0 \in G
  <2>1. ASSUME NEW v \in 0..70 PROVE points[0][v] \in Int
    <3>1. KeyPoints(item["model"])[v] \in Int /\ item["model"].image \in Int /\ Pixel \in Int
      BY PhotosAre, FeaturesAssumption
    <3>2. points[0][v] = Clamped(KeyPoints(item["model"])[v], item["model"].image - Pixel)
      BY <1>1 DEF Calls, TextureCoordinate
    <3> QED BY <3>1, <3>2 DEF Clamped
  <2> QED BY <2>1
<1>4. ASSUME NEW l \in Nat, l \in G PROVE l + 1 \in G
  <2> SUFFICES ASSUME l + 1 <= 8 PROVE \A v \in 0..70 : points[l + 1][v] \in Int
    OBVIOUS
  <2>1. l + 1 \in 1..8 /\ (l + 1) - 1 = l /\ \A v \in 0..70 : points[l][v] \in Int
    BY <1>4
  <2>2. PICK g \in Groups : g = ApplyOrder[l + 1]
    BY <1>2, <2>1
  <2>3. PICK np : np = points[l]
    OBVIOUS
  <2>4. points[l + 1] = ApplyFeatures(np, g, k)
    BY <1>1, <1>2, <2>1, <2>2, <2>3 DEF Calls
  <2> QED BY <2>1, <2>3, <2>4, CallTyped
<1>5. 8 \in G
  <2> HIDE DEF G
  <2> QED BY <1>3, <1>4, SetInduction
<1> QED BY <1>1, <1>2, <1>5

(* A step that frees the points of the frame.                              *)
LEMMA FreedTyped ==
  ASSUME \A g \in Groups : GroupTyped(blended[g], g)', normalized' \in BOOLEAN, Freed
  PROVE  TypedInv'
<1>1. np_list' = [v \in 0..70 |-> 0] /\ frame'.k = 0 /\ frame'.complete = FALSE
  BY DEF Freed, NoPoints, NoFrame
<1>2. 0 \in 0..IntensitySteps /\ FALSE \in BOOLEAN /\ \A v \in 0..70 : np_list'[v] \in Int
  BY <1>1, FeaturesAssumption
<1> QED BY <1>1, <1>2, Zenon DEF TypedInv

(* Before anything is detected.                                            *)
LEMMA InitTyped == FeaturesInit => TypedInv
<1> SUFFICES ASSUME FeaturesInit PROVE TypedInv
  OBVIOUS
<1>1. /\ np_list = [v \in 0..70 |-> 0] /\ frame.k = 0 /\ frame.complete = FALSE
      /\ blended = NoFeatures /\ normalized = FALSE
  BY DEF FeaturesInit, NoPoints, NoFrame
<1>2. 0 \in 0..IntensitySteps /\ FALSE \in BOOLEAN /\ \A v \in 0..70 : np_list[v] \in Int
  BY <1>1, FeaturesAssumption
<1> QED BY <1>1, <1>2, EmptyTyped, Zenon DEF TypedInv

(* Every step.                                                             *)
LEMMA StepTyped == FeaturesInv /\ TypedInv /\ [FeaturesNext]_featureVars => TypedInv'
<1> SUFFICES ASSUME FeaturesInv, TypedInv, [FeaturesNext]_featureVars PROVE TypedInv'
  OBVIOUS
<1>1. \A g \in Groups : GroupTyped(blended[g], g)
  BY DEF TypedInv
<1>2. CASE blended' = blended /\ normalized' = FALSE /\ Freed
  <2>1. \A g \in Groups : GroupTyped(blended[g], g)'
    BY <1>1, <1>2 DEF GroupTyped
  <2> QED BY <1>2, <2>1, FreedTyped
<1>3. CASE NormalizePhotos
  <2>1. /\ blended' = [g \in Groups |-> NormalizeFeature(features["mine"][g])]
        /\ normalized' = TRUE /\ Freed /\ \A r \in Roles : item[r] \in Photos
    BY <1>3 DEF NormalizePhotos, FeaturesInv, ItemsInv
  <2>2. ASSUME NEW x \in Int PROVE Scaled(x) \in Int
    <3>1. PICK mf \in Nat \ {0}, nf \in Nat \ {0} : mf = item["mine"].face /\ nf = item["model"].face
      BY <2>1, PhotosAre DEF Roles
    <3>2. PICK y \in Int : y = x * nf
      OBVIOUS
    <3> QED BY <3>1, <3>2 DEF Scaled
  <2>3. ASSUME NEW g \in Groups PROVE GroupTyped(blended'[g], g)
    <3>1. PICK f : f = features["mine"][g]
      OBVIOUS
    <3>2. f.point \in Int /\ (f.list = <<>> \/ f.list \in [1..Len(Vids[g]) -> Int])
      BY <3>1, FeaturesTyped DEF GroupTyped, Roles
    <3>3. PICK l : l = f.list
      OBVIOUS
    <3>4. PICK h : h = [o \in DOMAIN l |-> Scaled(l[o])]
      OBVIOUS
    <3>5. h = <<>> \/ h \in [1..Len(Vids[g]) -> Int]
      <4>1. CASE l = <<>>
        <5>1. DOMAIN l = {}
          BY <4>1
        <5> QED BY <3>4, <5>1
      <4>2. CASE l \in [1..Len(Vids[g]) -> Int]
        BY <2>2, <3>4, <4>2
      <4> QED BY <3>2, <3>3, <4>1, <4>2
    <3>6. blended'[g] = [point |-> Scaled(f.point), list |-> h]
      BY <2>1, <3>1, <3>3, <3>4 DEF NormalizeFeature
    <3> QED BY <2>2, <3>2, <3>5, <3>6 DEF GroupTyped
  <2>4. \A g \in Groups : GroupTyped(blended[g], g)'
    BY <2>3 DEF GroupTyped
  <2> QED BY <2>1, <2>4, FreedTyped
<1>4. ASSUME NEW k \in 0..IntensitySteps, DrawFrame(k) PROVE TypedInv'
  <2>1. /\ blended' = blended /\ normalized' = normalized
        /\ np_list' = Applied(k)[Len(ApplyOrder)]
        /\ frame'.k = k /\ frame'.complete \in BOOLEAN
    BY <1>4 DEF DrawFrame
  <2>2. item["model"] \in Photos
    BY <1>4 DEF DrawFrame, FeaturesInv, ItemsInv, Roles
  <2>3. k \in Int
    BY FeaturesAssumption
  <2>4. \A v \in 0..70 : Applied(k)[Len(ApplyOrder)][v] \in Int
    BY <2>2, <2>3, AppliedTyped
  <2>5. \A g \in Groups : GroupTyped(blended[g], g)'
    BY <1>1, <2>1 DEF GroupTyped
  <2>6. normalized \in BOOLEAN
    BY DEF TypedInv
  <2> QED BY <2>1, <2>4, <2>5, <2>6 DEF TypedInv
<1>5. CASE UNCHANGED featureVars
  BY <1>5 DEF featureVars, TypedInv, GroupTyped
<1>6. ASSUME NEW r \in Roles, (\E photo \in Photos : DetectFeatures(r, photo)) \/ Decode(r) \/ Extract(r)
      PROVE  blended' = blended /\ normalized' = FALSE /\ Freed
  BY <1>6 DEF DetectFeatures, Decode, Extract
<1> QED BY <1>2, <1>3, <1>4, <1>5, <1>6 DEF FeaturesNext

(* A group is empty or has as many vectors as landmarks.                   *)
LEMMA TypedFollow == ASSUME FeaturesInv, TypedInv PROVE FeaturesTypeOK
<1>1. item \in [Roles -> Photos \cup {NoPhoto}]
  BY DEF FeaturesInv, ItemsInv
<1>2. ASSUME NEW g \in Groups, NEW f \in {features["mine"][g], features["model"][g], blended[g]}
      PROVE  f.point \in Int /\ Len(f.list) \in {0, Len(Vids[g])}
  <2>1. GroupTyped(f, g)
    BY FeaturesTyped DEF TypedInv, Roles
  <2>2. PICK l : l = f.list
    OBVIOUS
  <2>3. PICK len \in Nat : len = Len(Vids[g])
    BY GroupsAre
  <2>4. l = <<>> \/ l \in [1..len -> Int]
    BY <2>1, <2>2, <2>3 DEF GroupTyped
  <2>5. Len(l) \in {0, len}
    BY <2>4
  <2> QED BY <2>1, <2>2, <2>3, <2>5 DEF GroupTyped
<1> QED BY <1>1, <1>2 DEF FeaturesTypeOK, TypedInv

(* Items, groups and points keep their types: a group is empty or has as    *)
(* many vectors as landmarks, so that ApplyFeatures reads inside its lists.  *)
THEOREM FeaturesTypeCorrect == FeaturesSpec => []FeaturesTypeOK
<1>1. FeaturesSpec => [](FeaturesInv /\ TypedInv)
  <2>1. FeaturesInit => FeaturesInv /\ TypedInv
    BY InitFeatures, InitTyped
  <2>2. FeaturesInv /\ TypedInv /\ [FeaturesNext]_featureVars => (FeaturesInv /\ TypedInv)'
    BY StepFeatures, StepTyped
  <2> QED BY <2>1, <2>2, PTL DEF FeaturesSpec
<1> QED BY <1>1, TypedFollow, PTL

-----------------------------------------------------------------------------
(* The two sides of a detection as they are checked.                         *)

FacesInv == DetectInv /\ FeaturesInv /\ TypedInv

(* A step is one of one side; the other does not move.                       *)
LEMMA StepFaces == FacesInv /\ [MCNext]_<<detectVars, featureVars, part>> => FacesInv'
<1> SUFFICES ASSUME FacesInv, [MCNext]_<<detectVars, featureVars, part>> PROVE FacesInv'
  OBVIOUS
<1>1. [DetectNext]_detectVars /\ [FeaturesNext]_featureVars
  BY DEF MCNext
<1>2. DetectInv'
  BY <1>1, DetectStepInv DEF FacesInv
<1>3. FeaturesInv' /\ TypedInv'
  BY <1>1, StepFeatures, StepTyped DEF FacesInv
<1> QED BY <1>2, <1>3 DEF FacesInv

(* Types of both sides: the service's queue and buffer, the items, groups    *)
(* and points; ApplyFeatures reads inside the lists of every group.          *)
THEOREM FacesTyped == MCSpec => []TypesOK
<1>1. MCInit => FacesInv
  BY DetectInitInv, InitFeatures, InitTyped DEF MCInit, FacesInv
<1>2. FacesInv => TypesOK
  BY TypedFollow DEF FacesInv, DetectInv, TypesOK
<1> QED BY <1>1, <1>2, StepFaces, PTL DEF MCSpec
=============================================================================
