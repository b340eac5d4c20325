--------------------------- MODULE LintPathProofs ---------------------------
(* Proofs about the ways through the #if, #else and #endif of a file: the    *)
(* stack of blocks is as deep as the braces on the way to the line, and a    *)
(* header that was included on it is found again. The model copies stacks    *)
(* and takes lists away as it goes from line to line; the properties look    *)
(* back over the whole file.                                                 *)
EXTENDS LintProofs

-----------------------------------------------------------------------------
(* Braces in a row of tokens                                                 *)

Braced(token, d) ==
    CASE token = "{" -> d + 1
      [] token = "}" /\ d > 0 -> d - 1
      [] OTHER -> d

LEMMA BracedIs == ASSUME NEW token, NEW d \in Nat PROVE Braced(token, d) \in Nat
<1>1. d + 1 \in Nat /\ (d > 0 => d - 1 \in Nat)
  OBVIOUS
<1>2. CASE token = "{"
  <2>1. token # "}"
    BY <1>2
  <2> QED
    BY <1>1, <1>2, <2>1 DEF Braced
<1>3. CASE token = "}" /\ d > 0
  <2>1. token # "{"
    BY <1>3
  <2> QED
    BY <1>1, <1>3, <2>1 DEF Braced
<1>4. CASE token # "{" /\ ~(token = "}" /\ d > 0)
  BY <1>4 DEF Braced
<1> QED
  BY <1>2, <1>3, <1>4

LEMMA DepthSteps ==
  ASSUME NEW text \in Line
  PROVE  \E d \in [0 .. Len(text) -> Nat] :
           /\ d[0] = 0 /\ Depth(text) = d[Len(text)]
           /\ \A i \in 1 .. Len(text) : d[i] = Braced(text[i], d[i-1])
<1> DEFINE n == Len(text)
           Solves(f) == f = [i \in 0 .. n |-> IF i = 0 THEN 0 ELSE Braced(text[i], f[i-1])]
           S == 0 .. n
           move == [p \in S \X Nat |-> Braced(text[p[1]], p[2])]
<1>1. n \in Nat
  BY LineLen
<1>2. move \in [S \X Nat -> Nat]
  BY BracedIs
<1>3. \A i \in S, d \in Nat : move[<<i, d>>] = Braced(text[i], d)
  OBVIOUS
<1> HIDE DEF move, n, S
<1>4. PICK f \in [0 .. n -> Nat] : Steps(f, n, 0, move)
  BY <1>1, <1>2, Counting DEF S
<1>5. \A i \in 1 .. n : i \in S /\ i \in 0 .. n /\ i - 1 \in 0 .. n /\ i # 0
  BY <1>1 DEF S
<1>6. f[0] = 0 /\ \A i \in 1 .. n : f[i] = Braced(text[i], f[i-1])
  <2>1. 0 \in 0 .. n
    BY <1>1
  <2>2. f[0] = 0
    BY <1>4, <2>1 DEF Steps
  <2>3. ASSUME NEW i \in 1 .. n PROVE f[i] = Braced(text[i], f[i-1])
    <3>1. f[i] = move[<<i, f[i-1]>>] /\ f[i-1] \in Nat
      BY <1>4, <1>5 DEF Steps
    <3> QED
      BY <1>3, <1>5, <3>1
  <2> QED
    BY <2>2, <2>3
<1> DEFINE g == CHOOSE h : Solves(h)
<1>7. Solves(g)
  <2>1. \A i \in 0 .. n : f[i] = IF i = 0 THEN 0 ELSE Braced(text[i], f[i-1])
    <3>1. \A i \in 0 .. n : i = 0 \/ i \in 1 .. n
      BY <1>1
    <3> QED
      BY <1>6, <3>1
  <2>2. Solves(f)
    BY <2>1
  <2> HIDE DEF Solves
  <2> QED
    BY <2>2
<1>8. Depth(text) = g[n]
  BY DEF Depth, g, n, Braced
<1> HIDE DEF g
<1>9. \A i \in 0 .. n : g[i] = IF i = 0 THEN 0 ELSE Braced(text[i], g[i-1])
  BY <1>7
<1> DEFINE P == {i \in 0 .. n : g[i] = f[i]}
<1>10. 0 \in P
  BY <1>1, <1>6, <1>9
<1>11. \A i \in 1 .. n : i - 1 \in P => i \in P
  BY <1>5, <1>6, <1>9
<1> HIDE DEF P
<1>12. 0 .. n \subseteq P
  BY <1>1, <1>10, <1>11, CountInduction
<1>13. n \in 0 .. n
  BY <1>1
<1>14. Depth(text) = f[n]
  BY <1>8, <1>12, <1>13 DEF P
<1> QED
  BY <1>6, <1>14 DEF n

\* What is read before does not depend on what comes after.
LEMMA DepthFrom ==
  ASSUME NEW a \in Line, NEW b \in Line
  PROVE  \E d \in [0 .. Len(b) -> Nat] :
           /\ d[0] = Depth(a) /\ Depth(a \o b) = d[Len(b)]
           /\ \A i \in 1 .. Len(b) : d[i] = Braced(b[i], d[i-1])
<1> DEFINE c == a \o b
           m == Len(a)
           n == Len(b)
<1>1. /\ m \in Nat /\ n \in Nat /\ c \in Line /\ Len(c) = m + n
      /\ \A i \in 1 .. m : c[i] = a[i]
      /\ \A i \in 1 .. n : c[m + i] = b[i]
  BY DEF Line
<1>2. PICK f \in [0 .. m -> Nat] : /\ f[0] = 0 /\ Depth(a) = f[m]
                                   /\ \A i \in 1 .. m : f[i] = Braced(a[i], f[i-1])
  BY DepthSteps
<1>3. PICK g \in [0 .. m + n -> Nat] :
        /\ g[0] = 0 /\ Depth(c) = g[m + n]
        /\ \A i \in 1 .. m + n : g[i] = Braced(c[i], g[i-1])
  BY <1>1, DepthSteps
<1> HIDE DEF c, m, n
<1> DEFINE P == {i \in 0 .. m : g[i] = f[i]}
<1>4. 0 \in P
  BY <1>1, <1>2, <1>3
<1>5. ASSUME NEW i \in 1 .. m, i - 1 \in P PROVE i \in P
  <2>1. i \in 1 .. m + n /\ i \in 0 .. m
    BY <1>1
  <2>2. g[i] = Braced(c[i], g[i-1]) /\ f[i] = Braced(a[i], f[i-1]) /\ c[i] = a[i]
    BY <1>1, <1>2, <1>3, <2>1
  <2> QED
    BY <1>5, <2>1, <2>2
<1> HIDE DEF P
<1>6. 0 .. m \subseteq P
  BY <1>1, <1>4, <1>5, CountInduction
<1>7. g[m] = Depth(a)
  <2>1. m \in 0 .. m
    BY <1>1
  <2> QED
    BY <1>2, <1>6, <2>1 DEF P
<1> DEFINE d == [i \in 0 .. n |-> g[m + i]]
<1>8. d \in [0 .. n -> Nat]
  <2>1. \A i \in 0 .. n : m + i \in 0 .. m + n
    BY <1>1
  <2> QED
    BY <1>3, <2>1
<1>9. d[0] = Depth(a) /\ d[n] = Depth(c)
  <2>1. 0 \in 0 .. n /\ n \in 0 .. n /\ m + 0 = m
    BY <1>1
  <2> QED
    BY <1>3, <1>7, <2>1
<1>10. ASSUME NEW i \in 1 .. n PROVE d[i] = Braced(b[i], d[i-1])
  <2>1. /\ m + i \in 1 .. m + n /\ i \in 0 .. n /\ i - 1 \in 0 .. n
        /\ m + (i - 1) = (m + i) - 1
    BY <1>1
  <2>2. g[m + i] = Braced(c[m + i], g[(m + i) - 1]) /\ c[m + i] = b[i]
    BY <1>1, <1>3, <2>1
  <2>3. d[i] = g[m + i] /\ d[i-1] = g[m + (i - 1)]
    BY <2>1
  <2> QED
    BY <2>1, <2>2, <2>3
<1> HIDE DEF d
<1> QED
  BY <1>8, <1>9, <1>10 DEF c, n

LEMMA DepthEmpty == Depth(<<>>) = 0
<1>1. <<>> \in Line /\ Len(<<>>) = 0
  BY DEF Line
<1> QED
  BY <1>1, DepthSteps

LEMMA DepthIsNat == ASSUME NEW text \in Line PROVE Depth(text) \in Nat
<1>1. Len(text) \in 0 .. Len(text)
  BY LineLen
<1> QED
  BY <1>1, DepthSteps

LEMMA DepthOne ==
  ASSUME NEW a \in Line, NEW token \in STRING
  PROVE  Depth(a \o <<token>>) = Braced(token, Depth(a))
<1> DEFINE b == <<token>>
<1>1. b \in Line /\ Len(b) = 1 /\ b[1] = token
  BY One DEF Line
<1> HIDE DEF b
<1>2. PICK d \in [0 .. Len(b) -> Nat] :
        /\ d[0] = Depth(a) /\ Depth(a \o b) = d[Len(b)]
        /\ \A i \in 1 .. Len(b) : d[i] = Braced(b[i], d[i-1])
  BY <1>1, DepthFrom
<1>3. 1 \in 1 .. Len(b) /\ 1 - 1 = 0
  BY <1>1
<1>4. d[1] = Braced(b[1], d[0])
  BY <1>2, <1>3
<1>5. Depth(a \o b) = Braced(token, Depth(a))
  BY <1>1, <1>2, <1>4
<1> QED
  BY <1>5 DEF b

LEMMA DepthQuiet ==
  ASSUME NEW a \in Line, NEW b \in Line, \A i \in 1 .. Len(b) : ~IsBrace(b[i])
  PROVE  Depth(a \o b) = Depth(a)
<1> DEFINE n == Len(b)
<1>1. n \in Nat
  BY LineLen
<1>2. PICK d \in [0 .. n -> Nat] :
        /\ d[0] = Depth(a) /\ Depth(a \o b) = d[n]
        /\ \A i \in 1 .. n : d[i] = Braced(b[i], d[i-1])
  BY DepthFrom
<1> DEFINE P == {i \in 0 .. n : d[i] = Depth(a)}
<1>3. 0 \in P
  BY <1>1, <1>2
<1>4. ASSUME NEW i \in 1 .. n, i - 1 \in P PROVE i \in P
  <2>3. i \in 0 .. n
    BY <1>1
  <2>4. ~IsBrace(b[i])
    OBVIOUS
  <2>1. b[i] # "{" /\ b[i] # "}" /\ i \in 0 .. n
    BY <2>3, <2>4 DEF IsBrace
  <2>2. d[i] = d[i-1]
    BY <1>2, <2>1 DEF Braced
  <2> QED
    BY <1>4, <2>1, <2>2
<1> HIDE DEF P, n
<1>5. 0 .. n \subseteq P
  BY <1>1, <1>3, <1>4, CountInduction
<1>6. n \in 0 .. n
  BY <1>1
<1> QED
  BY <1>2, <1>5, <1>6 DEF P

-----------------------------------------------------------------------------
(* Heads of classes and namespaces, and what they are followed by            *)

HeadWords == {"class", "struct", "namespace"}
Telling == HeadWords \cup {"{", "}", ";"}

\* The token at j is the first after the head at i that tells of its block.
Follows(text, i, j) ==
    /\ i < j /\ text[i] \in HeadWords /\ text[j] \in Telling
    /\ \A k \in i + 1 .. j - 1 : text[k] \notin Telling

\* A head that is not followed yet.
Pending(text) ==
    \E i \in DOMAIN text : /\ text[i] \in HeadWords
                           /\ \A j \in i + 1 .. Len(text) : text[j] \notin Telling

LEMMA FirstAfter ==
  ASSUME NEW text \in Line, NEW i \in 1 .. Len(text), NEW j \in i + 1 .. Len(text),
         text[i] \in HeadWords, text[j] \in Telling
  PROVE  \E k \in i + 1 .. j : Follows(text, i, k)
<1> DEFINE T == {k \in i + 1 .. j : text[k] \in Telling}
<1>1. Len(text) \in Nat
  BY LineLen
<1>2. T \in SUBSET Nat /\ T # {}
  BY <1>1
<1>3. PICK k \in T : \A l \in T : k <= l
  BY <1>2, LeastOf
<1>4. k \in i + 1 .. j /\ text[k] \in Telling
  OBVIOUS
<1>5. ASSUME NEW l \in i + 1 .. k - 1 PROVE text[l] \notin Telling
  <2>1. l \in i + 1 .. j /\ ~(k <= l)
    BY <1>1, <1>4
  <2> QED
    BY <1>3, <2>1
<1>6. i < k
  BY <1>1, <1>4
<1> QED
  BY <1>4, <1>5, <1>6 DEF Follows

LEMMA CompleteIs ==
  ASSUME NEW text \in Line
  PROVE  HeadsComplete(text) <=>
           \A i, j \in 1 .. Len(text) : Follows(text, i, j) =>
             text[j] = "{" \/ (text[j] = ";" /\ text[i] # "namespace")
<1> DEFINE T(i) == {j \in i + 1 .. Len(text) : text[j] \in Telling}
<1>1. Len(text) \in Nat /\ DOMAIN text = 1 .. Len(text)
  BY DEF Line
<1>2. HeadsComplete(text) <=>
        \A i \in 1 .. Len(text) :
          text[i] \in HeadWords /\ T(i) # {} =>
            \/ text[Min(T(i))] = "{"
            \/ text[Min(T(i))] = ";" /\ text[i] # "namespace"
  BY <1>1 DEF HeadsComplete, HeadWords, Telling
<1>3. ASSUME NEW i \in 1 .. Len(text), T(i) # {}
      PROVE  Min(T(i)) \in T(i) /\ \A j \in T(i) : Min(T(i)) <= j
  <2>1. T(i) \in SUBSET Nat
    BY <1>1
  <2> HIDE DEF T
  <2> QED
    BY <1>3, <2>1, MinOf
<1>4. ASSUME NEW i \in 1 .. Len(text), text[i] \in HeadWords, T(i) # {}
      PROVE  Follows(text, i, Min(T(i))) /\ Min(T(i)) \in 1 .. Len(text)
  <2> DEFINE m == Min(T(i))
  <2>1. m \in T(i) /\ \A j \in T(i) : m <= j
    BY <1>3, <1>4
  <2> HIDE DEF m
  <2>2. m \in i + 1 .. Len(text) /\ text[m] \in Telling
    BY <2>1
  <2>3. i < m /\ m \in 1 .. Len(text)
    BY <1>1, <2>2
  <2>4. ASSUME NEW k \in i + 1 .. m - 1 PROVE text[k] \notin Telling
    <3>1. k \in i + 1 .. Len(text) /\ ~(m <= k)
      BY <1>1, <2>2
    <3> QED
      BY <2>1, <3>1
  <2>5. Follows(text, i, m)
    BY <1>4, <2>2, <2>3, <2>4 DEF Follows
  <2> QED
    BY <2>3, <2>5 DEF m
<1>5. ASSUME NEW i \in 1 .. Len(text), NEW j \in 1 .. Len(text), Follows(text, i, j)
      PROVE  T(i) # {} /\ Min(T(i)) = j
  <2>1. j \in T(i)
    BY <1>1, <1>5 DEF Follows
  <2> DEFINE m == Min(T(i))
  <2>2. m \in T(i) /\ m <= j
    BY <1>3, <2>1
  <2> HIDE DEF m
  <2>3. m \in i + 1 .. Len(text) /\ text[m] \in Telling
    BY <2>2
  <2>4. m \notin i + 1 .. j - 1
    BY <1>5, <2>3 DEF Follows
  <2>5. m = j
    BY <1>1, <2>2, <2>3, <2>4
  <2> QED
    BY <2>1, <2>5 DEF m
<1> HIDE DEF T
<1>6. ASSUME HeadsComplete(text), NEW i \in 1 .. Len(text), NEW j \in 1 .. Len(text),
             Follows(text, i, j)
      PROVE  text[j] = "{" \/ (text[j] = ";" /\ text[i] # "namespace")
  <2>1. text[i] \in HeadWords
    BY <1>6 DEF Follows
  <2> QED
    BY <1>2, <1>5, <1>6, <2>1
<1>7. ASSUME \A i, j \in 1 .. Len(text) : Follows(text, i, j) =>
               text[j] = "{" \/ (text[j] = ";" /\ text[i] # "namespace")
      PROVE  HeadsComplete(text)
  BY <1>2, <1>4, <1>7
<1> QED
  BY <1>6, <1>7

LEMMA CompleteBefore ==
  ASSUME NEW a \in Line, NEW b \in Line, HeadsComplete(a \o b)
  PROVE  HeadsComplete(a)
<1> DEFINE c == a \o b
           m == Len(a)
<1>1. /\ c \in Line /\ Len(c) = m + Len(b) /\ m \in Nat /\ Len(b) \in Nat
      /\ \A i \in 1 .. m : c[i] = a[i]
  BY JoinIs
<1>2. HeadsComplete(c)
  OBVIOUS
<1> HIDE DEF c, m
<1>3. ASSUME NEW i \in 1 .. m, NEW j \in 1 .. m, Follows(a, i, j)
      PROVE  a[j] = "{" \/ (a[j] = ";" /\ a[i] # "namespace")
  <2>1. i \in 1 .. Len(c) /\ j \in 1 .. Len(c) /\ \A k \in i + 1 .. j - 1 : k \in 1 .. m
    BY <1>1
  <2>2. Follows(c, i, j)
    BY <1>1, <1>3, <2>1 DEF Follows
  <2>3. c[j] = "{" \/ (c[j] = ";" /\ c[i] # "namespace")
    BY <1>1, <1>2, <2>1, <2>2, CompleteIs
  <2> QED
    BY <1>1, <2>3
<1> QED
  BY <1>3, CompleteIs DEF m

\* Places in a row of n tokens, or of m and n tokens.
LEMMA PlacesIn ==
  ASSUME NEW l \in Nat, NEW h \in 1 .. l, NEW n \in h .. l
  PROVE  \A j \in h + 1 .. n :
           /\ j \in h + 1 .. l
           /\ \A k \in h + 1 .. j : k \in 1 .. l /\ k \in h + 1 .. n
OBVIOUS

LEMMA PlacesOf ==
  ASSUME NEW m \in Nat, NEW n \in Nat, NEW h \in 1 .. m, NEW l, l = m + n
  PROVE  /\ h \in 1 .. l /\ l \in h .. l
         /\ \A j \in h + 1 .. l :
              \/ j \in 1 .. m /\ j \in h + 1 .. m
              \/ j - m \in 1 .. n /\ m + (j - m) = j
         /\ \A i \in 1 .. n : m + i \in h + 1 .. l
OBVIOUS

\* Nothing follows a head on a row of tokens without a brace or a semicolon.
LEMMA NoneFollows ==
  ASSUME NEW text \in Line, HeadsComplete(text), NEW h \in 1 .. Len(text),
         text[h] \in HeadWords, NEW n \in h .. Len(text),
         \A j \in h + 1 .. n : text[j] # "{" /\ (text[j] = ";" => text[h] = "namespace")
  PROVE  \A j \in h + 1 .. n : text[j] \notin Telling
<1>0. Len(text) \in Nat
  BY LineLen
<1> SUFFICES ASSUME NEW j \in h + 1 .. n, text[j] \in Telling PROVE FALSE
  OBVIOUS
<1>1. j \in h + 1 .. Len(text) /\ \A k \in h + 1 .. j : k \in 1 .. Len(text) /\ k \in h + 1 .. n
  <2>1. \A i \in h + 1 .. n :
          /\ i \in h + 1 .. Len(text)
          /\ \A k \in h + 1 .. i : k \in 1 .. Len(text) /\ k \in h + 1 .. n
    BY <1>0, PlacesIn, Zenon
  <2> QED
    BY <2>1, Zenon
<1>2. PICK k \in h + 1 .. j : Follows(text, h, k)
  BY <1>1, FirstAfter
<1>3. k \in 1 .. Len(text) /\ k \in h + 1 .. n
  BY <1>1
<1> QED
  BY <1>2, <1>3, CompleteIs

LEMMA NoneIsTold ==
  ASSUME NEW a \in Line, NEW b \in Line, HeadsComplete(a \o b), Pending(a),
         \A i \in 1 .. Len(b) : b[i] \notin {"{", ";"}
  PROVE  (\A i \in 1 .. Len(b) : b[i] \notin Telling) /\ Pending(a \o b)
<1> DEFINE c == a \o b
           m == Len(a)
           n == Len(b)
<1>0. DOMAIN a = 1 .. m /\ \A t \in Line : DOMAIN t = 1 .. Len(t)
  BY PlacesAre
<1>1. /\ c \in Line /\ Len(c) = m + n /\ m \in Nat /\ n \in Nat
      /\ \A i \in 1 .. m : c[i] = a[i]
      /\ \A i \in 1 .. n : c[m + i] = b[i]
  BY JoinIs
<1>2. HeadsComplete(c)
  OBVIOUS
<1>9. \A i \in 1 .. n : b[i] # "{" /\ b[i] # ";"
  OBVIOUS
<1> HIDE DEF c, m, n
<1>3. PICK h \in 1 .. m : a[h] \in HeadWords /\ \A j \in h + 1 .. m : a[j] \notin Telling
  BY <1>0 DEF Pending, m
<1>10. /\ h \in 1 .. Len(c) /\ Len(c) \in h .. Len(c)
       /\ \A j \in h + 1 .. Len(c) :
            \/ j \in 1 .. m /\ j \in h + 1 .. m
            \/ j - m \in 1 .. n /\ m + (j - m) = j
       /\ \A i \in 1 .. n : m + i \in h + 1 .. Len(c)
  BY <1>1, PlacesOf, Zenon
<1>4. c[h] \in HeadWords /\ DOMAIN c = 1 .. Len(c)
  BY <1>0, <1>1, <1>3
<1>11. \A x : x \notin Telling => x # "{" /\ x # ";"
  BY DEF Telling
<1>5. ASSUME NEW j \in h + 1 .. Len(c) PROVE c[j] # "{" /\ c[j] # ";"
  <2>1. CASE j \in 1 .. m /\ j \in h + 1 .. m
    BY <1>1, <1>3, <1>11, <2>1
  <2>2. CASE j - m \in 1 .. n /\ m + (j - m) = j
    <3>2. c[j] = b[j - m]
      BY <1>1, <2>2
    <3> QED
      BY <1>9, <2>2, <3>2
  <2> QED
    BY <1>10, <2>1, <2>2
<1>6. \A j \in h + 1 .. Len(c) : c[j] \notin Telling
  BY <1>1, <1>2, <1>4, <1>5, <1>10, NoneFollows
<1>7. ASSUME NEW i \in 1 .. n PROVE b[i] \notin Telling
  BY <1>1, <1>6, <1>10
<1>8. Pending(c)
  BY <1>4, <1>6, <1>10 DEF Pending
<1> QED
  BY <1>7, <1>8 DEF c, n

-----------------------------------------------------------------------------
(* The blocks that a row of tokens leaves                                    *)

\* Every block has its brace, or the one on top has not.
AllOpen(s) == \A i \in 1 .. Len(s) : s[i].open
Heading(s) == s # <<>> /\ ~s[Len(s)].open /\ \A i \in 1 .. Len(s) - 1 : s[i].open

\* Tokens that tell nothing of blocks, unless they are heads.
Silent(text) == \A i \in 1 .. Len(text) : text[i] \notin {"{", "}", ";"}

LEMMA SilentIs ==
  ASSUME NEW text, Silent(text)
  PROVE  /\ \A i \in 1 .. Len(text) : ~IsBrace(text[i])
         /\ \A i \in 1 .. Len(text) : text[i] \notin {"{", ";"}
         /\ \A i \in 1 .. Len(text) : text[i] # "{" /\ text[i] # ";"
BY DEF Silent, IsBrace

\* As many blocks as braces, or one more for a head that is not followed yet.
IsDeep(s, text) ==
    HeadsComplete(text) =>
      \/ AllOpen(s) /\ Len(s) = Depth(text)
      \/ Heading(s) /\ Len(s) = Depth(text) + 1 /\ Pending(text)

LEMMA DeepQuiet ==
  ASSUME NEW s, NEW r, NEW a \in Line, NEW b \in Line, IsDeep(s, a),
         Silent(b),
         AllOpen(s) => AllOpen(r) /\ Len(r) = Len(s),
         Heading(s) => Heading(r) /\ Len(r) = Len(s)
  PROVE  IsDeep(r, a \o b)
<1>1. Depth(a \o b) = Depth(a)
  BY SilentIs, DepthQuiet
<1>2. \A i \in 1 .. Len(b) : b[i] \notin {"{", ";"}
  BY SilentIs
<1>3. HeadsComplete(a \o b) => HeadsComplete(a)
  BY CompleteBefore
<1>4. HeadsComplete(a \o b) /\ Pending(a) => Pending(a \o b)
  BY <1>2, NoneIsTold
<1> QED
  BY <1>1, <1>3, <1>4, Zenon DEF IsDeep

\* What one token does to the depth and leaves of what was before.
LEMMA OneMore ==
  ASSUME NEW a \in Line, NEW token \in STRING
  PROVE  /\ Depth(a) \in Nat /\ Depth(a \o <<token>>) = Braced(token, Depth(a))
         /\ HeadsComplete(a \o <<token>>) => HeadsComplete(a)
<1>1. <<token>> \in Line
  BY One DEF Line
<1> QED
  BY <1>1, DepthOne, DepthIsNat, CompleteBefore

\* A brace opens the block on top, or another one.
LEMMA DeepOpened ==
  ASSUME NEW s, NEW r, NEW a \in Line, IsDeep(s, a), NEW token \in STRING, token = "{",
         AllOpen(s) => AllOpen(r) /\ Len(r) = Len(s) + 1,
         Heading(s) => AllOpen(r) /\ Len(r) = Len(s)
  PROVE  IsDeep(r, a \o <<token>>)
<1>1. Depth(a \o <<token>>) = Depth(a) + 1
  BY OneMore DEF Braced
<1>2. HeadsComplete(a \o <<token>>) => HeadsComplete(a)
  BY OneMore
<1> QED
  BY <1>1, <1>2, Zenon DEF IsDeep

LEMMA OneOnly == ASSUME NEW n, n = 1 PROVE 1 \in 1 .. n /\ \A i \in 1 .. n : i = 1
OBVIOUS

LEMMA OneLess == ASSUME NEW d \in Nat PROVE d + 1 - 1 = d /\ (d > 0 <=> d # 0)
OBVIOUS

LEMMA MinusOne == ASSUME NEW d \in Nat PROVE \A n : n = d + 1 => n - 1 = d
OBVIOUS

LEMMA Shifted ==
  ASSUME NEW m \in Nat, NEW n \in Nat, NEW h \in 1 .. n, NEW l, l = m + n
  PROVE  /\ m + h \in 1 .. l /\ l \in m + h .. l
         /\ \A j \in (m + h) + 1 .. l : j - m \in 1 .. n /\ m + (j - m) = j
         /\ \A j \in 1 .. n : j \in 1 .. h \/ m + j \in (m + h) + 1 .. l
OBVIOUS

LEMMA JoinAt ==
  ASSUME NEW a \in Line, NEW b \in Line, NEW h \in 1 .. Len(b), NEW m, m = Len(a),
         NEW n, n = Len(b), NEW l, l = Len(a \o b)
  PROVE  /\ m + h \in 1 .. l /\ l \in m + h .. l
         /\ \A j \in (m + h) + 1 .. l : j - m \in 1 .. n /\ m + (j - m) = j
         /\ \A j \in 1 .. n : j \in 1 .. h \/ m + j \in (m + h) + 1 .. l
<1>1. h \in 1 .. n /\ m \in Nat /\ n \in Nat /\ l = m + n
  BY JoinIs
<1> QED
  BY <1>1, Shifted

LEMMA TokenIs ==
  ASSUME NEW a \in Line, NEW token \in STRING, token \notin {"{", ";"}, Pending(a),
         HeadsComplete(a \o <<token>>)
  PROVE  token \notin Telling
<1> DEFINE b == <<token>>
<1>1. b \in Line /\ Len(b) = 1 /\ b[1] = token
  BY One DEF Line
<1> HIDE DEF b
<1>2. 1 \in 1 .. Len(b) /\ \A i \in 1 .. Len(b) : i = 1
  BY <1>1, OneOnly
<1>3. HeadsComplete(a \o b)
  BY DEF b
<1>4. \A i \in 1 .. Len(b) : b[i] \notin {"{", ";"}
  BY <1>1, <1>2, Zenon
<1>5. \A i \in 1 .. Len(b) : b[i] \notin Telling
  BY <1>1, <1>3, <1>4, NoneIsTold
<1> QED
  BY <1>1, <1>2, <1>5

\* A brace closes the block on top.
LEMMA DeepClosed ==
  ASSUME NEW s, NEW r, NEW a \in Line, IsDeep(s, a), NEW token \in STRING, token = "}",
         AllOpen(s) => AllOpen(r) /\ Len(r) = IF Len(s) = 0 THEN 0 ELSE Len(s) - 1
  PROVE  IsDeep(r, a \o <<token>>)
<1>1. token \in Telling /\ token \notin {"{", ";"}
  BY DEF Telling
<1>2. Depth(a \o <<token>>) = IF Depth(a) = 0 THEN 0 ELSE Depth(a) - 1
  <2>1. token # "{" /\ Depth(a \o <<token>>) = Braced(token, Depth(a)) /\ Depth(a) \in Nat
    BY OneMore
  <2>2. Depth(a) > 0 <=> Depth(a) # 0
    BY <2>1, OneLess
  <2> QED
    BY <2>1, <2>2, Zenon DEF Braced
<1>3. HeadsComplete(a \o <<token>>) => HeadsComplete(a) /\ ~Pending(a)
  BY <1>1, OneMore, TokenIs
<1> QED
  BY <1>2, <1>3, Zenon DEF IsDeep

\* A semicolon changes nothing, or a head turns out to be a declaration.
LEMMA DeepPassed ==
  ASSUME NEW s, NEW r, NEW a \in Line, IsDeep(s, a),
         NEW token \in STRING, token # "{", token # "}",
         AllOpen(s) => AllOpen(r) /\ Len(r) = Len(s),
         Heading(s) => AllOpen(r) /\ Len(r) = Len(s) - 1
  PROVE  IsDeep(r, a \o <<token>>)
<1>1. Depth(a \o <<token>>) = Depth(a) /\ Depth(a) \in Nat
  BY OneMore DEF Braced
<1>2. HeadsComplete(a \o <<token>>) => HeadsComplete(a)
  BY OneMore
<1>3. Len(s) = Depth(a) + 1 => Len(s) - 1 = Depth(a)
  BY <1>1, MinusOne, Zenon
<1> QED
  BY <1>1, <1>2, <1>3, Zenon DEF IsDeep

\* A head without a brace is pending.
LEMMA DeepHead ==
  ASSUME NEW s, NEW r, NEW a \in Line, NEW b \in Line, IsDeep(s, a),
         Silent(b),
         NEW h \in 1 .. Len(b), b[h] \in HeadWords,
         AllOpen(s) => Heading(r) /\ Len(r) = Len(s) + 1
  PROVE  IsDeep(r, a \o b)
<1> DEFINE c == a \o b
           m == Len(a)
           n == Len(b)
<1>1. Depth(c) = Depth(a)
  BY SilentIs, DepthQuiet
<1>2. \A i \in 1 .. Len(b) : b[i] \notin {"{", ";"}
  BY SilentIs
<1>3. HeadsComplete(c) => HeadsComplete(a)
  BY CompleteBefore
<1>4. HeadsComplete(c) => ~Pending(a)
  <2>1. b[h] \in Telling
    BY DEF Telling
  <2> QED
    BY <1>2, <2>1, NoneIsTold
<1>5. /\ c \in Line /\ Len(c) = m + n /\ m \in Nat /\ n \in Nat
      /\ \A i \in 1 .. n : c[m + i] = b[i]
  BY JoinIs
<1>6. DOMAIN c = 1 .. Len(c)
  BY <1>5, PlacesAre
<1>7. \A i \in 1 .. n : b[i] # "{" /\ b[i] # ";"
  BY SilentIs
<1> HIDE DEF c, m, n
<1>8. /\ m + h \in 1 .. Len(c) /\ Len(c) \in m + h .. Len(c)
      /\ \A j \in (m + h) + 1 .. Len(c) : j - m \in 1 .. n /\ m + (j - m) = j
      /\ \A j \in 1 .. n : j \in 1 .. h \/ m + j \in (m + h) + 1 .. Len(c)
  BY JoinAt, Zenon DEF m, n, c
<1>9. c[m + h] = b[h]
  BY <1>5 DEF n
<1>10. ASSUME NEW j \in (m + h) + 1 .. Len(c) PROVE c[j] # "{" /\ c[j] # ";"
  <2>1. j - m \in 1 .. n /\ m + (j - m) = j
    BY <1>8
  <2>2. c[j] = b[j - m]
    BY <1>5, <2>1
  <2> QED
    BY <1>7, <2>1, <2>2
<1>11. HeadsComplete(c) => Pending(c)
  <2> SUFFICES ASSUME HeadsComplete(c) PROVE Pending(c)
    OBVIOUS
  <2>1. c[m + h] \in HeadWords
    BY <1>9
  <2>2. \A j \in (m + h) + 1 .. Len(c) : c[j] \notin Telling
    BY <1>5, <1>8, <1>10, <2>1, NoneFollows
  <2> QED
    BY <1>6, <1>8, <2>1, <2>2 DEF Pending
<1>12. IsDeep(r, c)
  BY <1>1, <1>3, <1>4, <1>11, Zenon DEF IsDeep
<1> QED
  BY <1>12 DEF c

\* The head of a namespace at h, no brace that opens anything, and up to the
\* head nothing that tells.
NamespaceHead(text, h) ==
    /\ h \in 1 .. Len(text) /\ text[h] = "namespace"
    /\ \A j \in 1 .. Len(text) : text[j] # "{"
    /\ \A j \in 1 .. h : text[j] \notin {"}", ";"}

LEMMA SilentHead ==
  ASSUME NEW text, NEW h, NamespaceHead(text, h),
         \A j \in 1 .. Len(text) : j \in 1 .. h \/ text[j] \notin Telling
  PROVE  Silent(text)
BY DEF Silent, NamespaceHead, Telling

\* The body of a namespace begins with the first brace after its head.
LEMMA DeepNamed ==
  ASSUME NEW s, NEW r, NEW a \in Line, NEW b \in Line, IsDeep(s, a),
         NEW h, NamespaceHead(b, h), NEW token \in STRING, token = "{",
         AllOpen(s) => AllOpen(r) /\ Len(r) = Len(s) + 1
  PROVE  IsDeep(r, (a \o b) \o <<token>>)
<1> DEFINE c == a \o b
           m == Len(a)
           n == Len(b)
           l == Len(c)
<1>1. /\ c \in Line /\ l = m + n /\ m \in Nat /\ n \in Nat
      /\ \A i \in 1 .. n : c[m + i] = b[i]
  BY JoinIs
<1>2. c[m + h] = "namespace" /\ b[h] = "namespace" /\ h \in 1 .. n
  BY <1>1 DEF NamespaceHead
<1>3. \A i \in 1 .. n : b[i] # "{"
  BY DEF NamespaceHead
<1>4. /\ Depth(c \o <<token>>) = Depth(c) + 1 /\ Depth(c) \in Nat
      /\ HeadsComplete(c \o <<token>>) => HeadsComplete(c)
  BY <1>1, OneMore DEF Braced
<1>5. HeadsComplete(c) => HeadsComplete(a)
  BY CompleteBefore
<1> HIDE DEF m, n, c, l
<1>6. /\ m + h \in 1 .. l /\ l \in m + h .. l
      /\ \A j \in (m + h) + 1 .. l : j - m \in 1 .. n /\ m + (j - m) = j
      /\ \A j \in 1 .. n : j \in 1 .. h \/ m + j \in (m + h) + 1 .. l
  <2>1. h \in 1 .. Len(b)
    BY DEF NamespaceHead
  <2> QED
    BY <2>1, JoinAt, Zenon DEF l, m, n, c
<1>7. ASSUME HeadsComplete(c)
      PROVE  Silent(b) /\ ~Pending(a)
  <2>1. ASSUME NEW j \in (m + h) + 1 .. l
        PROVE  c[j] # "{" /\ (c[j] = ";" => c[m + h] = "namespace")
    <3>1. j - m \in 1 .. n /\ m + (j - m) = j
      BY <1>6
    <3>2. c[j] = b[j - m]
      BY <1>1, <3>1
    <3> QED
      BY <1>2, <1>3, <3>1, <3>2
  <2>2. c[m + h] \in HeadWords
    BY <1>2 DEF HeadWords
  <2>3. \A j \in (m + h) + 1 .. l : c[j] \notin Telling
    BY <1>1, <1>6, <1>7, <2>1, <2>2, NoneFollows DEF l
  <2>4. \A j \in 1 .. n : j \in 1 .. h \/ b[j] \notin Telling
    BY <1>1, <1>6, <2>3
  <2>5. Silent(b)
    BY <2>4, SilentHead DEF n
  <2>6. b[h] \in Telling /\ h \in 1 .. Len(b)
    BY <1>2 DEF n, Telling, HeadWords
  <2>7. ~Pending(a)
    BY <1>7, <2>5, <2>6, SilentIs, NoneIsTold DEF c
  <2> QED
    BY <2>5, <2>7
<1>8. Silent(b) => Depth(c) = Depth(a)
  BY SilentIs, DepthQuiet DEF c
<1>9. IsDeep(r, c \o <<token>>)
  BY <1>4, <1>5, <1>7, <1>8, Zenon DEF IsDeep
<1> QED
  BY <1>9 DEF c

-----------------------------------------------------------------------------
(* What becomes of the stack                                                 *)

Keeps(s, r) ==
    /\ AllOpen(s) => AllOpen(r) /\ Len(r) = Len(s)
    /\ Heading(s) => Heading(r) /\ Len(r) = Len(s)

\* r is s with another block on top.
Topped(r, s, block, S) ==
    /\ r \in Seq(S) /\ Len(r) = Len(s) /\ r[Len(s)] = block
    /\ \A i \in 1 .. Len(s) - 1 : r[i] = s[i]

LEMMA TopPut ==
  ASSUME NEW S, NEW s \in Seq(S), s # <<>>, NEW block \in S
  PROVE  Topped(SetTop(s, block), s, block, S)
BY SetTopIs DEF Topped

LEMMA KeepsTop ==
  ASSUME NEW S, NEW s \in Seq(S), s # <<>>, NEW block \in S, block.open = Last(s).open
  PROVE  Keeps(s, SetTop(s, block))
<1> DEFINE r == SetTop(s, block)
           n == Len(s)
<1>0. Topped(r, s, block, S)
  BY TopPut
<1> HIDE DEF r
<1>1. r \in Seq(S) /\ Len(r) = n /\ r[n] = block /\ \A i \in 1 .. n - 1 : r[i] = s[i]
  BY <1>0 DEF Topped
<1>2. n \in Nat \ {0} /\ r # <<>>
  BY <1>1, EmptySeq
<1>3. r[n].open = s[n].open
  BY <1>1 DEF Last
<1> HIDE DEF r, n
<1>4. \A i \in 1 .. n : r[i].open = s[i].open
  <2>1. \A i \in 1 .. n : i = n \/ i \in 1 .. n - 1
    BY <1>2
  <2> QED
    BY <1>1, <1>3, <2>1
<1>5. AllOpen(s) => AllOpen(r)
  BY <1>1, <1>4, Zenon DEF AllOpen, n
<1>6. Heading(s) => Heading(r)
  BY <1>1, <1>2, <1>3, Zenon DEF Heading, n
<1> QED
  BY <1>1, <1>5, <1>6 DEF Keeps, r, n

LEMMA CountKeeps ==
  ASSUME NEW s \in Seq(BlockRecords), NEW text \in Line
  PROVE  Keeps(s, CountParentheses(s, text))
<1>1. CASE s = <<>>
  BY <1>1, Zenon DEF CountParentheses, Keeps
<1>2. CASE s # <<>>
  <2>1. Last(s) \in BlockRecords
    BY <1>2, LastIs
  <2>2. \A parens, asm :
          [Last(s) EXCEPT !.parens = parens, !.asm = asm].open = Last(s).open
    BY <2>1 DEF BlockRecords
  <2>3. PICK parens, asm :
          CountParentheses(s, text) = SetTop(s, [Last(s) EXCEPT !.parens = parens, !.asm = asm])
    BY <1>2, Zenon DEF CountParentheses
  <2> DEFINE block == [Last(s) EXCEPT !.parens = parens, !.asm = asm]
             S == BlockRecords \cup {block}
  <2>4. s \in Seq(S) /\ block \in S
    OBVIOUS
  <2>5. block.open = Last(s).open /\ CountParentheses(s, text) = SetTop(s, block)
    BY <2>2, <2>3
  <2> HIDE DEF block, S
  <2> QED
    BY <1>2, <2>4, <2>5, KeepsTop
<1> QED
  BY <1>1, <1>2

LEMMA AccessKeeps ==
  ASSUME NEW s \in Seq(BlockRecords), NEW rest
  PROVE  Keeps(s, WithAccess(s, rest))
<1>1. CASE AccessLabel(s, rest) = 0
  BY <1>1, Zenon DEF WithAccess, Keeps
<1>2. CASE AccessLabel(s, rest) # 0
  <2>0. s # <<>>
    BY <1>2 DEF AccessLabel, InClassDeclaration
  <2>1. Last(s) \in BlockRecords
    BY <2>0, LastIs
  <2> DEFINE access == rest[AccessLabel(s, rest)]
             block == [Last(s) EXCEPT !.access = access]
             S == BlockRecords \cup {block}
  <2>2. s \in Seq(S) /\ block \in S
    OBVIOUS
  <2>3. WithAccess(s, rest) = SetTop(s, block)
    BY <1>2 DEF WithAccess
  <2> HIDE DEF access, S
  <2>4. block.open = Last(s).open
    BY <2>1 DEF BlockRecords
  <2> HIDE DEF block
  <2> QED
    BY <2>0, <2>2, <2>3, <2>4, KeepsTop
<1> QED
  BY <1>1, <1>2

LEMMA AppendIs ==
  ASSUME NEW S, NEW s \in Seq(S), NEW block \in S
  PROVE  /\ Append(s, block) \in Seq(S) /\ Len(Append(s, block)) = Len(s) + 1
         /\ Append(s, block)[Len(s) + 1] = block
         /\ \A i \in 1 .. Len(s) : Append(s, block)[i] = s[i]
OBVIOUS

\* Another block on top.
LEMMA AppendOpens ==
  ASSUME NEW S, NEW s \in Seq(S), NEW block \in S, AllOpen(s)
  PROVE  /\ Len(Append(s, block)) = Len(s) + 1
         /\ block.open => AllOpen(Append(s, block))
         /\ ~block.open => Heading(Append(s, block))
<1> DEFINE r == Append(s, block)
           n == Len(s)
<1>1. /\ n \in Nat /\ r \in Seq(S) /\ Len(r) = n + 1 /\ r[n + 1] = block
      /\ \A i \in 1 .. n : r[i] = s[i]
  BY AppendIs
<1>2. r # <<>>
  BY <1>1, EmptySeq
<1> HIDE DEF r, n
<1>3. /\ (n + 1) - 1 = n
      /\ \A i \in 1 .. n + 1 : i = n + 1 \/ i \in 1 .. n
  BY <1>1
<1>4. \A i \in 1 .. n : r[i].open
  BY <1>1, Zenon DEF AllOpen, n
<1>5. block.open => AllOpen(r)
  BY <1>1, <1>3, <1>4, Zenon DEF AllOpen
<1>6. ~block.open => Heading(r)
  BY <1>1, <1>2, <1>3, <1>4, Zenon DEF Heading
<1> QED
  BY <1>1, <1>5, <1>6 DEF r, n

\* The block on top is gone.
LEMMA FrontOpens ==
  ASSUME NEW S, NEW s \in Seq(S), s # <<>>, AllOpen(s) \/ Heading(s)
  PROVE  AllOpen(Front(s)) /\ Len(Front(s)) = Len(s) - 1
<1> DEFINE r == Front(s)
           n == Len(s)
<1>1. /\ n \in Nat \ {0} /\ r \in Seq(S) /\ Len(r) = n - 1
      /\ \A i \in 1 .. n - 1 : r[i] = s[i]
  BY FrontIs, EmptySeq
<1> HIDE DEF r, n
<1>2. \A i \in 1 .. n - 1 : i \in 1 .. n
  BY <1>1
<1>3. \A i \in 1 .. n - 1 : s[i].open
  BY <1>2, Zenon DEF AllOpen, Heading, n
<1>4. AllOpen(r)
  BY <1>1, <1>3, Zenon DEF AllOpen
<1> QED
  BY <1>1, <1>4 DEF r, n

\* The block on top gets its brace.
LEMMA TopOpens ==
  ASSUME NEW S, NEW s \in Seq(S), Heading(s), NEW block \in S, block.open
  PROVE  AllOpen(SetTop(s, block)) /\ Len(SetTop(s, block)) = Len(s)
<1> DEFINE r == SetTop(s, block)
           n == Len(s)
<1>0. s # <<>>
  BY DEF Heading
<1>1. /\ n \in Nat \ {0} /\ Len(r) = n /\ r[n] = block
      /\ \A i \in 1 .. n - 1 : r[i] = s[i]
  BY <1>0, SetTopIs, EmptySeq
<1> HIDE DEF r, n
<1>2. \A i \in 1 .. n : i = n \/ i \in 1 .. n - 1
  BY <1>1
<1>3. \A i \in 1 .. n - 1 : s[i].open
  BY Zenon DEF Heading, n
<1>4. AllOpen(r)
  BY <1>1, <1>2, <1>3, Zenon DEF AllOpen
<1> QED
  BY <1>1, <1>4 DEF r, n

LEMMA OpenBrace ==
  ASSUME NEW S, NEW s \in Seq(S)
  PROVE  /\ AllOpen(s) => SeenOpenBrace(s)
         /\ Heading(s) => ~SeenOpenBrace(s)
<1>1. s # <<>> => Len(s) \in 1 .. Len(s)
  BY EmptySeq
<1> QED
  BY <1>1, Zenon DEF AllOpen, Heading, SeenOpenBrace, Last

LEMMA DeepKeeps ==
  ASSUME NEW s, NEW r, NEW text, IsDeep(s, text), Keeps(s, r)
  PROVE  IsDeep(r, text)
BY Zenon DEF IsDeep, Keeps

-----------------------------------------------------------------------------
(* What one piece of a line does.                                            *)

\* What was taken from rest makes the stack r, and left is left.
Takes(done, rest, r, left) ==
    \E taken \in Line : rest = taken \o left /\ IsDeep(r, done \o taken)

LEMMA NextIs ==
  ASSUME NEW rest \in Line, NextConsumed(rest) # {}
  PROVE  /\ FirstConsumed(rest) \in 1 .. Len(rest)
         /\ rest[FirstConsumed(rest)] \in Consumed
         /\ \A i \in 1 .. FirstConsumed(rest) - 1 : rest[i] \notin Consumed
<1> DEFINE n == FirstConsumed(rest)
<1>1. Len(rest) \in Nat /\ DOMAIN rest = 1 .. Len(rest)
  BY LineLen, PlacesAre
<1>2. NextConsumed(rest) \in SUBSET Nat
  BY <1>1 DEF NextConsumed
<1>3. n \in NextConsumed(rest) /\ \A i \in NextConsumed(rest) : n <= i
  BY <1>2, MinOf DEF FirstConsumed
<1> HIDE DEF n
<1>4. n \in 1 .. Len(rest) /\ rest[n] \in Consumed
  BY <1>1, <1>3 DEF NextConsumed
<1>5. ASSUME NEW i \in 1 .. n - 1 PROVE rest[i] \notin Consumed
  <2>1. i \in 1 .. Len(rest) /\ ~(n <= i)
    BY <1>1, <1>4
  <2> QED
    BY <1>1, <1>3, <2>1 DEF NextConsumed
<1> QED
  BY <1>4, <1>5 DEF n

LEMMA SilentBefore ==
  ASSUME NEW rest \in Line, NEW n \in 0 .. Len(rest),
         \A i \in 1 .. n : rest[i] \notin {"{", "}", ";"}
  PROVE  Silent(SubSeq(rest, 1, n))
<1>1. /\ Len(SubSeq(rest, 1, n)) = n
      /\ \A i \in 1 .. n : SubSeq(rest, 1, n)[i] = rest[i]
  BY SplitAt, Zenon
<1> QED
  BY <1>1, Zenon DEF Silent

LEMMA NotConsumed ==
  ASSUME NEW token, token \notin Consumed
  PROVE  token \notin {"{", "}", ";"}
BY DEF Consumed

\* The end of a line tells nothing of blocks.
LEMMA EndDeep ==
  ASSUME NEW s, NEW done \in Line, NEW rest \in Line, IsDeep(s, done),
         NextConsumed(rest) = {}
  PROVE  IsDeep(s, done \o rest)
<1>1. \A i \in 1 .. Len(rest) : rest[i] \notin Consumed
  BY PlacesAre DEF NextConsumed
<1>2. Silent(rest)
  BY <1>1, NotConsumed, Zenon DEF Silent
<1> QED
  BY <1>2, DeepQuiet, Zenon

LEMMA JoinThree ==
  ASSUME NEW a \in Line, NEW b \in Line, NEW c \in Line
  PROVE  (a \o b) \o c = a \o (b \o c) /\ a \o b \in Line
BY DEF Line

LEMMA NoBlocks ==
  ASSUME NEW S, NEW s \in Seq(S)
  PROVE  s # <<>> => Len(s) # 0
BY EmptySeq

LEMMA NoLength == ASSUME NEW s, s = <<>> PROVE Len(s) = 0
BY EmptySeq

\* The brace, semicolon or parenthesis itself.
LEMMA TokenDeep ==
  ASSUME NEW s \in Seq(BlockRecords), NEW done \in Line, NEW rest \in Line, NEW n \in Nat,
         NextConsumed(rest) # {}, IsDeep(s, done),
         NEW token \in STRING, token = rest[FirstConsumed(rest)]
  PROVE  IsDeep(AfterBrace(s, rest, n).stack, done \o <<token>>)
<1> DEFINE r == AfterBrace(s, rest, n).stack
           opened == [Last(s) EXCEPT !.open = TRUE]
           asm == IF BeginsAsm(rest) THEN "block" ELSE "no"
           new == [BlockInfo(n) EXCEPT !.asm = asm]
<1>1. r = CASE token = "{" /\ ~SeenOpenBrace(s) -> SetTop(s, opened)
            [] token = "{" /\ SeenOpenBrace(s) ->
                 IF IsPrefix(<<"extern">> \o EmptyString \o <<"{">>, rest)
                   THEN Append(s, ExternCInfo(n)) ELSE Append(s, new)
            [] token \in {";", ")"} /\ ~SeenOpenBrace(s) -> Front(s)
            [] token = "}" /\ s # <<>> -> Front(s)
            [] OTHER -> s
  BY DEF AfterBrace
<1>2. token \in Consumed
  BY NextIs
<1>3. /\ ExternCInfo(n).open /\ new.open
      /\ Heading(s) => opened.open /\ s # <<>>
  <2>1. new.open /\ ExternCInfo(n).open
    BY DEF BlockInfo, ExternCInfo, Block
  <2>2. ASSUME Heading(s) PROVE opened.open /\ s # <<>>
    <3>1. s # <<>>
      BY <2>2 DEF Heading
    <3>2. Last(s) \in BlockRecords
      BY <3>1, LastIs
    <3> QED
      BY <3>1, <3>2 DEF BlockRecords
  <2> QED
    BY <2>1, <2>2
<1> HIDE DEF r, opened, new, asm
<1>4. /\ AllOpen(s) => SeenOpenBrace(s)
      /\ Heading(s) => ~SeenOpenBrace(s)
  BY OpenBrace
<1>5. CASE token = "{"
  <2>1. ASSUME AllOpen(s) PROVE AllOpen(r) /\ Len(r) = Len(s) + 1
    <3>1. r = Append(s, ExternCInfo(n)) \/ r = Append(s, new)
      BY <1>1, <1>4, <1>5, <2>1
    <3> DEFINE S == BlockRecords \cup {ExternCInfo(n), new}
    <3>2. s \in Seq(S) /\ ExternCInfo(n) \in S /\ new \in S
      OBVIOUS
    <3>3. PICK block \in S : block.open /\ r = Append(s, block)
      BY <1>3, <3>1, <3>2
    <3> HIDE DEF S
    <3>4. s \in Seq(S)
      BY <3>2
    <3> QED
      BY <2>1, <3>3, <3>4, AppendOpens
  <2>2. ASSUME Heading(s) PROVE AllOpen(r) /\ Len(r) = Len(s)
    <3>1. r = SetTop(s, opened)
      BY <1>1, <1>4, <1>5, <2>2
    <3> DEFINE S == BlockRecords \cup {opened}
    <3>2. s \in Seq(S) /\ opened \in S
      OBVIOUS
    <3> HIDE DEF S
    <3> QED
      BY <1>3, <2>2, <3>1, <3>2, TopOpens
  <2> QED
    BY <1>5, <2>1, <2>2, DeepOpened DEF r
<1>6. CASE token = "}"
  <2>1. ASSUME AllOpen(s)
        PROVE  AllOpen(r) /\ Len(r) = IF Len(s) = 0 THEN 0 ELSE Len(s) - 1
    <3>1. CASE s = <<>>
      <4>1. r = s
        BY <1>1, <1>6, <3>1
      <4> QED
        BY <2>1, <3>1, <4>1, NoLength
    <3>2. CASE s # <<>>
      <4>1. r = Front(s)
        BY <1>1, <1>6, <3>2
      <4>2. AllOpen(Front(s)) /\ Len(Front(s)) = Len(s) - 1
        BY <2>1, <3>2, FrontOpens
      <4>3. Len(s) # 0
        BY <3>2, NoBlocks
      <4> QED
        BY <4>1, <4>2, <4>3
    <3> QED
      BY <3>1, <3>2
  <2> QED
    BY <1>6, <2>1, DeepClosed DEF r
<1>7. CASE token # "{" /\ token # "}"
  <2>0. token \in {";", ")"}
    BY <1>2, <1>7 DEF Consumed
  <2>1. ASSUME AllOpen(s) PROVE AllOpen(r) /\ Len(r) = Len(s)
    <3>1. r = s
      BY <1>1, <1>4, <1>7, <2>1
    <3> QED
      BY <2>1, <3>1
  <2>2. ASSUME Heading(s) PROVE AllOpen(r) /\ Len(r) = Len(s) - 1
    <3>1. r = Front(s)
      BY <1>1, <1>4, <1>7, <2>0, <2>2
    <3> QED
      BY <1>3, <2>2, <3>1, FrontOpens
  <2> QED
    BY <1>7, <2>1, <2>2, DeepPassed DEF r
<1> QED
  BY <1>5, <1>6, <1>7 DEF r

\* What stands before it tells nothing.
LEMMA BraceDeep ==
  ASSUME NEW s \in Seq(BlockRecords), NEW done \in Line, NEW rest \in Line, NEW n \in Nat,
         NextConsumed(rest) # {}, IsDeep(s, done)
  PROVE  Takes(done, rest, AfterBrace(s, rest, n).stack, AfterBrace(s, rest, n).rest)
<1> DEFINE i == FirstConsumed(rest)
           before == SubSeq(rest, 1, i - 1)
           taken == SubSeq(rest, 1, i)
           r == AfterBrace(s, rest, n).stack
<1>1. i \in 1 .. Len(rest) /\ \A j \in 1 .. i - 1 : rest[j] \notin Consumed
  BY NextIs
<1>2. AfterBrace(s, rest, n).rest = After(rest, i)
  BY DEF AfterBrace
<1>3. PICK token : token = rest[i]
  OBVIOUS
<1>4. token = rest[FirstConsumed(rest)]
  BY <1>3
<1> HIDE DEF i, r
<1>5. /\ i - 1 \in 0 .. Len(rest) /\ i \in 0 .. Len(rest) /\ token \in STRING
      /\ taken = before \o <<token>>
  BY <1>1, <1>3, SplitBefore
<1>6. before \in Line /\ taken \in Line /\ rest = taken \o After(rest, i)
  BY <1>5, SplitAt
<1>7. Silent(before)
  <2>1. \A j \in 1 .. i - 1 : rest[j] \notin {"{", "}", ";"}
    BY <1>1, NotConsumed, Zenon
  <2> QED
    BY <1>5, <2>1, SilentBefore
<1>8. IsDeep(s, done \o before)
  BY <1>6, <1>7, DeepQuiet
<1>9. done \o before \in Line /\ <<token>> \in Line
  BY <1>5, <1>6, Joined, One DEF Line
<1>10. IsDeep(r, (done \o before) \o <<token>>)
  BY <1>4, <1>5, <1>8, <1>9, TokenDeep DEF r
<1> HIDE DEF before, taken
<1>11. (done \o before) \o <<token>> = done \o taken
  <2> DEFINE one == <<token>>
  <2>1. taken = before \o one /\ one \in Line /\ before \in Line
    BY <1>5, <1>6, <1>9
  <2> HIDE DEF one
  <2>2. (done \o before) \o one = done \o (before \o one)
    BY <2>1, JoinThree
  <2>3. (done \o before) \o one = done \o taken
    BY <2>1, <2>2
  <2> QED
    BY <2>3 DEF one
<1> QED
  BY <1>2, <1>6, <1>10, <1>11 DEF r, Takes

-----------------------------------------------------------------------------
(* Heads at the beginning of what is left of a line                          *)

QuietToken(token) == token \notin {"{", "}", ";"}

LEMMA QuietTokens ==
  /\ QuietToken(Tab) /\ QuietToken("template<>") /\ QuietToken("namespace")
  /\ \A token \in {"class", "struct"} : QuietToken(token) /\ token \in HeadWords
  /\ \A token \in Words : QuietToken(token)
  /\ \A token \in Macros : QuietToken(token)
BY DEF QuietToken, Tab, Words, Macros, HeadWords

LEMMA QuietIs ==
  ASSUME NEW rest \in Line, NEW n \in 0 .. Len(rest), \A i \in 1 .. n : QuietToken(rest[i])
  PROVE  Silent(SubSeq(rest, 1, n))
BY SilentBefore DEF QuietToken

LEMMA ClassHeadSilent ==
  ASSUME NEW rest \in Line, NEW end, end = ClassHeadEnd(rest), end # 0
  PROVE  /\ end \in 1 .. Len(rest)
         /\ Silent(SubSeq(rest, 1, end))
         /\ \E h \in 1 .. end : rest[h] \in HeadWords
<1> DEFINE n == IndentLevel(rest)
           key == n + (IF First(rest) = "template<>" THEN 2 ELSE 1)
           ends == {i \in key + 1 .. Len(rest) :
                      /\ rest[i] \in Words
                      /\ \A j \in key + 1 .. i - 1 : rest[j] \in Macros}
<1>1. end = IF key <= Len(rest) /\ rest[key] \in {"class", "struct"} /\ ends # {}
              THEN Max(ends) ELSE 0
  BY DEF ClassHeadEnd
<1>2. Len(rest) \in Nat /\ n \in Nat /\ \A i \in 1 .. n : rest[i] = Tab
  BY LineLen, IndentLevelIs, TabsAre
<1>3. \A i \in n + 1 .. key - 1 : QuietToken(rest[i])
  <2>1. CASE First(rest) = "template<>"
    <3>1. First(rest) = rest[n + 1]
      BY <2>1, FirstIs
    <3>2. QuietToken(rest[n + 1])
      BY <2>1, <3>1, QuietTokens
    <3>3. \A i \in n + 1 .. key - 1 : i = n + 1
      BY <1>2, <2>1
    <3> QED
      BY <3>2, <3>3
  <2>2. CASE First(rest) # "template<>"
    BY <1>2, <2>2
  <2> QED
    BY <2>1, <2>2
<1>4. key \in {n + 1, n + 2}
  OBVIOUS
<1> HIDE DEF key, n
<1>5. key \in Nat \ {0} /\ n < key
  BY <1>2, <1>4
<1>6. ends \in SUBSET Nat /\ \A i \in ends : i <= Len(rest)
  BY <1>2, <1>5
<1>7. rest[key] \in {"class", "struct"} /\ ends # {} /\ end = Max(ends)
  BY <1>1
<1>8. end \in ends
  <2> HIDE DEF ends
  <2> QED
    BY <1>2, <1>6, <1>7, MaxOf
<1>9. /\ end \in key + 1 .. Len(rest) /\ rest[end] \in Words
      /\ \A j \in key + 1 .. end - 1 : rest[j] \in Macros
  BY <1>8
<1>10. end \in 1 .. Len(rest) /\ end \in 0 .. Len(rest) /\ key \in 1 .. end
  BY <1>2, <1>5, <1>9
<1>11. rest[key] \in HeadWords /\ QuietToken(rest[key])
  BY <1>7, QuietTokens
<1>12. ASSUME NEW i \in 1 .. end PROVE QuietToken(rest[i])
  <2>1. \/ i \in 1 .. n \/ i \in n + 1 .. key - 1 \/ i = key \/ i \in key + 1 .. end - 1
        \/ i = end
    BY <1>2, <1>5, <1>9
  <2>2. CASE i \in 1 .. n
    BY <1>2, <2>2, QuietTokens, Zenon
  <2>3. CASE i \in key + 1 .. end - 1
    BY <1>9, <2>3, QuietTokens, Zenon
  <2>4. CASE i = end
    BY <1>9, <2>4, QuietTokens, Zenon
  <2> QED
    BY <1>3, <1>11, <2>1, <2>2, <2>3, <2>4, Zenon
<1> QED
  BY <1>10, <1>11, <1>12, QuietIs

\* The head of a class, and what an access label changes in the block on top.
LEMMA ClassDeep ==
  ASSUME NEW s \in Seq(BlockRecords), NEW done \in Line, NEW rest \in Line, NEW n \in Nat,
         NEW indent \in Nat, NEW is \in BOOLEAN, is => ClassHeadEnd(rest) # 0,
         IsDeep(s, done)
  PROVE  Takes(done, rest, AfterClassHead(s, rest, n, indent, is).stack,
               AfterClassHead(s, rest, n, indent, is).rest)
<1> DEFINE end == ClassHeadEnd(rest)
           info == ClassInfo(IF "class" \in Range(Before(rest, end)) THEN "class" ELSE "struct",
                             rest[end], n, indent)
           with == IF is THEN Append(s, info) ELSE s
           body == IF is THEN After(rest, end) ELSE rest
           taken == IF is THEN SubSeq(rest, 1, end) ELSE <<>>
           r == WithAccess(with, body)
<1>1. /\ AfterClassHead(s, rest, n, indent, is).rest = body
      /\ AfterClassHead(s, rest, n, indent, is).stack = r
  BY DEF AfterClassHead
<1>2. with \in Seq(BlockRecords)
  <2>1. ASSUME is PROVE info \in BlockRecords
    <3>1. rest[end] \in Words
      BY <2>1, ClassNameIs
    <3>2. info \in BlocksIn(AsmKinds)
      BY <3>1, ClassInfoIs DEF AsmKinds
    <3> QED
      BY <3>2, AllBlocks
  <2> HIDE DEF info
  <2> QED
    BY <2>1, AppendProperties
<1>3. ~info.open
  BY DEF ClassInfo, Block
<1> HIDE DEF info
<1>4. CASE is
  <2>1. PICK e : e = end
    OBVIOUS
  <2>2. /\ e \in 1 .. Len(rest) /\ Silent(SubSeq(rest, 1, e))
        /\ \E h \in 1 .. e : rest[h] \in HeadWords
    BY <1>4, <2>1, ClassHeadSilent
  <2>3. e \in 0 .. Len(rest)
    BY <2>2, LineLen
  <2>4. /\ taken = SubSeq(rest, 1, e) /\ body = After(rest, e) /\ with = Append(s, info)
    BY <1>4, <2>1
  <2> HIDE DEF taken, body, with, end
  <2>5. /\ taken \in Line /\ Len(taken) = e /\ \A i \in 1 .. e : taken[i] = rest[i]
        /\ rest = taken \o body
    BY <2>3, <2>4, SplitAt
  <2>6. PICK h \in 1 .. Len(taken) : taken[h] \in HeadWords
    BY <2>2, <2>5
  <2>7. AllOpen(s) => Heading(with) /\ Len(with) = Len(s) + 1
    <3> DEFINE S == BlockRecords \cup {info}
    <3>1. s \in Seq(S) /\ info \in S
      OBVIOUS
    <3> HIDE DEF S
    <3> QED
      BY <1>3, <2>4, <3>1, AppendOpens
  <2>8. IsDeep(with, done \o taken)
    BY <2>2, <2>4, <2>5, <2>6, <2>7, DeepHead
  <2>9. IsDeep(r, done \o taken)
    BY <1>2, <2>8, AccessKeeps, DeepKeeps
  <2> QED
    BY <1>1, <2>5, <2>9 DEF Takes
<1>5. CASE ~is
  <2>1. taken = <<>> /\ body = rest /\ with = s
    BY <1>5
  <2> HIDE DEF taken, body, with
  <2>2. taken \in Line /\ rest = taken \o body /\ done \o taken = done
    <3>1. <<>> \in Line /\ rest = <<>> \o rest /\ done \o <<>> = done
      BY DEF Line
    <3> QED
      BY <2>1, <3>1
  <2>3. IsDeep(r, done \o taken)
    BY <2>1, <2>2, AccessKeeps, DeepKeeps
  <2> QED
    BY <1>1, <2>2, <2>3 DEF Takes
<1> QED
  BY <1>4, <1>5

LEMMA AfterAfter ==
  ASSUME NEW text \in Line, NEW b \in 0 .. Len(text), NEW m \in 0 .. Len(text) - b
  PROVE  /\ b + m \in 0 .. Len(text)
         /\ After(After(text, b), m) = After(text, b + m)
         /\ Len(After(text, b)) = Len(text) - b
         /\ After(text, b) \in Line
         /\ \A i \in 1 .. Len(text) - b : After(text, b)[i] = text[b + i]
<1> DEFINE rest == After(text, b)
           left == After(rest, m)
           same == After(text, b + m)
           n == Len(text)
<1>1. n \in Nat /\ b \in 0 .. n /\ b + m \in 0 .. n
  BY LineLen
<1>2. rest \in Line /\ Len(rest) = n - b /\ \A i \in 1 .. n - b : rest[i] = text[b + i]
  BY DEF Line, After
<1>3. /\ same \in Line /\ Len(same) = n - (b + m)
      /\ \A i \in 1 .. n - (b + m) : same[i] = text[(b + m) + i]
  BY <1>1 DEF Line, After
<1> HIDE DEF rest, same, n
<1>4. m \in 0 .. Len(rest)
  BY <1>1, <1>2 DEF n
<1>5. /\ left \in Line /\ Len(left) = Len(rest) - m
      /\ \A i \in 1 .. Len(rest) - m : left[i] = rest[m + i]
  BY <1>2, <1>4 DEF Line, After
<1> HIDE DEF left
<1>6. Len(left) = Len(same) /\ Len(left) = n - (b + m)
  BY <1>1, <1>2, <1>3, <1>4, <1>5
<1>7. ASSUME NEW i \in 1 .. n - (b + m) PROVE left[i] = same[i]
  <2>1. /\ i \in 1 .. Len(rest) - m /\ m + i \in 1 .. n - b /\ b + (m + i) = (b + m) + i
    BY <1>1, <1>2, <1>4
  <2> QED
    BY <1>2, <1>3, <1>5, <2>1
<1>8. left = same
  BY <1>3, <1>5, <1>6, <1>7, SeqEqual DEF Line
<1> QED
  BY <1>1, <1>2, <1>8 DEF left, same, rest, n

LEMMA TailAfter ==
  ASSUME NEW text \in Line, NEW n \in 0 .. Len(text), After(text, n) # <<>>
  PROVE  Tail(After(text, n)) = After(text, n + 1)
<1>1. /\ Len(text) \in Nat /\ Len(After(text, n)) = Len(text) - n
      /\ After(text, n) \in Line
  BY LineLen, AfterIs
<1>2. n + 1 \in 1 .. Len(text)
  BY HeadAfter
<1>3. 1 \in 0 .. Len(text) - n
  BY <1>1, <1>2
<1>4. After(After(text, n), 1) = After(text, n + 1)
  BY <1>3, AfterAfter
<1>5. Tail(After(text, n)) = After(After(text, n), 1)
  BY DEF After
<1> QED
  BY <1>4, <1>5

LEMMA FirstPosition ==
  ASSUME NEW text \in Line, NEW token, Positions(text, token) # {},
         NEW m, m = Min(Positions(text, token))
  PROVE  /\ m \in 1 .. Len(text) /\ text[m] = token
         /\ \A i \in 1 .. m - 1 : i \in 1 .. Len(text) /\ text[i] # token
<1> DEFINE P == Positions(text, token)
           n == Len(text)
<1>1. n \in Nat /\ P = {i \in 1 .. n : text[i] = token}
  BY LineLen, PlacesAre DEF Positions
<1>2. P \in SUBSET Nat /\ P # {}
  BY <1>1
<1> HIDE DEF P, n
<1>3. m \in P /\ \A i \in P : m <= i
  BY <1>2, MinOf DEF P
<1>4. m \in 1 .. n /\ text[m] = token
  BY <1>1, <1>3
<1>5. ASSUME NEW i \in 1 .. m - 1 PROVE i \in 1 .. n /\ text[i] # token
  <2>1. i \in 1 .. n /\ ~(m <= i)
    BY <1>1, <1>4
  <2> QED
    BY <1>1, <1>3, <2>1
<1> QED
  BY <1>4, <1>5 DEF n

\* The head of a namespace at k, its name, and its body.
NamespaceAt(s, rest, n, k, b, name) ==
    LET body == After(rest, b)
        braces == Positions(body, "{")
    IN /\ b \in {k, k + 1} /\ rest[k] = "namespace"
       /\ \A i \in 1 .. b : QuietToken(rest[i])
       /\ AfterNamespace(s, rest, n).stack = Append(s, NamespaceInfo(name, n, braces # {}))
       /\ AfterNamespace(s, rest, n).rest =
            IF braces = {} THEN body ELSE After(body, Min(braces))

LEMMA NamespaceParts ==
  ASSUME NEW s, NEW rest \in Line, NEW n, IsNamespace(rest)
  PROVE  \E k \in 1 .. Len(rest), b \in 0 .. Len(rest) : \E name :
           NamespaceAt(s, rest, n, k, b, name)
<1> DEFINE m == IndentLevel(rest)
           k == m + 1
           head == Tail(Strip(rest))
           named == head # <<>> /\ Head(head) \in Words
           body == IF named THEN Tail(head) ELSE head
           name == IF named THEN Head(head) ELSE ""
           b == IF named THEN k + 1 ELSE k
           braces == Positions(body, "{")
<1>1. First(rest) = "namespace"
  BY DEF IsNamespace
<1>2. k \in 1 .. Len(rest) /\ rest[k] = "namespace" /\ Strip(rest) # <<>>
  <2>1. First(rest) # ""
    BY <1>1
  <2> QED
    BY <1>1, <2>1, FirstIs, Zenon
<1>3. m \in 0 .. Len(rest) /\ Len(rest) \in Nat /\ \A i \in 1 .. m : rest[i] = Tab
  BY IndentLevelIs, LineLen, TabsAre
<1>4. head = After(rest, k)
  BY <1>2, <1>3, TailAfter DEF Strip
<1>5. /\ AfterNamespace(s, rest, n).stack = Append(s, NamespaceInfo(name, n, braces # {}))
      /\ AfterNamespace(s, rest, n).rest = IF braces = {} THEN body ELSE After(body, Min(braces))
  BY DEF AfterNamespace
<1>6. k \in 0 .. Len(rest)
  BY <1>2, <1>3
<1> HIDE DEF head, k
<1>7. body = After(rest, b) /\ b \in 0 .. Len(rest) /\ (named => rest[k + 1] \in Words)
  <2>1. CASE named
    <3>1. head # <<>> /\ Head(head) \in Words
      BY <2>1
    <3>2. Tail(head) = After(rest, k + 1) /\ k + 1 \in 1 .. Len(rest) /\ Head(head) = rest[k + 1]
      BY <1>4, <1>6, <3>1, TailAfter, HeadAfter
    <3>3. k + 1 \in 0 .. Len(rest)
      BY <1>3, <3>2
    <3>4. body = Tail(head) /\ b = k + 1
      BY <2>1
    <3> HIDE DEF body, b
    <3> QED
      BY <3>1, <3>2, <3>3, <3>4
  <2>2. CASE ~named
    <3>1. body = head /\ b = k
      BY <2>2
    <3> HIDE DEF body, b, named
    <3> QED
      BY <1>4, <1>6, <2>2, <3>1
  <2> QED
    BY <2>1, <2>2
<1>8. b \in {k, k + 1}
  OBVIOUS
<1>9. QuietToken(rest[k])
  BY <1>2, QuietTokens
<1>10. ASSUME NEW i \in 1 .. b PROVE QuietToken(rest[i])
  <2>1. i \in 1 .. m \/ i = k \/ (i = k + 1 /\ named)
    <3>1. b = k \/ (b = k + 1 /\ named)
      OBVIOUS
    <3>2. i \in 1 .. b
      OBVIOUS
    <3> HIDE DEF b, named
    <3>3. i \in 1 .. m \/ i = k \/ (i = k + 1 /\ b = k + 1)
      BY <1>3, <3>1, <3>2 DEF k
    <3> QED
      BY <1>3, <3>1, <3>3 DEF k
  <2>2. CASE i \in 1 .. m
    BY <1>3, <2>2, QuietTokens, Zenon
  <2>3. CASE i = k + 1 /\ named
    BY <1>7, <2>3, QuietTokens, Zenon
  <2> QED
    BY <1>9, <2>1, <2>2, <2>3, Zenon
<1> HIDE DEF body, name, b, named
<1> QED
  BY <1>2, <1>5, <1>7, <1>8, <1>10, Zenon DEF NamespaceAt

LEMMA NamespaceOpens ==
  ASSUME NEW s \in Seq(BlockRecords), NEW name, NEW n, NEW open \in BOOLEAN, AllOpen(s),
         NEW r, r = Append(s, NamespaceInfo(name, n, open))
  PROVE  /\ Len(r) = Len(s) + 1
         /\ open => AllOpen(r)
         /\ ~open => Heading(r)
<1> DEFINE info == NamespaceInfo(name, n, open)
           S == BlockRecords \cup {info}
<1>1. info.open = open
  BY DEF NamespaceInfo, Block
<1>2. s \in Seq(S) /\ info \in S
  OBVIOUS
<1>3. r = Append(s, info)
  OBVIOUS
<1> HIDE DEF info, S
<1> QED
  BY <1>1, <1>2, <1>3, AppendOpens

\* A namespace without its brace on this line, or with it.
LEMMA NamespaceDeep ==
  ASSUME NEW s \in Seq(BlockRecords), NEW done \in Line, NEW rest \in Line, NEW n,
         IsNamespace(rest), IsDeep(s, done)
  PROVE  Takes(done, rest, AfterNamespace(s, rest, n).stack, AfterNamespace(s, rest, n).rest)
<1> DEFINE r == AfterNamespace(s, rest, n).stack
           left == AfterNamespace(s, rest, n).rest
<1>1. PICK k \in 1 .. Len(rest), b \in 0 .. Len(rest) :
        \E name : NamespaceAt(s, rest, n, k, b, name)
  BY NamespaceParts, Zenon
<1> DEFINE body == After(rest, b)
           braces == Positions(body, "{")
<1>1a. PICK name :
        /\ b \in {k, k + 1} /\ rest[k] = "namespace"
        /\ \A i \in 1 .. b : QuietToken(rest[i])
        /\ r = Append(s, NamespaceInfo(name, n, braces # {}))
        /\ left = IF braces = {} THEN body ELSE After(body, Min(braces))
  BY <1>1, Zenon DEF NamespaceAt
<1> HIDE DEF r, left
<1>2. PICK open \in BOOLEAN : open <=> braces # {}
  OBVIOUS
<1>3. /\ b \in {k, k + 1} /\ rest[k] = "namespace"
      /\ \A i \in 1 .. b : QuietToken(rest[i])
      /\ r = Append(s, NamespaceInfo(name, n, open))
  BY <1>2, <1>1a
<1>4. /\ ~open => left = body
      /\ open => left = After(body, Min(braces))
  BY <1>2, <1>1a
<1>5. /\ AllOpen(s) => Len(r) = Len(s) + 1
      /\ AllOpen(s) /\ open => AllOpen(r)
      /\ AllOpen(s) /\ ~open => Heading(r)
  <2>1. r = Append(s, NamespaceInfo(name, n, open))
    BY <1>3
  <2> QED
    BY <2>1, NamespaceOpens
<1>6. Len(rest) \in Nat /\ 0 \in 0 .. Len(rest) - b /\ k \in 1 .. b
  <2>1. Len(rest) \in Nat /\ b \in {k, k + 1}
    BY <1>3, LineLen
  <2> QED
    BY <2>1
<1>7. /\ body \in Line /\ Len(body) = Len(rest) - b
      /\ \A i \in 1 .. Len(rest) - b : body[i] = rest[b + i]
  BY <1>6, AfterAfter
<1>8. CASE ~open
  <2> DEFINE taken == SubSeq(rest, 1, b)
  <2>1. /\ taken \in Line /\ Len(taken) = b /\ rest = taken \o body
        /\ \A i \in 1 .. b : taken[i] = rest[i]
    BY SplitAt
  <2>2. Silent(taken)
    BY <1>3, QuietIs
  <2> HIDE DEF taken, body
  <2>3. k \in 1 .. Len(taken) /\ taken[k] \in HeadWords
    BY <1>3, <1>6, <2>1 DEF HeadWords
  <2>4. IsDeep(r, done \o taken)
    BY <1>5, <1>8, <2>1, <2>2, <2>3, DeepHead
  <2> QED
    BY <1>4, <1>8, <2>1, <2>4 DEF r, left, Takes
<1>9. CASE open
  <2> DEFINE m == Min(braces)
             e == b + m
             before == SubSeq(rest, 1, e - 1)
             taken == SubSeq(rest, 1, e)
             token == rest[e]
  <2>0. braces # {}
    BY <1>2, <1>9
  <2>1. /\ m \in 1 .. Len(rest) - b /\ body[m] = "{"
        /\ \A i \in 1 .. m - 1 : i \in 1 .. Len(rest) - b /\ body[i] # "{"
    <3> HIDE DEF m, body
    <3>1. /\ m \in 1 .. Len(body) /\ body[m] = "{"
          /\ \A i \in 1 .. m - 1 : i \in 1 .. Len(body) /\ body[i] # "{"
      BY <1>7, <2>0, FirstPosition, Zenon DEF m
    <3> QED
      BY <1>7, <3>1, Zenon
  <2> HIDE DEF m
  <2>2. /\ m \in 0 .. Len(rest) - b /\ e \in 1 .. Len(rest)
        /\ \A i \in 1 .. e - 1 : i \in 1 .. b \/ (i - b \in 1 .. m - 1 /\ b + (i - b) = i)
        /\ k \in 1 .. e - 1
    <3>1. m \in 1 .. Len(rest) - b
      BY <2>1
    <3> QED
      BY <1>6, <3>1
  <2>3. After(body, m) = After(rest, e)
    BY <2>2, AfterAfter
  <2>4. token = "{"
    BY <1>7, <2>1
  <2> HIDE DEF e, body
  <2>5. /\ e - 1 \in 0 .. Len(rest) /\ e \in 0 .. Len(rest) /\ token \in STRING
        /\ taken = before \o <<token>>
    BY <2>2, SplitBefore
  <2>6. /\ before \in Line /\ Len(before) = e - 1
        /\ \A i \in 1 .. e - 1 : before[i] = rest[i]
    BY <2>5, SplitAt
  <2>7. taken \in Line /\ rest = taken \o After(rest, e)
    BY <2>5, SplitAt
  <2> HIDE DEF token, before, taken
  <2>8. NamespaceHead(before, k)
    <3>1. k \in 1 .. Len(before) /\ before[k] = "namespace"
      BY <1>3, <2>2, <2>6, Zenon
    <3>2. ASSUME NEW i \in 1 .. b, i \in 1 .. e - 1 PROVE before[i] \notin {"{", "}", ";"}
      <4>1. QuietToken(rest[i]) /\ before[i] = rest[i]
        BY <1>3, <2>6, <3>2, Zenon
      <4> QED
        BY <4>1 DEF QuietToken
    <3>3. ASSUME NEW i \in 1 .. e - 1 PROVE before[i] # "{"
      <4>1. CASE i \in 1 .. b
        BY <3>2, <4>1
      <4>2. CASE i - b \in 1 .. m - 1 /\ b + (i - b) = i
        <5>1. i - b \in 1 .. Len(rest) - b /\ body[i - b] # "{"
          BY <2>1, <4>2, Zenon
        <5>2. body[i - b] = rest[b + (i - b)]
          BY <1>7, <5>1, Zenon
        <5> QED
          BY <2>6, <4>2, <5>1, <5>2, Zenon
      <4> QED
        BY <2>2, <4>1, <4>2, Zenon
    <3>4. ASSUME NEW i \in 1 .. k PROVE before[i] \notin {"}", ";"}
      <4>1. i \in 1 .. b /\ i \in 1 .. e - 1
        BY <1>6, <2>2
      <4> QED
        BY <3>2, <4>1
    <3> QED
      BY <2>6, <3>1, <3>3, <3>4, Zenon DEF NamespaceHead
  <2>9. IsDeep(r, (done \o before) \o <<token>>)
    BY <1>5, <1>9, <2>4, <2>5, <2>6, <2>8, DeepNamed
  <2>10. (done \o before) \o <<token>> = done \o taken
    <3> DEFINE one == <<token>>
    <3>1. one \in Line /\ taken = before \o one
      BY <2>5, One DEF Line
    <3> HIDE DEF one
    <3>2. (done \o before) \o one = done \o taken
      BY <2>6, <3>1, JoinThree
    <3> QED
      BY <3>2 DEF one
  <2>11. left = After(rest, e)
    BY <1>4, <1>9, <2>3 DEF m
  <2> QED
    BY <2>7, <2>9, <2>10, <2>11 DEF r, left, Takes
<1> QED
  BY <1>8, <1>9

\* A step of Update before a checkpoint can change.
Consumes(text) ==
    /\ \E done \in Line : text = done \o todo /\ IsDeep(stack, done)
    /\ step = "done" => IsDeep(stack, text)

LEMMA UpdateDeep ==
  ASSUME ShapeInv, NestingTypeOK, InLines, NEW text \in Line, Consumes(text),
         \/ Namespace(line)
         \/ ClassHead(line, IndentLevel(Raw), FromHere) \/ Brace(line) \/ EndUpdate
  PROVE  Consumes(text)' /\ UNCHANGED pp /\ step # "idle" /\ step' # "idle"
<1>1. /\ todo \in Line /\ todo' \in Line /\ stack \in Seq(BlockRecords) /\ line \in Nat
      /\ Raw \in Line
  <2>1. todo \in Line /\ todo' \in Line
    BY UpdateShape DEF ShapeInv
  <2>2. clean.raw \in Seq(Line) /\ line \in 1 .. Len(clean.raw) /\ line \in Nat
    BY ElidedIs DEF ShapeInv, Copies
  <2> QED
    BY <2>1, <2>2, ElementOfSeq DEF Raw, NestingTypeOK
<1>2. UNCHANGED pp /\ step # "idle" /\ step' # "idle"
  BY DEF Namespace, ClassHead, Brace, EndUpdate
<1>3. PICK done \in Line : text = done \o todo /\ IsDeep(stack, done)
  BY DEF Consumes
<1>4. ASSUME Takes(done, todo, stack', todo')
      PROVE  \E more \in Line : text = more \o todo' /\ IsDeep(stack', more)
  <2>1. PICK taken \in Line : todo = taken \o todo' /\ IsDeep(stack', done \o taken)
    BY <1>4 DEF Takes
  <2>2. (done \o taken) \o todo' = done \o (taken \o todo') /\ done \o taken \in Line
    <3>1. \A c \in Line : (done \o taken) \o c = done \o (taken \o c)
      BY DEF Line
    <3>2. done \o taken \in Line
      BY Joined
    <3> QED
      BY <1>1, <3>1, <3>2
  <2>3. text = (done \o taken) \o todo'
    BY <1>3, <2>1, <2>2, Zenon
  <2> QED
    BY <2>1, <2>2, <2>3
<1>5. CASE Namespace(line)
  <2>1. IsNamespace(todo) /\ step' = "heads"
    BY <1>5 DEF Namespace
  <2>2. Takes(done, todo, AfterNamespace(stack, todo, line).stack,
              AfterNamespace(stack, todo, line).rest)
    BY <1>1, <1>3, <2>1, NamespaceDeep
  <2>3. /\ todo' = AfterNamespace(stack, todo, line).rest
        /\ stack' = AfterNamespace(stack, todo, line).stack
    BY <1>5 DEF Namespace
  <2>4. Takes(done, todo, stack', todo')
    BY <2>2, <2>3, Zenon
  <2> QED
    BY <1>2, <1>4, <2>1, <2>4 DEF Consumes
<1>6. CASE ClassHead(line, IndentLevel(Raw), FromHere)
  <2> DEFINE indent == IndentLevel(Raw)
             is == IsClassHead(stack, todo, FromHere)
             after == AfterClassHead(stack, todo, line, indent, is)
  <2>1. is \in BOOLEAN /\ (is => ClassHeadEnd(todo) # 0) /\ indent \in Nat
    BY <1>1, IndentIsNat DEF IsClassHead
  <2>2. stack' = after.stack /\ todo' = after.rest /\ step' = "braces"
    BY <1>6, Zenon DEF ClassHead
  <2> HIDE DEF indent, is
  <2>3. Takes(done, todo, after.stack, after.rest)
    BY <1>1, <1>3, <2>1, ClassDeep
  <2> HIDE DEF after
  <2>4. Takes(done, todo, stack', todo')
    BY <2>2, <2>3, Zenon
  <2> QED
    BY <1>2, <1>4, <2>2, <2>4 DEF Consumes
<1>7. CASE Brace(line)
  <2>1. NextConsumed(todo) # {} /\ step' = "braces"
    BY <1>7 DEF Brace
  <2>2. Takes(done, todo, AfterBrace(stack, todo, line).stack,
              AfterBrace(stack, todo, line).rest)
    BY <1>1, <1>3, <2>1, BraceDeep
  <2>3. /\ todo' = AfterBrace(stack, todo, line).rest
        /\ stack' = AfterBrace(stack, todo, line).stack
    BY <1>7 DEF Brace
  <2>4. Takes(done, todo, stack', todo')
    BY <2>2, <2>3, Zenon
  <2> QED
    BY <1>2, <1>4, <2>1, <2>4 DEF Consumes
<1>8. CASE EndUpdate
  <2>1. NextConsumed(todo) = {} /\ UNCHANGED <<stack, todo>> /\ step' = "done"
    BY <1>8 DEF EndUpdate
  <2>2. IsDeep(stack, done \o todo)
    BY <1>1, <1>3, <2>1, EndDeep
  <2>3. IsDeep(stack', text) /\ text = done \o todo' /\ IsDeep(stack', done)
    BY <1>3, <2>1, <2>2
  <2> QED
    BY <1>2, <2>3 DEF Consumes
<1> QED
  BY <1>2, <1>5, <1>6, <1>7, <1>8

-----------------------------------------------------------------------------
(* How many #if are open                                                     *)

\* How many there are after a line that begins with this token.
Leveled(token, n) ==
    CASE token = "#if" -> n + 1
      [] token = "#endif" -> Max({n - 1, 0})
      [] OTHER -> n

LEMMA MaxZero ==
  ASSUME NEW n \in Nat
  PROVE  Max({n - 1, 0}) \in Nat /\ Max({n - 1, 0}) = IF n = 0 THEN 0 ELSE n - 1
<1> DEFINE m == IF n = 0 THEN 0 ELSE n - 1
           S == {n - 1, 0}
           Most(x) == \A y \in S : x >= y
<1>1. m \in S /\ m \in Nat
  OBVIOUS
<1>2. Most(m) /\ \A x \in S : Most(x) => x = m
  <2>1. S \subseteq Int /\ Most(m)
    OBVIOUS
  <2> QED
    BY <1>1, <2>1
<1>3. Max(S) = CHOOSE x \in S : Most(x)
  BY DEF Max
<1> HIDE DEF Most, S, m
<1>4. Max(S) = m
  BY <1>1, <1>2, <1>3
<1> QED
  BY <1>1, <1>4 DEF S, m

LEMMA LeveledIs ==
  ASSUME NEW token, NEW n \in Nat
  PROVE  /\ Leveled(token, n) \in Nat
         /\ token = "#if" => Leveled(token, n) = n + 1
         /\ token = "#endif" => Leveled(token, n) = IF n = 0 THEN 0 ELSE n - 1
         /\ token \notin {"#if", "#endif"} => Leveled(token, n) = n
<1> DEFINE m == Max({n - 1, 0})
           k == n + 1
<1>1. m \in Nat /\ m = (IF n = 0 THEN 0 ELSE n - 1) /\ k \in Nat
  BY MaxZero
<1>2. Leveled(token, n) =
        CASE token = "#if" -> k [] token = "#endif" -> m [] OTHER -> n
  BY DEF Leveled
<1>3. Leveled(token, n) = m /\ token = "#endif"
        => Leveled(token, n) = IF n = 0 THEN 0 ELSE n - 1
  BY <1>1, Zenon
<1>4. k = n + 1
  OBVIOUS
<1> HIDE DEF m, k
<1>5. /\ token = "#if" => Leveled(token, n) = k
      /\ token = "#endif" => Leveled(token, n) = m
      /\ token \notin {"#if", "#endif"} => Leveled(token, n) = n
  BY <1>2
<1>6. Leveled(token, n) \in {k, m, n}
  BY <1>5
<1>7. Leveled(token, n) \in Nat
  BY <1>1, <1>6
<1> QED
  BY <1>3, <1>4, <1>5, <1>7, Zenon

LEMMA LevelSteps ==
  ASSUME clean.elided \in Seq(Line)
  PROVE  /\ Level \in [0 .. Len(clean.elided) -> Nat] /\ Level[0] = 0
         /\ \A n \in 1 .. Len(clean.elided) :
              Level[n] = Leveled(First(clean.elided[n]), Level[n-1])
<1> DEFINE lines == clean.elided
           n == Len(lines)
           Solves(f) == f = [i \in 0 .. n |->
                               IF i = 0 THEN 0 ELSE Leveled(First(lines[i]), f[i-1])]
           S == 0 .. n
           move == [p \in S \X Nat |-> Leveled(First(lines[p[1]]), p[2])]
<1>1. n \in Nat
  OBVIOUS
<1>2. move \in [S \X Nat -> Nat]
  BY LeveledIs
<1>3. \A i \in S, d \in Nat : move[<<i, d>>] = Leveled(First(lines[i]), d)
  OBVIOUS
<1> HIDE DEF move, n, S, lines
<1>4. PICK f \in [0 .. n -> Nat] : Steps(f, n, 0, move)
  BY <1>1, <1>2, Counting DEF S
<1>5. \A i \in 1 .. n : i \in S /\ i \in 0 .. n /\ i - 1 \in 0 .. n /\ i # 0
  BY <1>1 DEF S
<1>6. f[0] = 0 /\ \A i \in 1 .. n : f[i] = Leveled(First(lines[i]), f[i-1])
  <2>1. 0 \in 0 .. n
    BY <1>1
  <2>2. f[0] = 0
    BY <1>4, <2>1 DEF Steps
  <2>3. ASSUME NEW i \in 1 .. n PROVE f[i] = Leveled(First(lines[i]), f[i-1])
    <3>1. f[i] = move[<<i, f[i-1]>>] /\ f[i-1] \in Nat
      BY <1>4, <1>5 DEF Steps
    <3> QED
      BY <1>3, <1>5, <3>1
  <2> QED
    BY <2>2, <2>3
<1> DEFINE g == CHOOSE h : Solves(h)
<1>7. Solves(g)
  <2>1. \A i \in 0 .. n : f[i] = IF i = 0 THEN 0 ELSE Leveled(First(lines[i]), f[i-1])
    <3>1. \A i \in 0 .. n : i = 0 \/ i \in 1 .. n
      BY <1>1
    <3> QED
      BY <1>6, <3>1
  <2>2. Solves(f)
    BY <2>1
  <2> HIDE DEF Solves
  <2> QED
    BY <2>2
<1>8. Level = g
  BY DEF Level, g, n, lines, Leveled
<1> HIDE DEF g
<1>9. \A i \in 0 .. n : g[i] = IF i = 0 THEN 0 ELSE Leveled(First(lines[i]), g[i-1])
  BY <1>7
<1>9a. g = [i \in 0 .. n |-> g[i]]
  BY <1>7
<1> DEFINE P == {i \in 0 .. n : g[i] = f[i]}
<1>10. 0 \in P
  BY <1>1, <1>6, <1>9
<1>11. \A i \in 1 .. n : i - 1 \in P => i \in P
  BY <1>5, <1>6, <1>9
<1> HIDE DEF P
<1>12. 0 .. n \subseteq P
  BY <1>1, <1>10, <1>11, CountInduction
<1>13. g = f
  <2>1. \A i \in 0 .. n : g[i] = f[i]
    BY <1>12 DEF P
  <2>2. f = [i \in 0 .. n |-> f[i]]
    BY <1>4
  <2> QED
    BY <1>9a, <2>1, <2>2
<1> QED
  BY <1>6, <1>8, <1>13 DEF n, lines

-----------------------------------------------------------------------------
(* The ways through the directives                                           *)

\* Parts of a text of which nothing but the last is new.
\* b has the elements of a, then empty ones, and then one that counts.
GoesOn(a, b) ==
    /\ Len(a) < Len(b)
    /\ \A i \in 1 .. Len(a) : b[i] = a[i]
    /\ \A i \in Len(a) + 1 .. Len(b) - 1 : b[i] = <<>>

LEMMA FlattenTo ==
  ASSUME NEW S, NEW a \in Seq(Seq(S)), NEW b \in Seq(Seq(S)), GoesOn(a, b)
  PROVE  FlattenSeq(b) = FlattenSeq(a) \o b[Len(b)]
<1> DEFINE m == Len(a)
           n == Len(b)
<1>1. PICK f \in [0 .. m -> Seq(S)] :
        /\ f[0] = <<>> /\ FlattenSeq(a) = f[m]
        /\ \A i \in 1 .. m : f[i] = f[i-1] \o a[i]
  BY FlattenSteps
<1>2. PICK g \in [0 .. n -> Seq(S)] :
        /\ g[0] = <<>> /\ FlattenSeq(b) = g[n]
        /\ \A i \in 1 .. n : g[i] = g[i-1] \o b[i]
  BY FlattenSteps
<1>3. m \in Nat /\ n \in Nat /\ m < n
  BY LenProperties DEF GoesOn
<1>4. (\A i \in 1 .. m : b[i] = a[i]) /\ (\A i \in m + 1 .. n - 1 : b[i] = <<>>)
  BY DEF GoesOn
<1> HIDE DEF m, n
<1> DEFINE P == {i \in 0 .. m : g[i] = f[i]}
<1>5. 0 \in P
  BY <1>1, <1>2, <1>3
<1>6. ASSUME NEW i \in 1 .. m, i - 1 \in P PROVE i \in P
  <2>1. i \in 0 .. m /\ i \in 1 .. n
    BY <1>3
  <2>2. g[i] = g[i-1] \o b[i] /\ f[i] = f[i-1] \o a[i] /\ b[i] = a[i] /\ g[i-1] = f[i-1]
    BY <1>1, <1>2, <1>4, <1>6, <2>1
  <2> QED
    BY <2>1, <2>2
<1> HIDE DEF P
<1>7. 0 .. m \subseteq P
  BY <1>3, <1>5, <1>6, CountInduction
<1>8. g[m] = f[m]
  <2>1. m \in 0 .. m
    BY <1>3
  <2> QED
    BY <1>7, <2>1 DEF P
<1> DEFINE l == (n - 1) - m
           Q == {i \in 0 .. l : g[m + i] = g[m]}
<1>9. l \in Nat /\ m + l = n - 1 /\ m + 0 = m
  BY <1>3
<1>10. 0 \in Q
  BY <1>9
<1>11. ASSUME NEW i \in 1 .. l, i - 1 \in Q PROVE i \in Q
  <2>1. /\ i \in 0 .. l /\ m + i \in 1 .. n /\ m + i \in m + 1 .. n - 1
        /\ (m + i) - 1 = m + (i - 1) /\ m + (i - 1) \in 0 .. n
    BY <1>3
  <2>2. g[m + i] = g[(m + i) - 1] \o b[m + i] /\ b[m + i] = <<>>
    BY <1>2, <1>4, <2>1
  <2>3. g[m + (i - 1)] \in Seq(S) /\ g[m + (i - 1)] = g[m]
    BY <1>2, <1>11, <2>1
  <2>4. \A s \in Seq(S) : s \o <<>> = s
    OBVIOUS
  <2>5. g[m + i] = g[m]
    BY <2>1, <2>2, <2>3, <2>4
  <2> QED
    BY <2>1, <2>5
<1> HIDE DEF Q, l
<1>12. 0 .. l \subseteq Q
  BY <1>9, <1>10, <1>11, CountInduction
<1>13. g[n - 1] = g[m]
  <2>1. l \in 0 .. l
    BY <1>9
  <2> QED
    BY <1>9, <1>12, <2>1 DEF Q
<1>14. g[n] = g[n-1] \o b[n]
  <2>1. n \in 1 .. n
    BY <1>3
  <2> QED
    BY <1>2, <2>1
<1> QED
  BY <1>1, <1>2, <1>8, <1>13, <1>14 DEF n

-----------------------------------------------------------------------------
(* Which lines count. In these lemmas level is that of the lines 0 .. size   *)
(* and elses are the lines with an #else that has its #if.                   *)

Above(level, i, j, l) == \A k \in i .. j : level[k] >= l

Counts(level, elses, i, n) ==
    \A j \in 1 .. n :
      j \in elses =>
        /\ j <= i /\ Above(level, j, i, level[j]) => Above(level, j, n, level[j])
        /\ i < j => ~Above(level, i, n, level[j])

\* The lines up to m count after line n just if they count after m, and of
\* those behind m only n itself does.
JumpsTo(level, elses, m, n) ==
    /\ \A i \in 1 .. m : Counts(level, elses, i, n) <=> Counts(level, elses, i, m)
    /\ \A i \in m + 1 .. n - 1 : ~Counts(level, elses, i, n)
    /\ Counts(level, elses, n, n)

\* The #if on line m is one of level k, and open after line n.
OpenAt(level, m, k, n) == m \in 1 .. n /\ level[m-1] = k - 1 /\ Above(level, m, n, k)

\* No #else of level k from line i to line j.
NoElse(level, elses, i, j, k) == \A n \in i .. j : ~(n \in elses /\ level[n] = k)

\* The first #else of level k behind line m - 1 is on line e.
FirstElse(level, elses, e, m, k) ==
    e \in elses /\ level[e] = k /\ level[e-1] = k /\ NoElse(level, elses, m, e - 1, k)

LEMMA AboveSplit ==
  ASSUME NEW level, NEW i \in Int, NEW j \in Int, NEW n \in Int, NEW l, i <= j, j <= n
  PROVE  Above(level, i, n, l) <=> Above(level, i, j, l) /\ Above(level, j, n, l)
BY DEF Above

LEMMA AboveAt ==
  ASSUME NEW level, NEW i \in Int, NEW j \in Int, NEW n, NEW l, n \in i .. j,
         Above(level, i, j, l)
  PROVE  level[n] >= l
BY DEF Above

LEMMA AboveLower ==
  ASSUME NEW size \in Nat, NEW level \in [0 .. size -> Nat], NEW i \in Nat, NEW j \in 0 .. size,
         NEW l \in Nat, NEW k \in Nat, k <= l, Above(level, i, j, l)
  PROVE  Above(level, i, j, k)
<1>1. \A n \in i .. j : level[n] \in Nat /\ level[n] >= l
  BY DEF Above
<1>2. \A n \in i .. j : level[n] >= k
  BY <1>1
<1> QED
  BY <1>2 DEF Above

LEMMA CountsSelf ==
  ASSUME NEW level, NEW elses, NEW n \in Nat
  PROVE  Counts(level, elses, n, n)
BY DEF Counts

\* Nothing is skipped by a line that ends no conditional with an #else.
LEMMA JumpNone ==
  ASSUME NEW size \in Nat, NEW level \in [0 .. size -> Nat], NEW elses, NEW n \in 1 .. size,
         n \notin elses,
         \A j \in 1 .. n - 1 :
           j \in elses /\ Above(level, j, n - 1, level[j]) => level[n] >= level[j]
  PROVE  JumpsTo(level, elses, n - 1, n)
<1> DEFINE Down(i, j) == Above(level, i, n, level[j])
           Held(i, j) == Above(level, i, n - 1, level[j])
<1>1. \A i, j \in 1 .. n - 1 : Down(i, j) <=> Held(i, j) /\ level[n] >= level[j]
  BY DEF Above
<1>2. \A j \in 1 .. n - 1 : \A i \in j .. n - 1 : Held(j, j) => Held(i, j)
  BY DEF Above
<1>3. ASSUME NEW i \in 1 .. n - 1
      PROVE  Counts(level, elses, i, n) <=> Counts(level, elses, i, n - 1)
  <2>1. \A j \in 1 .. n - 1 : j \in elses => (Down(j, j) <=> Held(j, j))
    BY <1>1
  <2>2. \A j \in 1 .. n - 1 : j \in elses /\ i < j => (Down(i, j) <=> Held(i, j))
    <3> TAKE j \in 1 .. n - 1
    <3> HAVE j \in elses /\ i < j
    <3>1. Held(i, j) => Held(j, j)
      BY DEF Above
    <3> QED
      BY <1>1, <3>1
  <2>3. \A j : j \in 1 .. n /\ j \in elses <=> j \in 1 .. n - 1 /\ j \in elses
    OBVIOUS
  <2> HIDE DEF Down, Held
  <2>4. Counts(level, elses, i, n) <=>
          \A j \in 1 .. n - 1 :
            j \in elses => /\ j <= i /\ Above(level, j, i, level[j]) => Down(j, j)
                           /\ i < j => ~Down(i, j)
    BY <2>3 DEF Counts, Down
  <2>5. Counts(level, elses, i, n - 1) <=>
          \A j \in 1 .. n - 1 :
            j \in elses => /\ j <= i /\ Above(level, j, i, level[j]) => Held(j, j)
                           /\ i < j => ~Held(i, j)
    BY DEF Counts, Held
  <2> QED
    BY <2>1, <2>2, <2>4, <2>5
<1>4. n - 1 + 1 .. n - 1 = {}
  OBVIOUS
<1> QED
  BY <1>3, <1>4, CountsSelf DEF JumpsTo

LEMMA JumpWhen ==
  ASSUME NEW level, NEW elses, NEW n \in Nat, NEW m \in 0 .. n - 1,
         \A j \in 1 .. m : \A i \in 1 .. j :
           j \in elses => (Above(level, i, n, level[j]) <=> Above(level, i, m, level[j])),
         \A j \in m + 1 .. n : \A i \in 1 .. m : j \in elses => ~Above(level, i, n, level[j]),
         \A i \in m + 1 .. n - 1 : ~Counts(level, elses, i, n)
  PROVE  JumpsTo(level, elses, m, n)
<1>1. ASSUME NEW i \in 1 .. m
      PROVE  Counts(level, elses, i, n) <=> Counts(level, elses, i, m)
  <2>1. \A j \in 1 .. m : j \in 1 .. n /\ j \in 1 .. j /\ (i < j => i \in 1 .. j)
    OBVIOUS
  <2>2. \A j \in 1 .. n : j \in 1 .. m \/ (j \in m + 1 .. n /\ i < j /\ ~(j <= i))
    OBVIOUS
  <2> QED
    BY <2>1, <2>2 DEF Counts
<1> QED
  BY <1>1, CountsSelf DEF JumpsTo

\* An #else leads back to before its #if.
LEMMA JumpElse ==
  ASSUME NEW size \in Nat, NEW level \in [0 .. size -> Nat], NEW elses, NEW n \in 1 .. size,
         n \in elses, NEW k \in Nat, level[n] = k, NEW m, OpenAt(level, m, k, n)
  PROVE  JumpsTo(level, elses, m - 1, n)
<1>1. m \in 1 .. n /\ level[m-1] = k - 1 /\ Above(level, m, n, k)
  BY DEF OpenAt
<1>2. \A j \in m .. n : level[j] >= k
  BY <1>1 DEF Above
<1>3. ASSUME NEW j \in 1 .. m - 1, NEW i \in 1 .. j
      PROVE  Above(level, i, n, level[j]) <=> Above(level, i, m - 1, level[j])
  <2>1. CASE level[j] <= k - 1
    <3>1. \A x \in i .. n : x \in i .. m - 1 \/ x \in m .. n
      BY <1>1
    <3>2. \A x \in i .. m - 1 : x \in i .. n
      BY <1>1
    <3>3. \A x \in m .. n : level[x] \in Nat
      BY <1>1
    <3>4. level[j] \in Nat
      BY <1>1
    <3>5. \A x \in m .. n : level[x] >= level[j]
      BY <1>2, <2>1, <3>3, <3>4
    <3> QED
      BY <3>1, <3>2, <3>5 DEF Above
  <2>2. CASE ~(level[j] <= k - 1)
    <3>1. m - 1 \in i .. m - 1 /\ m - 1 \in i .. n
      BY <1>1
    <3>2. ~(level[m-1] >= level[j])
      <4>1. level[j] \in Nat
        BY <1>1
      <4> QED
        BY <1>1, <2>2, <4>1
    <3> QED
      BY <3>1, <3>2 DEF Above
  <2> QED
    BY <2>1, <2>2
<1>4. ASSUME NEW j \in m .. n, NEW i \in 1 .. m - 1
      PROVE  ~Above(level, i, n, level[j])
  <2>1. m - 1 \in i .. n /\ level[j] \in Nat /\ level[j] >= k
    BY <1>1, <1>2
  <2>2. ~(level[m-1] >= level[j])
    BY <1>1, <2>1
  <2> QED
    BY <2>1, <2>2 DEF Above
<1>5. ASSUME NEW i \in m .. n - 1
      PROVE  ~Counts(level, elses, i, n)
  <2>1. n \in 1 .. n /\ i < n
    BY <1>1
  <2>2. Above(level, i, n, level[n])
    BY <1>1, <1>2 DEF Above
  <2> QED
    BY <2>1, <2>2 DEF Counts
<1>6. m - 1 \in 0 .. n - 1 /\ m - 1 + 1 = m /\ n \in Nat
  BY <1>1
<1> QED
  BY <1>3, <1>4, <1>5, <1>6, JumpWhen

\* An #endif behind an #else leads back to before the first #else.
LEMMA JumpEnd ==
  ASSUME NEW size \in Nat, NEW level \in [0 .. size -> Nat], NEW elses, NEW n \in 1 .. size,
         n \notin elses, NEW k \in Nat, level[n-1] = k, level[n] = k - 1,
         NEW m, OpenAt(level, m, k, n - 1),
         NEW e \in m + 1 .. n - 1, FirstElse(level, elses, e, m, k)
  PROVE  JumpsTo(level, elses, e - 1, n)
<1>1. m \in 1 .. n - 1 /\ level[m-1] = k - 1 /\ Above(level, m, n - 1, k)
  BY DEF OpenAt
<1>2. \A j \in m .. n - 1 : level[j] >= k
  BY <1>1 DEF Above
<1>3. e \in elses /\ level[e] = k /\ level[e-1] = k /\ NoElse(level, elses, m, e - 1, k)
  BY DEF FirstElse
<1>4. ASSUME NEW j \in 1 .. e - 1, NEW i \in 1 .. j, j \in elses
      PROVE  Above(level, i, n, level[j]) <=> Above(level, i, e - 1, level[j])
  <2>0. level[j] \in Nat /\ e - 1 \in m .. n - 1
    BY <1>1
  <2>1. CASE level[j] <= k - 1
    <3>1. \A x \in i .. n : x \in i .. e - 1 \/ x \in m .. n - 1 \/ x = n
      BY <1>1
    <3>2. \A x \in i .. e - 1 : x \in i .. n
      BY <2>0
    <3>3. \A x \in m .. n - 1 : level[x] \in Nat
      BY <1>1
    <3>4. \A x \in m .. n - 1 : level[x] >= level[j]
      BY <1>2, <2>0, <2>1, <3>3
    <3>5. level[n] >= level[j]
      BY <2>0, <2>1
    <3> QED
      BY <3>1, <3>2, <3>4, <3>5 DEF Above
  <2>2. CASE level[j] = k
    <3>1. j < m
      <4>1. ~(j \in m .. e - 1)
        BY <1>3, <1>4, <2>2 DEF NoElse
      <4> QED
        BY <1>1, <4>1
    <3>2. m - 1 \in i .. e - 1 /\ m - 1 \in i .. n
      BY <1>1, <2>0, <3>1
    <3>3. ~(level[m-1] >= level[j])
      BY <1>1, <2>2
    <3> QED
      BY <3>2, <3>3 DEF Above
  <2>3. CASE level[j] > k
    <3>1. e - 1 \in i .. e - 1 /\ e - 1 \in i .. n
      BY <2>0
    <3>2. ~(level[e-1] >= level[j])
      BY <1>3, <2>0, <2>3
    <3> QED
      BY <3>1, <3>2 DEF Above
  <2>4. level[j] <= k - 1 \/ level[j] = k \/ level[j] > k
    BY <2>0
  <2> QED
    BY <2>1, <2>2, <2>3, <2>4
<1>5. ASSUME NEW j \in e .. n, NEW i \in 1 .. e - 1, j \in elses
      PROVE  ~Above(level, i, n, level[j])
  <2>1. j \in m .. n - 1 /\ n \in i .. n
    BY <1>1, <1>5
  <2>2. level[j] >= k /\ level[j] \in Nat
    BY <1>1, <1>2, <2>1
  <2>3. ~(level[n] >= level[j])
    BY <2>2
  <2> QED
    BY <2>1, <2>3 DEF Above
<1>6. ASSUME NEW i \in e .. n - 1
      PROVE  ~Counts(level, elses, i, n)
  <2>1. e \in 1 .. n /\ e <= i /\ n \in e .. n
    BY <1>1
  <2>2. Above(level, e, i, level[e])
    <3>1. \A x \in e .. i : x \in m .. n - 1
      BY <1>1
    <3> QED
      BY <1>2, <1>3, <3>1 DEF Above
  <2>3. ~Above(level, e, n, level[e])
    BY <1>3, <2>1 DEF Above
  <2> QED
    BY <1>3, <2>1, <2>2, <2>3 DEF Counts
<1>7. e - 1 \in 0 .. n - 1 /\ e - 1 + 1 = e /\ n \in Nat
  BY <1>1
<1> QED
  BY <1>4, <1>5, <1>6, <1>7, JumpWhen

-----------------------------------------------------------------------------
(* The lines that count, and their text                                      *)

ElseLines == {j \in 1 .. Len(clean.elided) : First(clean.elided[j]) = "#else" /\ Level[j] > 0}
Paths == [n \in 0 .. Len(clean.elided) |-> PathText(n)]

LEMMA OnPathIs ==
  ASSUME NEW n \in 0 .. Len(clean.elided), NEW i
  PROVE  OnPath(i, n) <=> Counts(Level, ElseLines, i, n)
<1>1. \A j \in 1 .. n : j \in 1 .. Len(clean.elided)
  OBVIOUS
<1>2. \A j \in 1 .. n : j \in ElseLines <=> First(clean.elided[j]) = "#else" /\ Level[j] > 0
  BY <1>1 DEF ElseLines
<1>3. \A j \in 1 .. n : /\ Inside(j, i, Level[j]) <=> Above(Level, j, i, Level[j])
                        /\ Inside(j, n, Level[j]) <=> Above(Level, j, n, Level[j])
                        /\ Inside(i, n, Level[j]) <=> Above(Level, i, n, Level[j])
  BY DEF Inside, Above
<1> DEFINE P(j) == /\ j <= i /\ Inside(j, i, Level[j]) => Inside(j, n, Level[j])
                   /\ i < j => ~Inside(i, n, Level[j])
           Q(j) == /\ j <= i /\ Above(Level, j, i, Level[j]) => Above(Level, j, n, Level[j])
                   /\ i < j => ~Above(Level, i, n, Level[j])
<1>4. OnPath(i, n) <=>
        \A j \in 1 .. n : First(clean.elided[j]) = "#else" /\ Level[j] > 0 => P(j)
  BY Zenon DEF OnPath
<1>5. Counts(Level, ElseLines, i, n) <=> \A j \in 1 .. n : j \in ElseLines => Q(j)
  BY Zenon DEF Counts
<1>6. \A j \in 1 .. n : P(j) <=> Q(j)
  BY <1>3, Zenon
<1> HIDE DEF P, Q
<1> QED
  BY <1>2, <1>4, <1>5, <1>6, Zenon

LEMMA PathsAre ==
  ASSUME clean.elided \in Seq(Line)
  PROVE  /\ Paths \in [0 .. Len(clean.elided) -> Line] /\ Paths[0] = <<>>
         /\ \A n \in 1 .. Len(clean.elided) : \A m \in 0 .. n - 1 :
              JumpsTo(Level, ElseLines, m, n) => Paths[n] = Paths[m] \o clean.elided[n]
<1> DEFINE lines == clean.elided
           Part(i, n) == IF OnPath(i, n) THEN lines[i] ELSE <<>>
           Parts(n) == [i \in 1 .. n |-> Part(i, n)]
<1>1. \A n \in 0 .. Len(lines) : PathText(n) = FlattenSeq(Parts(n))
  BY DEF PathText
<1>2. ASSUME NEW n \in 0 .. Len(lines)
      PROVE  Parts(n) \in Seq(Line) /\ Len(Parts(n)) = n
  <2>1. \A i \in 1 .. n : lines[i] \in Line /\ <<>> \in Line
    BY ElementOfSeq DEF Line
  <2>2. \A i \in 1 .. n : Part(i, n) \in Line
    BY <2>1
  <2>3. n \in Nat
    OBVIOUS
  <2> HIDE DEF Part
  <2> QED
    BY <2>2, <2>3
<1> HIDE DEF Part
<1>3. \A n \in 0 .. Len(lines) : PathText(n) \in Line
  <2> TAKE n \in 0 .. Len(lines)
  <2> DEFINE parts == Parts(n)
  <2>1. parts \in Seq(Seq(STRING)) /\ PathText(n) = FlattenSeq(parts)
    BY <1>1, <1>2 DEF Line
  <2> HIDE DEF parts
  <2>2. FlattenSeq(parts) \in Seq(STRING)
    <3>1. PICK g \in [0 .. Len(parts) -> Seq(STRING)] : FlattenSeq(parts) = g[Len(parts)]
      BY <2>1, FlattenSteps
    <3>2. Len(parts) \in 0 .. Len(parts)
      BY <2>1
    <3> QED
      BY <3>1, <3>2
  <2> QED
    BY <2>1, <2>2 DEF Line
<1>4. Paths \in [0 .. Len(lines) -> Line]
  BY <1>3 DEF Paths
<1>5. Paths[0] = <<>>
  <2> DEFINE parts == Parts(0)
  <2>1. 0 \in 0 .. Len(lines)
    OBVIOUS
  <2>2. parts \in Seq(Seq(STRING)) /\ PathText(0) = FlattenSeq(parts) /\ Len(parts) = 0
    BY <1>1, <1>2, <2>1 DEF Line
  <2>3. Paths[0] = PathText(0)
    BY <2>1 DEF Paths
  <2> HIDE DEF parts
  <2>4. FlattenSeq(parts) = <<>>
    <3>1. PICK g \in [0 .. Len(parts) -> Seq(STRING)] :
            g[0] = <<>> /\ FlattenSeq(parts) = g[Len(parts)]
      BY <2>2, FlattenSteps
    <3> QED
      BY <2>2, <3>1
  <2> QED
    BY <2>2, <2>3, <2>4
<1>6. ASSUME NEW n \in 1 .. Len(lines), NEW m \in 0 .. n - 1,
             JumpsTo(Level, ElseLines, m, n)
      PROVE  Paths[n] = Paths[m] \o lines[n]
  <2>1. n \in 0 .. Len(lines) /\ m \in 0 .. Len(lines) /\ m < n /\ n \in 1 .. n
    OBVIOUS
  <2>2. /\ \A i \in 1 .. m : OnPath(i, n) <=> OnPath(i, m)
        /\ \A i \in m + 1 .. n - 1 : ~OnPath(i, n)
        /\ OnPath(n, n)
    BY <1>6, <2>1, OnPathIs DEF JumpsTo
  <2> DEFINE a == Parts(m)
             b == Parts(n)
  <2>3. /\ a \in Seq(Seq(STRING)) /\ Len(a) = m /\ FlattenSeq(a) = Paths[m]
        /\ b \in Seq(Seq(STRING)) /\ Len(b) = n /\ FlattenSeq(b) = Paths[n]
    BY <1>1, <1>2, <2>1 DEF Line, Paths
  <2>4. \A i \in 1 .. m : b[i] = a[i]
    <3>1. \A i \in 1 .. m : i \in 1 .. n
      BY <2>1
    <3> QED
      BY <2>2, <3>1 DEF Part
  <2>5. \A i \in m + 1 .. n - 1 : b[i] = <<>>
    <3>1. \A i \in m + 1 .. n - 1 : i \in 1 .. n
      BY <2>1
    <3> QED
      BY <2>2, <3>1 DEF Part
  <2>6. b[n] = lines[n]
    BY <2>1, <2>2 DEF Part
  <2> HIDE DEF a, b
  <2>7. GoesOn(a, b)
    BY <2>1, <2>3, <2>4, <2>5 DEF GoesOn
  <2> QED
    BY <2>3, <2>6, <2>7, FlattenTo
<1> QED
  BY <1>4, <1>5, <1>6

-----------------------------------------------------------------------------
(* The checkpoints. In these lemmas paths is the text that counts after each *)
(* of the lines 0 .. size.                                                   *)

\* Checkpoint c is for the conditional of level k around line n: what it keeps
\* is the stack from before its #if and, after an #else, from before the first.
ForkAt(level, elses, paths, c, k, n, m) ==
    /\ OpenAt(level, m, k, n)
    /\ IsDeep(c.before, paths[m-1])
    /\ c.seen => \E e \in m + 1 .. n :
                    FirstElse(level, elses, e, m, k) /\ IsDeep(c.kept, paths[e-1])
    /\ ~c.seen => NoElse(level, elses, m, n, k)
Fork(level, elses, paths, c, k, n) ==
    \E m \in 1 .. n : ForkAt(level, elses, paths, c, k, n, m)

Forks(level, elses, paths, p, n) ==
    /\ Len(p) = level[n]
    /\ \A k \in 1 .. Len(p) : Fork(level, elses, paths, p[k], k, n)

LEMMA OpenStays ==
  ASSUME NEW level, NEW n \in Nat, NEW m, NEW k, OpenAt(level, m, k, n - 1), level[n] >= k
  PROVE  OpenAt(level, m, k, n)
<1>1. m \in 1 .. n - 1 /\ \A j \in m .. n : j \in m .. n - 1 \/ j = n
  BY DEF OpenAt
<1>2. m \in 1 .. n
  BY <1>1
<1> QED
  BY <1>1, <1>2 DEF OpenAt, Above

LEMMA NoElseStays ==
  ASSUME NEW level, NEW elses, NEW n \in Nat, NEW m \in 1 .. n - 1, NEW k,
         NoElse(level, elses, m, n - 1, k), ~(n \in elses /\ level[n] = k)
  PROVE  NoElse(level, elses, m, n, k)
<1>1. \A j \in m .. n : j \in m .. n - 1 \/ j = n
  OBVIOUS
<1> QED
  BY <1>1 DEF NoElse

LEMMA ForkStays ==
  ASSUME NEW level, NEW elses, NEW paths, NEW c, NEW n \in Nat, NEW k,
         Fork(level, elses, paths, c, k, n - 1), level[n] >= k,
         ~c.seen => ~(n \in elses /\ level[n] = k)
  PROVE  Fork(level, elses, paths, c, k, n)
<1>1. PICK m \in 1 .. n - 1 : ForkAt(level, elses, paths, c, k, n - 1, m)
  BY DEF Fork
<1>2. OpenAt(level, m, k, n) /\ m \in 1 .. n
  BY <1>1, OpenStays DEF ForkAt
<1>3. ~c.seen => NoElse(level, elses, m, n, k)
  BY <1>1, NoElseStays DEF ForkAt
<1>4. c.seen => \E e \in m + 1 .. n :
                   FirstElse(level, elses, e, m, k) /\ IsDeep(c.kept, paths[e-1])
  <2>1. \A e \in m + 1 .. n - 1 : e \in m + 1 .. n
    OBVIOUS
  <2> QED
    BY <1>1, <2>1 DEF ForkAt
<1> QED
  BY <1>1, <1>2, <1>3, <1>4 DEF ForkAt, Fork

\* An #if.
LEMMA ForkOpens ==
  ASSUME NEW level, NEW elses, NEW paths, NEW c, NEW n \in Nat \ {0}, NEW k \in Nat,
         level[n-1] = k - 1, level[n] = k, n \notin elses,
         IsDeep(c.before, paths[n-1]), ~c.seen
  PROVE  Fork(level, elses, paths, c, k, n)
<1>1. n \in 1 .. n /\ \A j \in n .. n : j = n
  OBVIOUS
<1>2. OpenAt(level, n, k, n) /\ NoElse(level, elses, n, n, k)
  BY <1>1 DEF OpenAt, Above, NoElse
<1>3. ForkAt(level, elses, paths, c, k, n, n)
  BY <1>2 DEF ForkAt
<1> QED
  BY <1>1, <1>3 DEF Fork

\* The first #else.
LEMMA ForkSwitches ==
  ASSUME NEW level, NEW elses, NEW paths, NEW c, NEW n \in Nat \ {0}, NEW k \in Nat,
         Fork(level, elses, paths, c, k, n - 1), ~c.seen,
         level[n-1] = k, level[n] = k, n \in elses,
         NEW d, d.before = c.before, d.seen, IsDeep(d.kept, paths[n-1])
  PROVE  Fork(level, elses, paths, d, k, n)
<1>1. PICK m \in 1 .. n - 1 : ForkAt(level, elses, paths, c, k, n - 1, m)
  BY DEF Fork
<1>2. OpenAt(level, m, k, n) /\ m \in 1 .. n /\ n \in m + 1 .. n
  BY <1>1, OpenStays DEF ForkAt
<1>3. FirstElse(level, elses, n, m, k)
  BY <1>1 DEF ForkAt, FirstElse
<1>4. IsDeep(d.before, paths[m-1])
  BY <1>1 DEF ForkAt
<1>5. ForkAt(level, elses, paths, d, k, n, m)
  BY <1>2, <1>3, <1>4, Zenon DEF ForkAt
<1> QED
  BY <1>2, <1>5 DEF Fork

\* Where a line goes on from: with an #else before the #if, with an #endif
\* behind an #else before the first #else, else where the line before it ended.
Resumes(level, elses, paths, s, n) ==
    \E m \in 0 .. n - 1 : JumpsTo(level, elses, m, n) /\ IsDeep(s, paths[m])

LEMMA ResumesBefore ==
  ASSUME NEW size \in Nat, NEW level \in [0 .. size -> Nat], NEW elses, NEW paths, NEW s,
         NEW n \in 1 .. size, n \notin elses, level[n] >= level[n-1], IsDeep(s, paths[n-1])
  PROVE  Resumes(level, elses, paths, s, n)
<1>1. \A j \in 1 .. n - 1 : Above(level, j, n - 1, level[j]) => level[n] >= level[j]
  <2>1. \A j \in 1 .. n - 1 : n - 1 \in j .. n - 1 /\ level[j] \in Nat /\ j \in Int
    OBVIOUS
  <2>2. level[n] \in Nat /\ level[n-1] \in Nat /\ n - 1 \in Int
    OBVIOUS
  <2>3. \A j \in 1 .. n - 1 : Above(level, j, n - 1, level[j]) => level[n-1] >= level[j]
    BY <2>1 DEF Above
  <2> QED
    BY <2>1, <2>2, <2>3
<1>2. n - 1 \in 0 .. n - 1
  OBVIOUS
<1> QED
  BY <1>1, <1>2, JumpNone DEF Resumes

LEMMA ResumesElse ==
  ASSUME NEW size \in Nat, NEW level \in [0 .. size -> Nat], NEW elses, NEW paths, NEW c,
         NEW n \in 1 .. size, n \in elses, NEW k \in Nat, level[n] = k,
         Fork(level, elses, paths, c, k, n - 1)
  PROVE  Resumes(level, elses, paths, c.before, n)
<1>1. PICK m \in 1 .. n - 1 : ForkAt(level, elses, paths, c, k, n - 1, m)
  BY DEF Fork
<1>2. n \in Nat /\ OpenAt(level, m, k, n)
  BY <1>1, OpenStays DEF ForkAt
<1>3. m - 1 \in 0 .. n - 1 /\ IsDeep(c.before, paths[m-1])
  BY <1>1 DEF ForkAt
<1> QED
  BY <1>2, <1>3, JumpElse DEF Resumes

LEMMA ResumesEnd ==
  ASSUME NEW size \in Nat, NEW level \in [0 .. size -> Nat], NEW elses, NEW paths, NEW c, NEW s,
         NEW n \in 1 .. size, n \notin elses, NEW k \in Nat, level[n-1] = k, level[n] = k - 1,
         Fork(level, elses, paths, c, k, n - 1), c.seen \in BOOLEAN,
         c.seen => s = c.kept, ~c.seen => IsDeep(s, paths[n-1])
  PROVE  Resumes(level, elses, paths, s, n)
<1>1. PICK m \in 1 .. n - 1 : ForkAt(level, elses, paths, c, k, n - 1, m)
  BY DEF Fork
<1>2. CASE c.seen
  <2>1. PICK e \in m + 1 .. n - 1 : FirstElse(level, elses, e, m, k) /\ IsDeep(s, paths[e-1])
    BY <1>1, <1>2 DEF ForkAt
  <2>2. JumpsTo(level, elses, e - 1, n)
    BY <1>1, <2>1, JumpEnd DEF ForkAt
  <2>3. e - 1 \in 0 .. n - 1
    OBVIOUS
  <2> QED
    BY <2>1, <2>2, <2>3 DEF Resumes
<1>3. CASE ~c.seen
  <2>1. /\ level[m-1] = k - 1 /\ \A j \in m .. n - 1 : ~(j \in elses /\ level[j] = k)
    BY <1>1, <1>3 DEF ForkAt, OpenAt, NoElse
  <2>2. ASSUME NEW j \in 1 .. n - 1, j \in elses, Above(level, j, n - 1, level[j])
        PROVE  level[n] >= level[j]
    <3>1. level[j] \in Nat /\ n - 1 \in j .. n - 1
      OBVIOUS
    <3>2. level[j] <= k
      BY <2>2, <3>1 DEF Above
    <3>3. CASE level[j] = k
      <4>1. j < m
        BY <2>1, <2>2, <3>3
      <4>2. m - 1 \in j .. n - 1
        BY <4>1
      <4>3. level[m-1] >= level[j]
        BY <2>2, <4>2 DEF Above
      <4> QED
        BY <2>1, <3>3, <4>3
    <3> QED
      BY <3>1, <3>2, <3>3
  <2>3. \A j \in 1 .. n - 1 :
          j \in elses /\ Above(level, j, n - 1, level[j]) => level[n] >= level[j]
    BY <2>2
  <2>4. JumpsTo(level, elses, n - 1, n)
    BY <2>3, JumpNone
  <2>5. n - 1 \in 0 .. n - 1
    OBVIOUS
  <2> QED
    BY <1>3, <2>4, <2>5 DEF Resumes
<1> QED
  BY <1>2, <1>3

LEMMA LineLevel ==
  ASSUME clean.elided \in Seq(Line), NEW n \in 1 .. Len(clean.elided),
         NEW token, token = First(clean.elided[n])
  PROVE  /\ Level[n-1] \in Nat /\ Level[n] \in Nat
         /\ token = "#if" => Level[n] = Level[n-1] + 1
         /\ token = "#endif" => Level[n] = IF Level[n-1] = 0 THEN 0 ELSE Level[n-1] - 1
         /\ token \notin {"#if", "#endif"} => Level[n] = Level[n-1]
         /\ n \in ElseLines <=> token = "#else" /\ Level[n] > 0
<1>1. n - 1 \in 0 .. Len(clean.elided) /\ n \in 0 .. Len(clean.elided)
  OBVIOUS
<1>2. Level[n-1] \in Nat /\ Level[n] = Leveled(token, Level[n-1])
  BY <1>1, LevelSteps
<1>3. n \in ElseLines <=> token = "#else" /\ Level[n] > 0
  BY DEF ElseLines
<1> QED
  BY <1>2, <1>3, LeveledIs

\* What the directives do to the checkpoints and the stack.
LEMMA StartForks ==
  ASSUME clean.elided \in Seq(Line), NEW n \in 1 .. Len(clean.elided), NestingTypeOK,
         Forks(Level, ElseLines, Paths, pp, n - 1), IsDeep(stack, Paths[n-1])
  PROVE  /\ Resumes(Level, ElseLines, Paths, Restored(clean.elided[n]), n)
         /\ Forks(Level, ElseLines, Paths, Checkpoints(clean.elided[n]), n)
<1> DEFINE size == Len(clean.elided)
           text == clean.elided[n]
           token == First(text)
           level == Level
           elses == ElseLines
           paths == Paths
           deep == level[n-1]
           S == [before : Seq(BlockRecords), seen : BOOLEAN, kept : Seq(BlockRecords)]
           F(c, k, l) == Fork(level, elses, paths, c, k, l)
           G(s) == Resumes(level, elses, paths, s, n)
<1>1. size \in Nat /\ level \in [0 .. size -> Nat] /\ n \in 1 .. size /\ n \in Nat \ {0}
  BY LevelSteps
<1>2. /\ deep \in Nat /\ level[n] \in Nat
      /\ token = "#if" => level[n] = deep + 1
      /\ token = "#endif" => level[n] = IF deep = 0 THEN 0 ELSE deep - 1
      /\ token \notin {"#if", "#endif"} => level[n] = deep
      /\ n \in elses <=> token = "#else" /\ level[n] > 0
  BY LineLevel
<1>3. Len(pp) = deep /\ (\A k \in 1 .. Len(pp) : F(pp[k], k, n - 1)) /\ IsDeep(stack, paths[n-1])
  BY DEF Forks
<1>4. pp \in Seq(S) /\ (pp = <<>> <=> deep = 0)
  BY <1>2, <1>3, EmptySeq DEF NestingTypeOK
<1>5. Restored(text) =
        IF ~(pp # <<>> /\ (token = "#else" \/ (token = "#endif" /\ Last(pp).seen)))
          THEN stack
          ELSE IF token = "#else" THEN Last(pp).before ELSE Last(pp).kept
  BY DEF Restored, Restores
<1> DEFINE begun == [before |-> stack, seen |-> FALSE, kept |-> <<>>]
           ended == [before |-> Last(pp).before, seen |-> TRUE, kept |-> stack]
<1>6. Checkpoints(text) =
        CASE token = "#if" -> Append(pp, begun)
          [] token = "#else" /\ pp # <<>> /\ ~Last(pp).seen -> SetTop(pp, ended)
          [] token = "#endif" /\ pp # <<>> -> Front(pp)
          [] OTHER -> pp
  BY DEF Checkpoints
<1>7. /\ begun \in S /\ begun.before = stack /\ ~begun.seen
      /\ pp # <<>> => /\ Last(pp) = pp[deep] /\ Last(pp) \in S /\ deep \in 1 .. Len(pp)
                      /\ ended \in S /\ ended.before = Last(pp).before /\ ended.seen
                      /\ ended.kept = stack
  <2>1. stack \in Seq(BlockRecords) /\ <<>> \in Seq(BlockRecords)
    BY DEF NestingTypeOK
  <2>2. pp # <<>> => Last(pp) = pp[deep] /\ Last(pp) \in S /\ deep \in 1 .. Len(pp)
    <3>1. pp \in Seq(S) /\ Len(pp) = deep /\ deep \in Nat /\ (pp # <<>> => deep # 0)
      BY <1>2, <1>3, <1>4
    <3> HIDE DEF S, deep
    <3>2. pp # <<>> => Last(pp) \in S
      BY <3>1, LastIs
    <3> QED
      BY <3>1, <3>2 DEF Last
  <2> QED
    BY <2>1, <2>2
<1> HIDE DEF size, text, token, level, elses, paths, begun, ended, S
<1> SUFFICES G(Restored(text)) /\ Forks(level, elses, paths, Checkpoints(text), n)
  BY DEF level, elses, paths, text
<1>8. ASSUME deep # 0 PROVE pp # <<>> /\ F(Last(pp), deep, n - 1)
  BY <1>3, <1>4, <1>7, <1>8
<1>9. ASSUME n \notin elses, level[n] >= deep
      PROVE  G(stack)
  BY <1>1, <1>3, <1>9, ResumesBefore
<1>10. ASSUME level[n] >= deep, NEW p, Len(p) = Len(pp), level[n] = Len(p),
              \A k \in 1 .. Len(pp) - 1 : p[k] = pp[k],
              n \in elses => pp # <<>> /\ F(p[deep], deep, n),
              n \notin elses => p = pp
       PROVE  Forks(level, elses, paths, p, n)
  <2>1. ASSUME NEW k \in 1 .. Len(p) PROVE F(p[k], k, n)
    <3>1. CASE n \in elses /\ k = deep
      BY <1>10, <3>1
    <3>2. CASE n \in elses /\ k # deep
      <4>1. k \in 1 .. Len(pp) - 1 /\ k \in 1 .. Len(pp) /\ level[n] # k /\ level[n] >= k
        BY <1>2, <1>3, <1>10, <3>2
      <4>2. p[k] = pp[k] /\ F(pp[k], k, n - 1)
        BY <1>3, <1>10, <4>1
      <4> QED
        BY <1>1, <4>1, <4>2, ForkStays
    <3>3. CASE n \notin elses
      <4>1. k \in 1 .. Len(pp) /\ level[n] >= k
        BY <1>2, <1>3, <1>10
      <4>2. p[k] = pp[k] /\ F(pp[k], k, n - 1)
        BY <1>3, <1>10, <3>3, <4>1
      <4> QED
        BY <1>1, <3>3, <4>1, <4>2, ForkStays
    <3> QED
      BY <3>1, <3>2, <3>3
  <2> QED
    BY <1>10, <2>1 DEF Forks
<1>11. CASE token = "#if"
  <2>1. /\ n \notin elses /\ level[n] = deep + 1 /\ deep + 1 \in Nat
        /\ Restored(text) = stack /\ Checkpoints(text) = Append(pp, begun)
    BY <1>2, <1>5, <1>6, <1>11
  <2> DEFINE p == Append(pp, begun)
  <2>2. Len(p) = deep + 1 /\ p[deep + 1] = begun /\ \A k \in 1 .. deep : p[k] = pp[k]
    BY <1>3, <1>4, <1>7, AppendIs
  <2> HIDE DEF p
  <2>3. ASSUME NEW k \in 1 .. Len(p) PROVE F(p[k], k, n)
    <3>1. CASE k = deep + 1
      <4>1. level[n-1] = k - 1 /\ level[n] = k /\ k \in Nat
        BY <1>2, <2>1, <3>1 DEF deep
      <4> QED
        BY <1>1, <1>3, <1>7, <2>1, <2>2, <3>1, <4>1, ForkOpens
    <3>2. CASE k # deep + 1
      <4>1. k \in 1 .. deep /\ level[n] >= k
        BY <1>2, <2>1, <2>2, <3>2
      <4>2. p[k] = pp[k] /\ F(pp[k], k, n - 1)
        BY <1>3, <2>2, <4>1
      <4> QED
        BY <1>1, <2>1, <4>1, <4>2, ForkStays
    <3> QED
      BY <3>1, <3>2
  <2>4. Forks(level, elses, paths, p, n)
    BY <2>1, <2>2, <2>3 DEF Forks
  <2>5. G(stack)
    <3>1. level[n] >= deep
      BY <1>2, <2>1
    <3> QED
      BY <1>9, <2>1, <3>1
  <2> QED
    BY <2>1, <2>4, <2>5 DEF p
<1>12. CASE token = "#else" /\ pp # <<>>
  <2>1. deep # 0 /\ level[n] = deep /\ n \in elses /\ Restored(text) = Last(pp).before
    BY <1>2, <1>4, <1>5, <1>12
  <2>2. G(Last(pp).before)
    BY <1>1, <1>2, <1>8, <2>1, ResumesElse
  <2>3. CASE Last(pp).seen
    <3>1. Checkpoints(text) = pp
      BY <1>6, <1>12, <2>3
    <3>2. F(pp[deep], deep, n)
      BY <1>1, <1>2, <1>7, <1>8, <1>12, <2>1, <2>3, ForkStays
    <3>3. level[n] >= deep
      BY <1>2, <2>1
    <3>4. Forks(level, elses, paths, pp, n)
      BY <1>3, <1>10, <1>12, <2>1, <3>2, <3>3
    <3> QED
      BY <2>1, <2>2, <3>1, <3>4
  <2>4. CASE ~Last(pp).seen
    <3> DEFINE p == SetTop(pp, ended)
    <3>1. Checkpoints(text) = p
      BY <1>6, <1>12, <2>4
    <3>2. Len(p) = Len(pp) /\ p[deep] = ended /\ \A k \in 1 .. Len(pp) - 1 : p[k] = pp[k]
      <4>1. pp \in Seq(S) /\ pp # <<>> /\ ended \in S /\ Len(pp) = deep
        BY <1>3, <1>4, <1>7, <1>12
      <4>2. Topped(p, pp, ended, S)
        BY <4>1, TopPut
      <4> HIDE DEF p, deep
      <4>3. /\ Len(p) = Len(pp) /\ p[Len(pp)] = ended
            /\ \A k \in 1 .. Len(pp) - 1 : p[k] = pp[k]
        BY <4>2 DEF Topped
      <4> QED
        BY <4>1, <4>3
    <3> HIDE DEF p
    <3>3. F(ended, deep, n)
      <4>1. level[n-1] = deep
        BY DEF deep
      <4> QED
        BY <1>1, <1>2, <1>3, <1>7, <1>8, <1>12, <2>1, <2>4, <4>1, ForkSwitches
    <3>4. level[n] >= deep
      BY <1>2, <2>1
    <3>5. Forks(level, elses, paths, p, n)
      BY <1>3, <1>10, <1>12, <2>1, <3>2, <3>3, <3>4
    <3> QED
      BY <2>1, <2>2, <3>1, <3>5
  <2> QED
    BY <2>3, <2>4
<1>13. CASE token = "#endif" /\ pp # <<>>
  <2>1. /\ deep # 0 /\ level[n] = deep - 1 /\ n \notin elses /\ Checkpoints(text) = Front(pp)
        /\ Restored(text) = IF Last(pp).seen THEN Last(pp).kept ELSE stack
    BY <1>2, <1>4, <1>5, <1>6, <1>13
  <2>2. G(Restored(text))
    <3>1. level[n-1] = deep
      BY DEF deep
    <3>2. Last(pp).seen \in BOOLEAN
      BY <1>7, <1>13 DEF S
    <3> QED
      BY <1>1, <1>2, <1>3, <1>8, <2>1, <3>1, <3>2, ResumesEnd
  <2> DEFINE p == Front(pp)
  <2>3. Len(p) = deep - 1 /\ \A k \in 1 .. deep - 1 : p[k] = pp[k]
    BY <1>3, <1>4, <1>13, FrontIs
  <2> HIDE DEF p
  <2>4. ASSUME NEW k \in 1 .. Len(p) PROVE F(p[k], k, n)
    <3>1. k \in 1 .. Len(pp) /\ k \in 1 .. deep - 1 /\ level[n] >= k
      BY <1>2, <1>3, <2>1, <2>3
    <3>2. p[k] = pp[k] /\ F(pp[k], k, n - 1)
      BY <1>3, <2>3, <3>1
    <3> QED
      BY <1>1, <2>1, <3>1, <3>2, ForkStays
  <2>5. Forks(level, elses, paths, p, n)
    BY <2>1, <2>3, <2>4 DEF Forks
  <2> QED
    BY <2>1, <2>2, <2>5 DEF p
<1>14. CASE token # "#if" /\ (pp = <<>> \/ token \notin {"#else", "#endif"})
  <2>1. /\ level[n] = deep /\ n \notin elses /\ Restored(text) = stack /\ Checkpoints(text) = pp
    BY <1>2, <1>4, <1>5, <1>6, <1>14
  <2>2. level[n] >= deep
    BY <1>2, <2>1
  <2>3. G(stack)
    BY <1>9, <2>1, <2>2
  <2>4. Forks(level, elses, paths, pp, n)
    BY <1>3, <1>10, <2>1, <2>2
  <2> QED
    BY <2>1, <2>3, <2>4
<1>15. \/ token = "#if"
       \/ token = "#else" /\ pp # <<>>
       \/ token = "#endif" /\ pp # <<>>
       \/ token # "#if" /\ (pp = <<>> \/ token \notin {"#else", "#endif"})
  OBVIOUS
<1> QED
  BY <1>11, <1>12, <1>13, <1>14, <1>15

-----------------------------------------------------------------------------
(* The stack is as deep as the braces.                                       *)

\* Between two lines the checkpoints and the stack are those of the lines that
\* count; while a line is parsed, those of what was consumed.
DepthInv ==
    Reading =>
      IF step = "idle"
        THEN Forks(Level, ElseLines, Paths, pp, line - 1) /\ IsDeep(stack, Paths[line-1])
        ELSE Forks(Level, ElseLines, Paths, pp, line) /\ Consumes(Paths[line])

LEMMA SamePaths ==
  ASSUME UNCHANGED clean
  PROVE  Level' = Level /\ ElseLines' = ElseLines /\ Paths' = Paths
<1>1. Level' = Level
  BY DEF Level
<1>2. \A i, n, l : Inside(i, n, l)' <=> Inside(i, n, l)
  BY <1>1 DEF Inside
<1>3. \A i, n : OnPath(i, n)' <=> OnPath(i, n)
  BY <1>1, <1>2 DEF OnPath
<1>4. \A n : PathText(n)' = PathText(n)
  BY <1>3 DEF PathText
<1> QED
  BY <1>1, <1>4 DEF ElseLines, Paths

LEMMA NoDepth ==
  clean.elided \in Seq(Line) /\ pp = <<>> /\ stack = <<>>
    => Forks(Level, ElseLines, Paths, pp, 0) /\ IsDeep(stack, Paths[0])
<1> SUFFICES ASSUME clean.elided \in Seq(Line), pp = <<>>, stack = <<>>
             PROVE  Forks(Level, ElseLines, Paths, pp, 0) /\ IsDeep(stack, Paths[0])
  OBVIOUS
<1>1. Level[0] = 0 /\ Paths[0] = <<>>
  BY LevelSteps, PathsAre
<1>2. Len(pp) = 0 /\ 1 .. 0 = {}
  OBVIOUS
<1>3. Forks(Level, ElseLines, Paths, pp, 0)
  BY <1>1, <1>2 DEF Forks
<1>4. AllOpen(stack) /\ Len(stack) = 0
  BY DEF AllOpen
<1>5. IsDeep(stack, Paths[0])
  BY <1>1, <1>4, DepthEmpty DEF IsDeep
<1> QED
  BY <1>3, <1>5

LEMMA OpenDeep ==
  ASSUME ShapeInv', OpenFile
  PROVE  DepthInv'
<1>1. (clean.elided \in Seq(Line) /\ pp = <<>> /\ stack = <<>>
        => Forks(Level, ElseLines, Paths, pp, 0) /\ IsDeep(stack, Paths[0]))'
  BY NoDepth, PTL
<1>2. (clean.elided \in Seq(Line))'
  BY DEF ShapeInv, Copies
<1>3. (pp = <<>> /\ stack = <<>> /\ line = 1 /\ step = "idle")'
  BY DEF OpenFile, NestingReset
<1>4. (Forks(Level, ElseLines, Paths, pp, 0) /\ IsDeep(stack, Paths[0]))'
  BY <1>1, <1>2, <1>3
<1>5. line' - 1 = 0
  BY <1>3
<1> QED
  BY <1>3, <1>4, <1>5 DEF DepthInv

LEMMA StartDeep ==
  ASSUME ShapeInv, NestingTypeOK, InLines, DepthInv, StartUpdate(Elided),
         UNCHANGED <<clean, line>>
  PROVE  DepthInv'
<1>1. /\ clean.elided \in Seq(Line) /\ line \in 1 .. Len(clean.elided) /\ Elided \in Line
      /\ Elided = clean.elided[line]
  BY ElidedIs DEF ShapeInv, Copies, SameLength, Elided
<1>2. Forks(Level, ElseLines, Paths, pp, line - 1) /\ IsDeep(stack, Paths[line-1])
  BY DEF DepthInv, Reading, InLines, StartUpdate
<1>3. /\ Resumes(Level, ElseLines, Paths, Restored(Elided), line)
      /\ Forks(Level, ElseLines, Paths, Checkpoints(Elided), line)
  BY <1>1, <1>2, StartForks
<1>4. Restored(Elided) \in Seq(BlockRecords)
  <2>1. StacksOK(AsmKinds)
    BY AllBlocks DEF NestingTypeOK, StacksOK, CheckpointsIn
  <2> QED
    BY <2>1, AllBlocks, RestoredIs
<1>5. /\ stack' = CountParentheses(Restored(Elided), Elided) /\ pp' = Checkpoints(Elided)
      /\ todo' = Elided /\ step' = "heads" /\ step' # "idle" /\ step' # "done"
  BY DEF StartUpdate
<1>6. PICK m \in 0 .. line - 1 :
        JumpsTo(Level, ElseLines, m, line) /\ IsDeep(Restored(Elided), Paths[m])
  BY <1>3 DEF Resumes
<1>7. IsDeep(stack', Paths[m])
  BY <1>1, <1>4, <1>5, <1>6, CountKeeps, DeepKeeps
<1>8. Paths[line] = Paths[m] \o Elided /\ Paths[m] \in Line
  <2>1. Paths[line] = Paths[m] \o clean.elided[line]
    BY <1>1, <1>6, PathsAre
  <2>2. Paths \in [0 .. Len(clean.elided) -> Line]
    BY <1>1, PathsAre
  <2>3. m \in 0 .. Len(clean.elided)
    BY <1>1
  <2> QED
    BY <1>1, <2>1, <2>2, <2>3
<1>9. Level' = Level /\ ElseLines' = ElseLines /\ Paths' = Paths
  BY SamePaths
<1>10. Consumes(Paths[line])'
  <2>1. Paths'[line'] = Paths[m] \o todo'
    BY <1>5, <1>8, <1>9
  <2> QED
    BY <1>5, <1>7, <1>8, <2>1 DEF Consumes
<1>11. Forks(Level, ElseLines, Paths, pp, line)'
  BY <1>3, <1>5, <1>9 DEF Forks
<1> QED
  BY <1>5, <1>10, <1>11 DEF DepthInv

LEMMA StepDeep ==
  ASSUME ShapeInv, NestingTypeOK, InLines, DepthInv, UNCHANGED <<clean, line>>,
         \/ Namespace(line)
         \/ ClassHead(line, IndentLevel(Raw), FromHere) \/ Brace(line) \/ EndUpdate
  PROVE  DepthInv'
<1> DEFINE text == Paths[line]
<1>1. text \in Line
  BY ElidedIs, PathsAre DEF ShapeInv, Copies, SameLength
<1>2. step # "idle"
  BY DEF Namespace, ClassHead, Brace, EndUpdate
<1>3. Forks(Level, ElseLines, Paths, pp, line) /\ Consumes(text)
  BY <1>2 DEF DepthInv, Reading, InLines
<1> HIDE DEF text
<1>4. ASSUME NEW all \in Line, all = text
      PROVE  Consumes(all)' /\ UNCHANGED pp /\ step' # "idle"
  BY <1>3, <1>4, UpdateDeep
<1>5. Level' = Level /\ ElseLines' = ElseLines /\ Paths' = Paths /\ Paths'[line'] = text
  BY SamePaths DEF text
<1>6. Consumes(Paths[line])'
  <2>1. PICK all \in Line : all = text
    BY <1>1
  <2> QED
    BY <1>4, <1>5, <2>1 DEF Consumes
<1>7. Forks(Level, ElseLines, Paths, pp, line)'
  BY <1>1, <1>3, <1>4, <1>5 DEF Forks
<1> QED
  BY <1>1, <1>4, <1>6, <1>7 DEF DepthInv

LEMMA CheckDeep ==
  ASSUME ShapeInv, DepthInv, CheckLine
  PROVE  DepthInv'
<1>1. /\ step = "done" /\ step # "idle" /\ step' = "idle" /\ line' = line + 1 /\ phase = "lines"
      /\ UNCHANGED <<stack, pp, clean>>
  BY DEF CheckLine, InLines
<1>2. Forks(Level, ElseLines, Paths, pp, line) /\ Consumes(Paths[line])
  BY <1>1 DEF DepthInv, Reading
<1>3. line' - 1 = line
  BY <1>1 DEF ShapeInv
<1>4. Level' = Level /\ ElseLines' = ElseLines /\ Paths' = Paths
  BY <1>1, SamePaths
<1>5. Forks(Level, ElseLines, Paths, pp, line - 1)'
  BY <1>1, <1>2, <1>3, <1>4 DEF Forks
<1>6. IsDeep(stack, Paths[line])
  BY <1>1, <1>2 DEF Consumes
<1>7. IsDeep(stack, Paths[line-1])'
  BY <1>1, <1>3, <1>4, <1>6
<1> QED
  BY <1>1, <1>5, <1>7 DEF DepthInv

LEMMA DepthStays ==
  ASSUME DepthInv, UNCHANGED <<nestingVars, clean, line>>, Reading' => Reading
  PROVE  DepthInv'
<1>1. UNCHANGED <<stack, pp, todo, step, clean, line>>
  BY DEF nestingVars
<1>2. Level' = Level /\ ElseLines' = ElseLines /\ Paths' = Paths
  BY <1>1, SamePaths
<1>3. \A n : Forks(Level, ElseLines, Paths, pp, n)' <=> Forks(Level, ElseLines, Paths, pp, n)
  BY <1>1, <1>2 DEF Forks
<1>4. Consumes(Paths[line])' <=> Consumes(Paths[line])
  BY <1>1, <1>2 DEF Consumes
<1>5. Forks(Level, ElseLines, Paths, pp, line)' <=> Forks(Level, ElseLines, Paths, pp, line)
  BY <1>1, <1>2 DEF Forks
<1>6. Forks(Level, ElseLines, Paths, pp, line - 1)' <=> Forks(Level, ElseLines, Paths, pp, line - 1)
  BY <1>1, <1>2 DEF Forks
<1>7. IsDeep(stack, Paths[line-1])' <=> IsDeep(stack, Paths[line-1])
  BY <1>1, <1>2
<1> QED
  BY <1>1, <1>4, <1>5, <1>6, <1>7, Zenon DEF DepthInv

\* How many blocks are open.
LEMMA OpenBlocks ==
  ASSUME NEW s \in Seq(BlockRecords), NEW text \in Line, IsDeep(s, text), HeadsComplete(text)
  PROVE  Cardinality({i \in DOMAIN s : s[i].open}) = Depth(text)
<1> DEFINE depth == Depth(text)
<1>1. depth \in Nat /\ DOMAIN s = 1 .. Len(s) /\ Len(s) \in Nat
  BY DepthIsNat
<1>2. {i \in DOMAIN s : s[i].open} = 1 .. depth
  <2>1. CASE AllOpen(s) /\ Len(s) = depth
    BY <1>1, <2>1 DEF AllOpen
  <2>2. CASE Heading(s) /\ Len(s) = depth + 1
    <3>1. /\ ~s[Len(s)].open /\ Len(s) - 1 = depth
          /\ \A i \in 1 .. Len(s) - 1 : s[i].open
      BY <1>1, <2>2 DEF Heading
    <3>2. \A i : i \in 1 .. Len(s) <=> i \in 1 .. depth \/ i = Len(s)
      BY <1>1, <3>1
    <3>3. Len(s) \notin 1 .. depth
      BY <1>1, <2>2
    <3> QED
      BY <1>1, <3>1, <3>2, <3>3
  <2> QED
    BY <2>1, <2>2 DEF IsDeep
<1>3. Cardinality(1 .. depth) = depth
  <2>1. 1 \in Int /\ depth \in Int /\ (IF 1 > depth THEN 0 ELSE depth - 1 + 1) = depth
    BY <1>1
  <2> HIDE DEF depth
  <2> QED
    BY <2>1, FS_Interval
<1> QED
  BY <1>2, <1>3

\* What #if, #else and #endif leave of the stack, and what Update makes of the
\* heads of classes and namespaces, of macros and of inline assembly, has as
\* many blocks as braces are open on the way through the directives
\* (NestingState.Update and UpdatePreprocessor).
THEOREM DepthFollowsBraces == Spec => []DepthIsBraces
<1>1. Init => DepthInv
  BY DEF Init, LintInit, DepthInv, Reading
<1>2. ShapeInv /\ ShapeInv' /\ TypeInv /\ DepthInv /\ [Next]_vars => DepthInv'
  <2> SUFFICES ASSUME ShapeInv, ShapeInv', TypeInv, DepthInv, [Next]_vars PROVE DepthInv'
    OBVIOUS
  <2>1. NestingTypeOK
    BY DEF TypeInv
  <2>2. CASE RunLint
    <3>1. LintNext
      BY <2>2 DEF RunLint
    <3>2. CASE ~Reading'
      BY <3>2 DEF DepthInv
    <3>3. CASE OpenFile
      BY <3>3, OpenDeep
    <3>4. CASE (Ifndef \/ Endif) /\ Reading /\ UNCHANGED <<nestingVars, clean, line>>
      BY <3>4, DepthStays
    <3>5. CASE InLines /\ StartUpdate(Elided) /\ UNCHANGED <<clean, line>>
      BY <2>1, <3>5, StartDeep
    <3>6. CASE /\ InLines /\ UNCHANGED <<clean, line>>
               /\ \/ Namespace(line)
                  \/ ClassHead(line, IndentLevel(Raw), FromHere) \/ Brace(line) \/ EndUpdate
      BY <2>1, <3>6, StepDeep
    <3>7. CASE CheckLine
      BY <3>7, CheckDeep
    <3> QED
      BY <3>1, <3>2, <3>3, <3>4, <3>5, <3>6, <3>7, ReadingStep
  <2>3. CASE UNCHANGED lintVars
    <3>1. UNCHANGED <<nestingVars, clean, line>> /\ (Reading' => Reading)
      BY <2>3 DEF lintVars, driverVars, Reading
    <3> QED
      BY <3>1, DepthStays
  <2> QED
    BY <2>2, <2>3 DEF Next, RunUnit, EndUnits, SystemTests, Cppcheck, EndLint, vars
<1>3. ShapeInv /\ TypeInv /\ DepthInv => DepthIsBraces
  <2> SUFFICES ASSUME ShapeInv, TypeInv, DepthInv, BetweenLines,
                      HeadsComplete(PathText(line - 1))
               PROVE  Cardinality({i \in DOMAIN stack : stack[i].open}) = Depth(PathText(line - 1))
    BY DEF DepthIsBraces
  <2>1. IsDeep(stack, Paths[line-1])
    BY DEF DepthInv, BetweenLines, Reading
  <2>2. clean.elided \in Seq(Line) /\ line - 1 \in 0 .. Len(clean.elided)
    BY DEF ShapeInv, Copies, SameLength
  <2>3. Paths[line-1] = PathText(line - 1) /\ PathText(line - 1) \in Line
    <3>1. Paths[line-1] = PathText(line - 1)
      BY <2>2 DEF Paths
    <3> QED
      BY <2>2, <3>1, PathsAre
  <2> QED
    BY <2>1, <2>3, OpenBlocks DEF TypeInv, NestingTypeOK
<1> QED
  BY <1>1, <1>2, <1>3, ShapeInvariant, TypeInvariant, PTL DEF Spec

-----------------------------------------------------------------------------
(* Headers that are included again                                           *)

\* An entry of the q-th list.
Has(lists, q, e) == q \in 1 .. Len(lists) /\ e \in Range(lists[q])

\* What a list in the place of the last one leaves of the entries, and what
\* one after it.
Replaces(new, lists, list) ==
    /\ Len(new) = Len(lists)
    /\ \A q, e : Has(new, q, e) <=>
                   \/ q # Len(lists) /\ Has(lists, q, e)
                   \/ q = Len(lists) /\ e \in Range(list)
Opens(new, lists) ==
    /\ Len(new) = Len(lists) + 1
    /\ \A q, e : Has(new, q, e) <=> Has(lists, q, e)

LEMMA LastReplaced ==
  ASSUME NEW E, NEW lists \in Seq(E), lists # <<>>, NEW list \in E
  PROVE  Replaces(Append(Front(lists), list), lists, list)
<1> DEFINE n == Len(lists)
           front == Front(lists)
           new == Append(front, list)
<1>1. n \in Nat \ {0} /\ front \in Seq(E) /\ Len(front) = n - 1
      /\ \A q \in 1 .. n - 1 : front[q] = lists[q]
  BY EmptySeq, FrontIs
<1> HIDE DEF n, front
<1>2. new \in Seq(E) /\ Len(new) = n /\ new[n] = list /\ \A q \in 1 .. n - 1 : new[q] = front[q]
  <2>1. /\ new \in Seq(E) /\ Len(new) = Len(front) + 1 /\ new[Len(front) + 1] = list
        /\ \A q \in 1 .. Len(front) : new[q] = front[q]
    BY <1>1, AppendProperties
  <2> QED
    BY <1>1, <2>1
<1> HIDE DEF new
<1>3. \A q : q \in 1 .. n <=> q = n \/ q \in 1 .. n - 1
  BY <1>1
<1>4. n \notin 1 .. n - 1
  BY <1>1
<1>5. \A q, e : Has(new, q, e) <=>
                  \/ q # n /\ Has(lists, q, e)
                  \/ q = n /\ e \in Range(list)
  BY <1>1, <1>2, <1>3, <1>4 DEF Has, n
<1> QED
  BY <1>2, <1>5 DEF Replaces, new, front, n

LEMMA ListOpened ==
  ASSUME NEW E, NEW lists \in Seq(E), NEW none \in E, none = <<>>
  PROVE  Opens(Append(lists, none), lists)
<1> DEFINE n == Len(lists)
           new == Append(lists, none)
<1>1. n \in Nat /\ Len(new) = n + 1 /\ new[n+1] = none /\ \A q \in 1 .. n : new[q] = lists[q]
  BY AppendProperties, LenProperties
<1>2. Range(none) = {}
  BY DEF Range
<1> HIDE DEF new, n
<1>3. \A q : q \in 1 .. n + 1 <=> q = n + 1 \/ q \in 1 .. n
  BY <1>1
<1>4. \A q, e : Has(new, q, e) <=> Has(lists, q, e)
  BY <1>1, <1>2, <1>3 DEF Has, n
<1> QED
  BY <1>1, <1>4 DEF Opens, new, n

\* Entries are found where they are looked for.
LEMMA FoundIn ==
  ASSUME ListsOK, NEW name
  PROVE  FindHeader(name) <=> \E q, e : Has(includeList, q, e) /\ e.name = name
<1>1. DOMAIN includeList = 1 .. Len(includeList)
  BY DEF ListsOK
<1> QED
  BY <1>1 DEF FindHeader, Has, Range

IfBetween(i, n) == \E k \in i + 1 .. n : First(clean.elided[k]) = "#if"

\* What the e that is in the q-th of as many lists says of the n lines that were
\* checked: it is the header of a line, since which there was an #if if there is
\* a list after its own, and no #else that could have cleared that.
Traced(size, q, e, n) ==
    /\ e.line \in 1 .. n /\ IncludesAt(e.line) /\ e.name = Name(HeaderAt(e.line))
    /\ q = size <=> ~IfBetween(e.line, n)
    /\ \A j \in e.line + 1 .. n : First(clean.elided[j]) = "#else" => IfBetween(e.line, j)
Traces(lists, n) == \A q, e : Has(lists, q, e) => Traced(Len(lists), q, e, n)

\* The lines with a header that is recorded, unless it was.
IsDue(n) == IncludesAt(n) /\ ~Foreign(File, HeaderAt(n)) /\ ~HeaderAt(n).thirdParty
Listed(lists, name, n) == \E q, e : Has(lists, q, e) /\ e.name = name /\ e.line <= n
Headers(lists, n) ==
    \A i \in 1 .. n : IsDue(i) /\ Level[i] = 0 => Listed(lists, Name(HeaderAt(i)), i)

LEMMA LinesTo ==
  ASSUME NEW n \in Nat \ {0}, NEW i \in 1 .. n - 1
  PROVE  /\ i \in Nat /\ i \in 1 .. n
         /\ \A k : k \in i + 1 .. n <=> k = n \/ k \in i + 1 .. n - 1
OBVIOUS

LEMMA IfNext ==
  ASSUME NEW n \in Nat \ {0}, NEW i \in 1 .. n - 1
  PROVE  IfBetween(i, n) <=> IfBetween(i, n - 1) \/ First(clean.elided[n]) = "#if"
BY LinesTo DEF IfBetween

\* An entry that is there before and after a line.
LEMMA TracedOn ==
  ASSUME NEW n \in Nat \ {0}, NEW size, NEW more, NEW q, NEW e, Traced(size, q, e, n - 1),
         First(clean.elided[n]) = "#else" => IfBetween(e.line, n - 1),
         q = more <=> ~IfBetween(e.line, n - 1) /\ First(clean.elided[n]) # "#if"
  PROVE  Traced(more, q, e, n)
<1>1. e.line \in 1 .. n - 1 /\ IncludesAt(e.line) /\ e.name = Name(HeaderAt(e.line))
  BY DEF Traced
<1>2. IfBetween(e.line, n) <=> IfBetween(e.line, n - 1) \/ First(clean.elided[n]) = "#if"
  BY <1>1, IfNext
<1>3. e.line \in 1 .. n
  BY <1>1, LinesTo
<1>4. ASSUME NEW j \in e.line + 1 .. n, First(clean.elided[j]) = "#else"
      PROVE  IfBetween(e.line, j)
  <2>1. CASE j = n
    BY <1>2, <1>4, <2>1
  <2>2. CASE j \in e.line + 1 .. n - 1
    BY <1>4, <2>2 DEF Traced
  <2> QED
    BY <1>1, <1>4, <2>1, <2>2, LinesTo
<1> QED
  BY <1>1, <1>2, <1>3, <1>4 DEF Traced

\* The entry of the line itself.
LEMMA TracedNew ==
  ASSUME NEW n \in Nat \ {0}, NEW size, NEW e, e.line = n, e.name = Name(HeaderAt(n)),
         IncludesAt(n)
  PROVE  Traced(size, size, e, n)
<1>1. n \in 1 .. n /\ n + 1 .. n = {}
  OBVIOUS
<1> QED
  BY <1>1 DEF Traced, IfBetween

\* Outside of all #if until the next one.
LEMMA LevelZero ==
  ASSUME clean.elided \in Seq(Line), NEW n \in 0 .. Len(clean.elided), NEW i \in 0 .. n,
         Level[i] = 0, ~IfBetween(i, n)
  PROVE  Level[n] = 0
<1> DEFINE P == {k \in 0 .. n : i <= k => Level[k] = 0}
<1>1. 0 \in P
  <2>1. i <= 0 => i = 0
    OBVIOUS
  <2> QED
    BY <2>1
<1>2. ASSUME NEW k \in 1 .. n, k - 1 \in P
      PROVE  k \in P
  <2>1. k \in 0 .. n /\ k \in 1 .. Len(clean.elided)
    OBVIOUS
  <2>2. CASE i <= k - 1
    <3>1. Level[k-1] = 0 /\ k \in i + 1 .. n
      BY <1>2, <2>2
    <3>2. First(clean.elided[k]) # "#if"
      BY <3>1 DEF IfBetween
    <3>3. Level[k] = 0
      BY <2>1, <3>1, <3>2, LineLevel
    <3> QED
      BY <2>1, <3>3
  <2>3. CASE i = k
    BY <2>1, <2>3
  <2>4. i <= k => i <= k - 1 \/ i = k
    OBVIOUS
  <2> QED
    BY <2>1, <2>2, <2>3, <2>4
<1> HIDE DEF P
<1>3. 0 .. n \subseteq P
  <2>1. n \in Nat
    OBVIOUS
  <2> QED
    BY <1>1, <1>2, <2>1, CountInduction
<1>4. n \in P /\ i <= n
  BY <1>3
<1> QED
  BY <1>4 DEF P

\* What the check of a line does to the lists.
LEMMA CheckedLists ==
  ASSUME CheckLine, ~InAsmBlock(stack)
  PROVE  \/ /\ IncludesAt(line) /\ First(clean.elided[line]) \notin Directives
            /\ Records(File, HeaderAt(line))
            /\ includeList' = Append(Front(includeList),
                 Append(Last(includeList), [name |-> Name(HeaderAt(line)), line |-> line]))
         \/ /\ ~(IncludesAt(line) /\ Records(File, HeaderAt(line)))
            /\ First(clean.elided[line]) \notin Directives /\ includeList' = includeList
         \/ /\ ~IncludesAt(line)
            /\ First(clean.elided[line]) \in Directives
            /\ includeList' = ResetLists(First(clean.elided[line]))
<1>1. IncludesHeader(Elided) => First(clean.elided[line]) \notin Directives
  BY DEF IncludesHeader, IsInclude, Elided, Directives
<1>2. IncludesAt(line) <=> IncludesHeader(Elided) /\ IncludesHeader(clean.lines[line])
  BY DEF IncludesAt, Elided
<1>3. CASE IncludesHeader(Elided) /\ Include(clean.lines[line], line, File)
  <2>1. CASE IncludesHeader(clean.lines[line]) /\ Records(File, HeaderAt(line))
    BY <1>1, <1>2, <1>3, <2>1 DEF Include, HeaderAt
  <2>2. CASE ~(IncludesHeader(clean.lines[line]) /\ Records(File, HeaderAt(line)))
    BY <1>1, <1>2, <1>3, <2>2 DEF Include, HeaderAt, includeVars
  <2> QED
    BY <2>1, <2>2
<1>4. CASE First(Elided) \in Directives /\ ResetSection(First(Elided))
  BY <1>1, <1>2, <1>4 DEF ResetSection, Elided
<1>5. CASE ~IncludesHeader(Elided) /\ First(Elided) \notin Directives /\ UNCHANGED includeVars
  BY <1>2, <1>5 DEF includeVars, Elided
<1> QED
  BY <1>3, <1>4, <1>5 DEF CheckLine

Adds(new, lists, entry) ==
    /\ Len(new) = Len(lists)
    /\ \A q, e : Has(new, q, e) <=> Has(lists, q, e) \/ (q = Len(lists) /\ e = entry)

LEMMA EntryAdded ==
  ASSUME ListsOK, NEW name, NEW n \in Nat, NEW new,
         new = Append(Front(includeList),
                      Append(Last(includeList), [name |-> name, line |-> n]))
  PROVE  Adds(new, includeList, [name |-> name, line |-> n])
<1>1. PICK S : includeList \in Seq(Entries(S))
  BY DEF ListsOK
<1> DEFINE T == S \cup {name}
           E == Entries(T)
           entry == [name |-> name, line |-> n]
           last == Last(includeList)
           list == Append(last, entry)
<1>2. includeList \in Seq(E) /\ includeList # <<>>
  <2>1. [name : S, line : Nat] \subseteq [name : T, line : Nat]
    OBVIOUS
  <2>2. Entries(S) \subseteq E
    BY <2>1, SeqMonotonic DEF Entries
  <2> QED
    BY <1>1, <2>2, SeqMonotonic DEF ListsOK
<1>3. entry \in [name : T, line : Nat]
  OBVIOUS
<1>4. last \in E
  BY <1>2, LastIs
<1>5. last = includeList[Len(includeList)] /\ Len(includeList) \in 1 .. Len(includeList)
  <2>1. Len(includeList) \in 1 .. Len(includeList)
    BY <1>2, EmptySeq
  <2> QED
    BY <2>1 DEF Last
<1> HIDE DEF entry, last
<1>6. list \in E /\ Range(list) = Range(last) \cup {entry}
  <2> DEFINE F == [name : T, line : Nat]
  <2>1. last \in Seq(F) /\ entry \in F
    BY <1>3, <1>4 DEF Entries
  <2> HIDE DEF F
  <2>2. /\ list \in Seq(F) /\ Len(list) = Len(last) + 1 /\ list[Len(last) + 1] = entry
        /\ Len(last) \in Nat /\ \A i \in 1 .. Len(last) : list[i] = last[i]
    BY <2>1, AppendProperties, LenProperties
  <2>3. Range(list) = {list[i] : i \in 1 .. Len(list)} /\ Range(last) = {last[i] : i \in 1 .. Len(last)}
    BY <2>1, <2>2, RangeIs
  <2> HIDE DEF list
  <2>4. 1 .. Len(list) = (1 .. Len(last)) \cup {Len(last) + 1}
    BY <2>2
  <2>5. Range(list) = Range(last) \cup {entry}
    BY <2>2, <2>3, <2>4
  <2>6. list \in E
    BY <2>2 DEF F, Entries
  <2> QED
    BY <2>5, <2>6
<1> HIDE DEF list, E
<1>7. new = Append(Front(includeList), list)
  BY DEF list, last, entry
<1>8. Replaces(new, includeList, list)
  BY <1>2, <1>6, <1>7, LastReplaced
<1>9. \A e : Has(includeList, Len(includeList), e) <=> e \in Range(last)
  BY <1>5 DEF Has
<1> QED
  BY <1>6, <1>8, <1>9 DEF Replaces, Adds, entry

\* What the directives leave of the entries.
LEMMA EntriesReset ==
  ASSUME ListsOK, NEW directive \in Directives, NEW new, new = ResetLists(directive)
  PROVE  /\ directive = "#if" =>
              /\ Len(new) = Len(includeList) + 1
              /\ \A q, e : Has(new, q, e) <=> Has(includeList, q, e)
         /\ directive = "#else" =>
              /\ Len(new) = Len(includeList)
              /\ \A q, e : Has(new, q, e) <=> q # Len(includeList) /\ Has(includeList, q, e)
         /\ directive = "#endif" => new = includeList
<1>1. PICK S : includeList \in Seq(Entries(S))
  BY DEF ListsOK
<1> DEFINE E == Entries(S)
           none == <<>>
<1>2. none \in E /\ Range(none) = {} /\ includeList \in Seq(E) /\ includeList # <<>>
  BY <1>1 DEF Entries, Range, ListsOK
<1>3. /\ directive = "#if" => new = Append(includeList, none)
      /\ directive = "#else" => new = Append(Front(includeList), none)
      /\ directive = "#endif" => new = includeList
  BY DEF ResetLists
<1>4. none = <<>>
  OBVIOUS
<1> HIDE DEF E, none
<1>5. CASE directive = "#if"
  <2>1. Opens(new, includeList)
    BY <1>2, <1>3, <1>4, <1>5, ListOpened
  <2> QED
    BY <1>5, <2>1 DEF Opens
<1>6. CASE directive = "#else"
  <2>1. Replaces(new, includeList, none)
    BY <1>2, <1>3, <1>6, LastReplaced
  <2> QED
    BY <1>2, <1>6, <2>1 DEF Replaces
<1>7. CASE directive = "#endif"
  BY <1>3, <1>7
<1> QED
  BY <1>5, <1>6, <1>7 DEF Directives

EntriesInv == Reading /\ ~HasAssembly(line - 1) => Traces(includeList, line - 1)
HeadersInv == Reading /\ ~HasAssembly(line - 1) /\ Balanced => Headers(includeList, line - 1)

LEMMA CheckEntries ==
  ASSUME ShapeInv, ListsOK, CheckLine, ~InAsmBlock(stack), Traces(includeList, line - 1)
  PROVE  Traces(includeList', line)
<1> DEFINE token == First(clean.elided[line])
           size == Len(includeList)
<1>1. line \in Nat \ {0} /\ size \in Nat
  BY ElidedIs DEF CheckLine, ListsOK
<1>2. \A q, e : Has(includeList, q, e) =>
        Traced(size, q, e, line - 1) /\ (q = size <=> ~IfBetween(e.line, line - 1)) /\ q # size + 1
  <2>1. \A q : q \in 1 .. size => q # size + 1
    BY <1>1
  <2> QED
    BY <2>1 DEF Traces, Traced, Has
<1>3. CASE /\ IncludesAt(line) /\ token \notin Directives
           /\ includeList' = Append(Front(includeList),
                Append(Last(includeList), [name |-> Name(HeaderAt(line)), line |-> line]))
  <2> DEFINE entry == [name |-> Name(HeaderAt(line)), line |-> line]
  <2>1. Adds(includeList', includeList, entry)
    <3>1. PICK name : name = Name(HeaderAt(line))
      OBVIOUS
    <3>2. PICK new : new = includeList'
      OBVIOUS
    <3> QED
      BY <1>1, <1>3, <3>1, <3>2, EntryAdded
  <2>2. entry.line = line /\ entry.name = Name(HeaderAt(line))
    OBVIOUS
  <2> HIDE DEF entry
  <2>3. Traced(size, size, entry, line)
    BY <1>1, <1>3, <2>2, TracedNew
  <2>4. token # "#if" /\ token # "#else"
    BY <1>3 DEF Directives
  <2>5. ASSUME NEW q, NEW e, Has(includeList, q, e)
        PROVE  Traced(size, q, e, line)
    BY <1>1, <1>2, <2>4, <2>5, TracedOn
  <2> QED
    BY <2>1, <2>3, <2>5 DEF Traces, Adds
<1>4. CASE token \notin Directives /\ includeList' = includeList
  <2>1. token # "#if" /\ token # "#else"
    BY <1>4 DEF Directives
  <2>2. ASSUME NEW q, NEW e, Has(includeList, q, e)
        PROVE  Traced(size, q, e, line)
    BY <1>1, <1>2, <2>1, <2>2, TracedOn
  <2> QED
    BY <1>4, <2>2 DEF Traces
<1>5. CASE token \in Directives /\ includeList' = ResetLists(token)
  <2>1. PICK directive \in Directives : directive = token
    BY <1>5
  <2>2. PICK new : new = includeList'
    OBVIOUS
  <2>3. CASE token = "#if"
    <3>1. Len(new) = size + 1 /\ \A q, e : Has(new, q, e) <=> Has(includeList, q, e)
      BY <1>5, <2>1, <2>2, <2>3, EntriesReset
    <3>2. ASSUME NEW q, NEW e, Has(includeList, q, e)
          PROVE  Traced(size + 1, q, e, line)
      <4>1. token # "#else"
        BY <2>3
      <4> QED
        BY <1>1, <1>2, <2>3, <3>2, <4>1, TracedOn
    <3> QED
      BY <2>2, <3>1, <3>2 DEF Traces
  <2>4. CASE token = "#else"
    <3>1. /\ Len(new) = size
          /\ \A q, e : Has(new, q, e) <=> q # size /\ Has(includeList, q, e)
      BY <1>5, <2>1, <2>2, <2>4, EntriesReset
    <3>2. ASSUME NEW q, NEW e, Has(includeList, q, e), q # size
          PROVE  Traced(size, q, e, line)
      <4>1. token # "#if"
        BY <2>4
      <4> QED
        BY <1>1, <1>2, <2>4, <3>2, <4>1, TracedOn
    <3> QED
      BY <2>2, <3>1, <3>2 DEF Traces
  <2>5. CASE token = "#endif"
    <3>1. includeList' = includeList
      BY <1>5, <2>1, <2>2, <2>5, EntriesReset
    <3>2. ASSUME NEW q, NEW e, Has(includeList, q, e)
          PROVE  Traced(size, q, e, line)
      <4>1. token # "#if" /\ token # "#else"
        BY <2>5
      <4> QED
        BY <1>1, <1>2, <3>2, <4>1, TracedOn
    <3> QED
      BY <3>1, <3>2 DEF Traces
  <2> QED
    BY <1>5, <2>3, <2>4, <2>5 DEF Directives
<1> QED
  BY <1>3, <1>4, <1>5, CheckedLists

LEMMA CheckHeaders ==
  ASSUME ShapeInv, ListsOK, CheckLine, ~InAsmBlock(stack), Traces(includeList, line - 1),
         Headers(includeList, line - 1),
         First(clean.elided[line]) = "#else" => Level[line-1] > 0
  PROVE  Headers(includeList', line)
<1> DEFINE token == First(clean.elided[line])
           size == Len(includeList)
<1>1. /\ line \in Nat \ {0} /\ line - 1 \in 0 .. Len(clean.elided) /\ clean.elided \in Seq(Line)
      /\ line \in 1 .. line /\ \A i : i \in 1 .. line <=> i = line \/ i \in 1 .. line - 1
  BY ElidedIs DEF CheckLine, ShapeInv, Copies, SameLength
<1>2. ASSUME NEW i \in 1 .. line - 1, IsDue(i), Level[i] = 0
      PROVE  \E q, e : /\ Has(includeList, q, e) /\ e.name = Name(HeaderAt(i)) /\ e.line <= i
                       /\ token = "#else" => q # size
  <2>1. PICK q, e : Has(includeList, q, e) /\ e.name = Name(HeaderAt(i)) /\ e.line <= i
    BY <1>2 DEF Headers, Listed
  <2>2. ASSUME token = "#else", q = size
        PROVE  FALSE
    <3>1. e.line \in 1 .. line - 1 /\ ~IfBetween(e.line, line - 1)
      BY <2>1, <2>2 DEF Traces, Traced
    <3>2. ~IfBetween(i, line - 1)
      <4>1. \A k \in i + 1 .. line - 1 : k \in e.line + 1 .. line - 1
        BY <1>1, <2>1, <3>1
      <4> QED
        BY <3>1, <4>1 DEF IfBetween
    <3>3. Level[line-1] = 0
      <4>1. i \in 0 .. line - 1
        BY <1>1
      <4> QED
        BY <1>1, <1>2, <3>2, <4>1, LevelZero
    <3> QED
      BY <2>2, <3>3
  <2> QED
    BY <2>1, <2>2
<1>3. ASSUME \A q, e : Has(includeList, q, e) =>
                 Has(includeList', q, e) \/ (token = "#else" /\ q = size)
      PROVE  \A i \in 1 .. line - 1 :
               IsDue(i) /\ Level[i] = 0 => Listed(includeList', Name(HeaderAt(i)), i)
  BY <1>2, <1>3 DEF Listed
<1>4. ~IncludesAt(line) => ~IsDue(line)
  BY DEF IsDue
<1>5. CASE /\ IncludesAt(line) /\ token \notin Directives
           /\ includeList' = Append(Front(includeList),
                Append(Last(includeList), [name |-> Name(HeaderAt(line)), line |-> line]))
  <2> DEFINE entry == [name |-> Name(HeaderAt(line)), line |-> line]
  <2>1. Adds(includeList', includeList, entry)
    <3>1. PICK name : name = Name(HeaderAt(line))
      OBVIOUS
    <3>2. PICK new : new = includeList'
      OBVIOUS
    <3>3. line \in Nat
      BY <1>1
    <3> QED
      BY <1>5, <3>1, <3>2, <3>3, EntryAdded
  <2>2. entry.line <= line /\ entry.name = Name(HeaderAt(line))
    BY <1>1
  <2> HIDE DEF entry
  <2>3. Listed(includeList', Name(HeaderAt(line)), line)
    BY <2>1, <2>2 DEF Listed, Adds
  <2> QED
    BY <1>1, <1>3, <2>1, <2>3 DEF Headers, Adds
<1>6. CASE /\ ~(IncludesAt(line) /\ Records(File, HeaderAt(line)))
           /\ token \notin Directives /\ includeList' = includeList
  <2>1. ASSUME IsDue(line)
        PROVE  Listed(includeList', Name(HeaderAt(line)), line)
    <3>1. FindHeader(Name(HeaderAt(line)))
      BY <1>6, <2>1 DEF IsDue, Records
    <3>2. PICK name : name = Name(HeaderAt(line))
      OBVIOUS
    <3>3. PICK q, e : Has(includeList, q, e) /\ e.name = name
      BY <3>1, <3>2, FoundIn
    <3>4. e.line \in 1 .. line - 1
      BY <3>3 DEF Traces, Traced
    <3>5. e.line <= line
      BY <1>1, <3>4
    <3> QED
      BY <1>6, <3>2, <3>3, <3>5 DEF Listed
  <2> QED
    BY <1>1, <1>3, <1>6, <2>1 DEF Headers
<1>7. CASE ~IncludesAt(line) /\ token \in Directives /\ includeList' = ResetLists(token)
  <2>1. PICK directive \in Directives : directive = token
    BY <1>7
  <2>2. PICK new : new = includeList'
    OBVIOUS
  <2>3. \A q, e : Has(includeList, q, e) => Has(new, q, e) \/ (token = "#else" /\ q = size)
    BY <1>7, <2>1, <2>2, EntriesReset DEF Directives
  <2> QED
    BY <1>1, <1>3, <1>4, <1>7, <2>2, <2>3 DEF Headers
<1> QED
  BY <1>5, <1>6, <1>7, CheckedLists

\* With the same text, file and place, and the includes of the next state.
LEMMA SameEntries ==
  ASSUME UNCHANGED clean, NEW n, line' - 1 = n
  PROVE  Traces(includeList, line - 1)' <=> Traces(includeList', n)
BY DEF Traces, Traced, IfBetween, IncludesAt, HeaderAt

LEMMA SameHeaders ==
  ASSUME UNCHANGED <<clean, run, job>>, NEW n, line' - 1 = n
  PROVE  Headers(includeList, line - 1)' <=> Headers(includeList', n)
<1>1. Level' = Level
  BY SamePaths
<1>2. \A i : IsDue(i)' <=> IsDue(i)
  BY DEF IsDue, IncludesAt, HeaderAt, File, Args
<1>3. \A i : Name(HeaderAt(i))' = Name(HeaderAt(i))
  BY DEF HeaderAt
<1> QED
  BY <1>1, <1>2, <1>3 DEF Headers, Listed

LEMMA SameAssembly ==
  ASSUME UNCHANGED clean, NEW n, line' - 1 = n
  PROVE  HasAssembly(line - 1)' <=> HasAssembly(n)
BY DEF HasAssembly

\* What the lines that were read say of the directives.
LEMMA SameBalance ==
  ASSUME UNCHANGED clean, NEW n, line' - 1 = n
  PROVE  /\ Balanced' <=>
              \A i \in 1 .. n : First(clean.elided[i]) \in {"#else", "#endif"} => Level[i-1] > 0
         /\ Nested' <=> \E i \in 1 .. n : Level[i] > 1
<1>1. Level' = Level
  BY SamePaths
<1> QED
  BY <1>1 DEF Balanced, Nested

LEMMA NotInAssembly ==
  ASSUME ShapeInv, AssemblyInv, CheckLine, ~HasAssembly(line)
  PROVE  ~InAsmBlock(stack)
<1>1. stack \in Seq(BlocksIn({"no"}))
  BY DEF AssemblyInv, StacksOK, CheckLine, InLines, Reading
<1>2. stack # <<>> => Last(stack) \in BlocksIn({"no"})
  BY <1>1, LastIs
<1> QED
  BY <1>2 DEF InAsmBlock, BlocksIn

LEMMA OpenHeaders ==
  ASSUME OpenFile
  PROVE  EntriesInv' /\ HeadersInv'
<1>1. includeList' = <<<<>>>> /\ line' = 1
  BY DEF OpenFile, IncludeReset
<1>2. line' - 1 = 0 /\ 1 .. 0 = {}
  BY <1>1
<1>3. Headers(includeList, line - 1)'
  BY <1>2 DEF Headers
<1>4. \A q, e : ~Has(includeList', q, e)
  <2> DEFINE none == <<>>
  <2>1. Range(none) = {}
    BY DEF Range
  <2>2. Len(<<none>>) = 1 /\ <<none>>[1] = none /\ \A q : q \in 1 .. 1 => q = 1
    OBVIOUS
  <2>3. includeList' = <<none>>
    BY <1>1
  <2> HIDE DEF none
  <2> QED
    BY <2>1, <2>2, <2>3 DEF Has
<1>5. Traces(includeList, line - 1)'
  BY <1>4 DEF Traces
<1> QED
  BY <1>3, <1>5 DEF EntriesInv, HeadersInv

LEMMA HeadersStay ==
  ASSUME EntriesInv, HeadersInv, UNCHANGED <<includeVars, clean, line, run, job>>,
         Reading' => Reading
  PROVE  EntriesInv' /\ HeadersInv'
<1>1. PICK n : n = line - 1
  OBVIOUS
<1>2. line' - 1 = n /\ includeList' = includeList /\ UNCHANGED <<clean, run, job>>
  BY <1>1 DEF includeVars
<1>3. /\ Traces(includeList, line - 1)' <=> Traces(includeList, n)
      /\ Headers(includeList, line - 1)' <=> Headers(includeList, n)
      /\ HasAssembly(line - 1)' <=> HasAssembly(n)
  BY <1>2, SameEntries, SameHeaders, SameAssembly
<1>4. Balanced' <=> Balanced
  <2>1. Level' = Level
    BY <1>2, SamePaths
  <2> QED
    BY <1>1, <1>2, <2>1 DEF Balanced
<1> QED
  BY <1>1, <1>3, <1>4 DEF EntriesInv, HeadersInv

\* What holds of the lines to this one holds of those before.
LEMMA LineBefore ==
  ASSUME line \in Nat \ {0}
  PROVE  /\ ~HasAssembly(line) => ~HasAssembly(line - 1)
         /\ (\A i \in 1 .. line :
               First(clean.elided[i]) \in {"#else", "#endif"} => Level[i-1] > 0) =>
              Balanced /\ (First(clean.elided[line]) = "#else" => Level[line-1] > 0)
<1>1. line \in 1 .. line /\ \A i \in 1 .. line - 1 : i \in 1 .. line
  OBVIOUS
<1> QED
  BY <1>1 DEF HasAssembly, Balanced

LEMMA CheckKeepsHeaders ==
  ASSUME ShapeInv, ListsOK, AssemblyInv, EntriesInv, HeadersInv, CheckLine, UNCHANGED job
  PROVE  EntriesInv' /\ HeadersInv'
<1>1. /\ line \in Nat \ {0} /\ Reading /\ UNCHANGED <<clean, run>>
      /\ line' = line + 1
  BY ElidedIs DEF CheckLine, InLines, Reading
<1>2. line' - 1 = line
  BY <1>1
<1>3. PICK n : n = line
  OBVIOUS
<1>4. /\ Traces(includeList, line - 1)' <=> Traces(includeList', line)
      /\ Headers(includeList, line - 1)' <=> Headers(includeList', line)
      /\ HasAssembly(line - 1)' <=> HasAssembly(line)
      /\ Balanced' <=>
           \A i \in 1 .. line :
             First(clean.elided[i]) \in {"#else", "#endif"} => Level[i-1] > 0
  BY <1>1, <1>2, <1>3, SameEntries, SameHeaders, SameAssembly, SameBalance
<1>5. ASSUME ~HasAssembly(line)
      PROVE  ~InAsmBlock(stack) /\ Traces(includeList, line - 1) /\ Traces(includeList', line)
  <2>1. ~InAsmBlock(stack)
    BY <1>5, NotInAssembly
  <2>2. Traces(includeList, line - 1)
    BY <1>1, <1>5, LineBefore DEF EntriesInv
  <2> QED
    BY <2>1, <2>2, CheckEntries
<1>6. ASSUME ~HasAssembly(line), Balanced' PROVE Headers(includeList', line)
  <2>1. Headers(includeList, line - 1) /\ (First(clean.elided[line]) = "#else" => Level[line-1] > 0)
    BY <1>1, <1>4, <1>6, LineBefore DEF HeadersInv
  <2> QED
    BY <1>5, <1>6, <2>1, CheckHeaders
<1> QED
  BY <1>4, <1>5, <1>6 DEF EntriesInv, HeadersInv

\* The same header is recorded, or not, wherever it is included.
LEMMA SameDue ==
  ASSUME NEW i, NEW n, IncludesAt(i), IsDue(n), Name(HeaderAt(i)) = Name(HeaderAt(n))
  PROVE  IsDue(i)
<1> DEFINE t == Strip(clean.lines[i])[2]
           u == Strip(clean.lines[n])[2]
<1>1. t \in DOMAIN Header /\ u \in DOMAIN Header
  BY DEF IsDue, IncludesAt, IncludesHeader
<1>2. HeaderAt(i) = Header[t] /\ HeaderAt(n) = Header[u]
  BY DEF HeaderAt, HeaderOf
<1> HIDE DEF t, u
<1>3. HeaderAt(i).thirdParty = HeaderAt(n).thirdParty
  BY <1>1, <1>2, ThirdPartyAssumption
<1>4. HeaderAt(i).dir = HeaderAt(n).dir /\ HeaderAt(i).ext = HeaderAt(n).ext
  BY DEF Name
<1> QED
  BY <1>3, <1>4 DEF IsDue, Foreign

\* When the header of a line that is due is found.
LEMMA FoundAgain ==
  ASSUME ListsOK, clean.elided \in Seq(Line), NEW n \in 1 .. Len(clean.elided), IsDue(n),
         Traces(includeList, n - 1), Headers(includeList, n - 1),
         \A j \in 1 .. n : First(clean.elided[j]) \in {"#else", "#endif"} => Level[j-1] > 0
  PROVE  /\ \A i \in 1 .. n - 1 :
              IncludesAt(i) /\ Name(HeaderAt(i)) = Name(HeaderAt(n)) /\ Level[i] = 0
                => FindHeader(Name(HeaderAt(n)))
         /\ FindHeader(Name(HeaderAt(n))) /\ ~(\E i \in 1 .. n : Level[i] > 1) =>
              \E i \in 1 .. n - 1 :
                /\ IncludesAt(i) /\ Name(HeaderAt(i)) = Name(HeaderAt(n))
                /\ ~ \E j \in i + 1 .. n :
                       First(clean.elided[j]) = "#else" /\ Inside(i, n, Level[j])
<1> DEFINE name == Name(HeaderAt(n))
<1>1. FindHeader(name) <=> \E q, e : Has(includeList, q, e) /\ e.name = name
  <2>1. PICK it : it = name
    OBVIOUS
  <2> QED
    BY <2>1, FoundIn
<1> HIDE DEF name
<1>2. ASSUME NEW i \in 1 .. n - 1, IncludesAt(i), Name(HeaderAt(i)) = name, Level[i] = 0
      PROVE  FindHeader(name)
  <2>1. IsDue(i)
    BY <1>2, SameDue DEF name
  <2> QED
    BY <1>1, <1>2, <2>1 DEF Headers, Listed
<1>3. ASSUME FindHeader(name), ~(\E i \in 1 .. n : Level[i] > 1)
      PROVE  \E i \in 1 .. n - 1 :
                /\ IncludesAt(i) /\ Name(HeaderAt(i)) = name
                /\ ~ \E j \in i + 1 .. n :
                       First(clean.elided[j]) = "#else" /\ Inside(i, n, Level[j])
  <2>1. PICK q, e : Has(includeList, q, e) /\ e.name = name
    BY <1>1, <1>3
  <2>2. PICK i : i = e.line
    OBVIOUS
  <2>3. /\ i \in 1 .. n - 1 /\ IncludesAt(i) /\ Name(HeaderAt(i)) = name
        /\ \A j \in i + 1 .. n - 1 : First(clean.elided[j]) = "#else" => IfBetween(i, j)
    BY <2>1, <2>2 DEF Traces, Traced
  <2>4. ASSUME NEW j \in i + 1 .. n, First(clean.elided[j]) = "#else", Inside(i, n, Level[j])
        PROVE  FALSE
    <3>0. /\ n \in Nat \ {0} /\ i \in Nat /\ j \in 1 .. n /\ j \in 1 .. Len(clean.elided)
          /\ \A k \in i + 1 .. j : /\ k \in 1 .. Len(clean.elided) /\ k \in 1 .. n
                                   /\ k - 1 \in i .. n
      BY <2>3
    <3>1. j # n
      <4>1. First(clean.elided[n]) # "#else"
        BY DEF IsDue, IncludesAt, IncludesHeader, IsInclude
      <4> QED
        BY <2>4, <4>1
    <3>2. PICK k \in i + 1 .. j : First(clean.elided[k]) = "#if"
      <4>1. j \in i + 1 .. n - 1
        BY <2>3, <3>0, <3>1
      <4> QED
        BY <2>3, <2>4, <4>1 DEF IfBetween
    <3>3. Level[j] = Level[j-1] /\ Level[j-1] > 0 /\ Level[j] \in Nat
      <4>1. PICK token : token = First(clean.elided[j])
        OBVIOUS
      <4>2. token \notin {"#if", "#endif"}
        BY <2>4, <4>1
      <4>3. Level[j] = Level[j-1] /\ Level[j] \in Nat
        BY <3>0, <4>1, <4>2, LineLevel
      <4> QED
        BY <2>4, <3>0, <4>3
    <3>4. Level[k] = Level[k-1] + 1 /\ Level[k] \in Nat /\ Level[k-1] \in Nat
      BY <3>0, <3>2, LineLevel
    <3>5. Level[k-1] >= Level[j]
      BY <2>4, <3>0 DEF Inside
    <3>6. Level[k] > 1
      BY <3>3, <3>4, <3>5
    <3> QED
      BY <1>3, <3>0, <3>6
  <2> QED
    BY <2>3, <2>4
<1> QED
  BY <1>2, <1>3 DEF name

LEMMA DuplicateStep ==
  ASSUME ShapeInv, TypeInv, AssemblyInv, PrintedInv, EntriesInv, HeadersInv,
         CheckLine, LintNext, job' = job
  PROVE  DuplicateOnPath'
<1> DEFINE header == HeaderAt(line)
           Earlier == {i \in 1 .. line - 1 : IncludesAt(i) /\ Name(HeaderAt(i)) = Name(header)}
           Parted(i) == \E j \in i + 1 .. line :
                         First(clean.elided[j]) = "#else" /\ Inside(i, line, Level[j])
           Known == ReportedAt(line - 1, "include")'
<1>0. /\ line \in Nat \ {0} /\ line' = line + 1 /\ line' - 1 = line /\ Reading
      /\ UNCHANGED <<clean, run, verbose, filters, suppressions>>
  <2>1. line \in Nat \ {0}
    BY ElidedIs DEF CheckLine
  <2> QED
    BY <2>1 DEF CheckLine, Reading, InLines
<1>1. NestingTypeOK /\ ListsOK /\ ErrorsInv
      /\ clean.elided \in Seq(Line) /\ line \in 1 .. Len(clean.elided)
  BY ElidedIs DEF TypeInv, IncludesInv, ShapeInv, Copies, SameLength, CheckLine
<1> SUFFICES ASSUME IncludesAt(line), Reports("include", line - 1)',
                    header.dir # <<>>, ~Foreign(File, header), ~header.thirdParty,
                    \A j \in 1 .. line :
                      First(clean.elided[j]) \in {"#else", "#endif"} => Level[j-1] > 0,
                    ~HasAssembly(line)
             PROVE  /\ (\E i \in Earlier : Level[i] = 0) => Known
                    /\ Known /\ ~(\E i \in 1 .. line : Level[i] > 1) => \E i \in Earlier : ~Parted(i)
  <2>1. PICK n : n = line
    OBVIOUS
  <2>2. /\ HasAssembly(line - 1)' <=> HasAssembly(line)
        /\ Balanced' <=> \A j \in 1 .. line :
             First(clean.elided[j]) \in {"#else", "#endif"} => Level[j-1] > 0
        /\ Nested' <=> \E i \in 1 .. line : Level[i] > 1
    BY <1>0, <2>1, SameAssembly, SameBalance
  <2>3. HeaderAt(line - 1)' = header /\ File' = File
        /\ (IncludesAt(line - 1)' <=> IncludesAt(line))
    BY <1>0 DEF HeaderAt, File, Args, IncludesAt
  <2>4. Level' = Level
    BY <1>0, SamePaths
  <2>5. SameHeader(line - 1)' = Earlier
    BY <1>0, <2>3 DEF SameHeader, HeaderAt, IncludesAt
  <2>6. \A i : OnOnePath(i, line - 1)' <=> ~Parted(i)
    BY <1>0, <2>4 DEF OnOnePath, Inside
  <2>7. Foreign(File, HeaderAt(line - 1))' <=> Foreign(File, header)
    BY <2>3 DEF Foreign
  <2> HIDE DEF Earlier, Parted, header, Known
  <2> QED
    BY <2>2, <2>3, <2>4, <2>5, <2>6, <2>7 DEF DuplicateOnPath, Known
<1>2. ~InAsmBlock(stack)
  BY NotInAssembly
<1>3. Known <=> FindHeader(Name(header))
  <2>1. verbose <= 4 /\ ~IsFiltered("include")
        /\ {<<"include", line>>, <<"*", line>>} \cap suppressions = {}
    BY <1>0 DEF Reports, IsFiltered
  <2>2. Known <=> IsRepeated
    BY <1>1, <1>2, <2>1, RepeatReported
  <2> QED
    BY <2>2 DEF IsRepeated, Repeats, HeaderAt
<1>4. IsDue(line)
  BY DEF IsDue
<1>5. Traces(includeList, line - 1) /\ Headers(includeList, line - 1)
  BY <1>0, LineBefore DEF EntriesInv, HeadersInv
<1>6. /\ \A i \in 1 .. line - 1 :
           IncludesAt(i) /\ Name(HeaderAt(i)) = Name(header) /\ Level[i] = 0
             => FindHeader(Name(header))
      /\ FindHeader(Name(header)) /\ ~(\E i \in 1 .. line : Level[i] > 1) =>
           \E i \in 1 .. line - 1 :
             /\ IncludesAt(i) /\ Name(HeaderAt(i)) = Name(header)
             /\ ~Parted(i)
  <2>1. PICK n \in 1 .. Len(clean.elided) : n = line
    BY <1>1
  <2> QED
    BY <1>1, <1>4, <1>5, <2>1, FoundAgain
<1> HIDE DEF Parted, header, Known
<1> QED
  BY <1>3, <1>6

\* An #include is reported as a second one if the header was included before on
\* a line outside of all #if, and only if it was included on a line from which
\* a way through the directives leads here, unless one #if is inside another
\* (_IncludeState.FindHeader and ResetSection). Lists that are added and
\* emptied are compared with the ways through the file.
THEOREM DuplicatesFound == Spec => []DuplicateOnPath
<1> DEFINE Inv == PlaceInv /\ AssemblyInv /\ PrintedInv /\ EntriesInv /\ HeadersInv
                    /\ DuplicateOnPath
<1>1. Init => Inv
  <2> SUFFICES ASSUME Init PROVE Inv
    OBVIOUS
  <2>1. phase = "arguments" /\ Range(printed) = {}
    <3>1. phase = "arguments" /\ printed = <<>>
      BY DEF Init, LintInit, ReportInit
    <3> QED
      BY <3>1 DEF Range
  <2> QED
    BY <2>1 DEF PlaceInv, AssemblyInv, PrintedInv, EntriesInv, HeadersInv, DuplicateOnPath,
       Reading, BetweenLines
<1>2. ShapeInv /\ TypeInv /\ Inv /\ [Next]_vars => Inv'
  <2> SUFFICES ASSUME ShapeInv, TypeInv, Inv, [Next]_vars PROVE Inv'
    OBVIOUS
  <2>0. NestingTypeOK /\ ListsOK /\ ErrorsInv
    BY DEF TypeInv, IncludesInv
  <2>1. job' = job
    BY SameJob
  <2>2. CASE RunLint
    <3>1. LintNext
      BY <2>2 DEF RunLint
    <3>2. PlaceInv' /\ AssemblyInv' /\ PrintedInv'
      BY <2>0, <2>1, <3>1, PlaceStep, AssemblyStep, PrintedStep
    <3>3. CASE CheckLine
      BY <2>0, <2>1, <3>1, <3>2, <3>3, CheckKeepsHeaders, DuplicateStep
    <3>4. CASE ~CheckLine
      <4>1. ~(BetweenLines /\ line > 1)'
        <5>1. CASE ~Reading'
          BY <5>1 DEF Reading, BetweenLines
        <5>2. CASE OpenFile
          BY <5>2 DEF OpenFile
        <5>3. CASE (Ifndef \/ Endif) /\ UNCHANGED line
          BY <5>3 DEF PlaceInv, Ifndef, Endif
        <5>4. CASE \/ StartUpdate(Elided) \/ Namespace(line)
                   \/ ClassHead(line, IndentLevel(Raw), FromHere) \/ Brace(line) \/ EndUpdate
          BY <5>4 DEF StartUpdate, Namespace, ClassHead, Brace, EndUpdate, BetweenLines
        <5> QED
          BY <3>1, <3>4, <5>1, <5>2, <5>3, <5>4, ReadingStep
      <4>2. DuplicateOnPath'
        BY <4>1 DEF DuplicateOnPath
      <4>3. EntriesInv' /\ HeadersInv'
        <5>1. CASE ~Reading'
          BY <5>1 DEF EntriesInv, HeadersInv
        <5>2. CASE OpenFile
          BY <5>2, OpenHeaders
        <5>3. CASE Reading /\ UNCHANGED <<includeVars, clean, line, run>>
          BY <2>1, <5>3, HeadersStay
        <5> QED
          BY <3>1, <3>4, <5>1, <5>2, <5>3, ReadingStep DEF InLines, Reading
      <4> QED
        BY <3>2, <4>2, <4>3
    <3> QED
      BY <3>3, <3>4
  <2>3. CASE UNCHANGED lintVars
    <3>1. PlaceInv' /\ PrintedInv'
      BY <2>3 DEF lintVars, nestingVars, includeVars, reportVars, driverVars, PlaceInv,
         PrintedInv, Reading
    <3>2. AssemblyInv'
      BY <2>3 DEF lintVars, nestingVars, driverVars, AssemblyInv, Reading, HasAssembly,
         StacksOK
    <3>3. EntriesInv' /\ HeadersInv'
      <4>1. UNCHANGED <<includeVars, clean, line, run>> /\ (Reading' => Reading)
        BY <2>3 DEF lintVars, driverVars, Reading
      <4> QED
        BY <2>1, <4>1, HeadersStay
    <3>4. DuplicateOnPath'
      <4>1. UNCHANGED <<clean, run, job, phase, line, step, printed, verbose, filters,
                        suppressions>>
        BY <2>3 DEF lintVars, nestingVars, reportVars, driverVars
      <4>2. Level' = Level
        BY <4>1, SamePaths
      <4>3. HeaderAt(line - 1)' = HeaderAt(line - 1) /\ File' = File
            /\ (IncludesAt(line - 1)' <=> IncludesAt(line - 1))
        BY <4>1 DEF HeaderAt, File, Args, IncludesAt
      <4>4. SameHeader(line - 1)' = SameHeader(line - 1)
        BY <4>1 DEF SameHeader, HeaderAt, IncludesAt
      <4>5. \A i : OnOnePath(i, line - 1)' <=> OnOnePath(i, line - 1)
        BY <4>1, <4>2 DEF OnOnePath, Inside
      <4>6. Foreign(File, HeaderAt(line - 1))' <=> Foreign(File, HeaderAt(line - 1))
        BY <4>3 DEF Foreign
      <4>7. /\ HasAssembly(line - 1)' <=> HasAssembly(line - 1)
            /\ Balanced' <=> Balanced
            /\ Nested' <=> Nested
        BY <4>1, <4>2 DEF HasAssembly, Balanced, Nested
      <4>8. /\ Reports("include", line - 1)' <=> Reports("include", line - 1)
            /\ ReportedAt(line - 1, "include")' <=> ReportedAt(line - 1, "include")
        BY <4>1 DEF Reports, IsFiltered, ReportedAt
      <4>9. (BetweenLines /\ line > 1)' <=> BetweenLines /\ line > 1
        BY <4>1 DEF BetweenLines
      <4> QED
        BY <4>2, <4>3, <4>4, <4>5, <4>6, <4>7, <4>8, <4>9 DEF DuplicateOnPath
    <3> QED
      BY <3>1, <3>2, <3>3, <3>4
  <2> QED
    BY <2>2, <2>3 DEF Next, RunUnit, EndUnits, SystemTests, Cppcheck, EndLint, vars
<1> QED
  BY <1>1, <1>2, ShapeInvariant, TypeInvariant, PTL DEF Spec

=============================================================================
