---------------------------- MODULE HelperProofs ----------------------------
(***************************************************************************)
(* Proofs about the sequential helpers: that the sitemap lists the pages a *)
(* listing has, and comes to the end of them, for any numbers of posts and *)
(* widths of the integers; that a URL is its parts put together and a query*)
(* string is read as it says, for any text; and that dates follow the      *)
(* calendar, for any days of any year with four digits.                    *)
(***************************************************************************)
EXTENDS SiteMap, Urls, QueryArgs, Dates, Induction, SequenceTheorems

-----------------------------------------------------------------------------
(* Integers.                                                               *)
LEMMA TimesMonotonic ==
  ASSUME NEW a \in Nat, NEW b \in Nat, NEW s \in Nat, a <= b
  PROVE  a * s <= b * s
OBVIOUS

LEMMA TimesAtLeast ==
  ASSUME NEW a \in Nat, NEW s \in Nat \ {0}
  PROVE  a <= a * s /\ (a + 1) * s = a * s + s /\ a * s \in Nat
OBVIOUS

LEMMA ModSmall ==
  ASSUME NEW w \in Nat \ {0}, NEW a \in Nat, a < w
  PROVE  a % w = a
OBVIOUS

LEMMA Remainder ==
  ASSUME NEW a \in Int, NEW w \in Nat \ {0}
  PROVE  a % w \in Nat /\ a % w < w
OBVIOUS

(* Page p is there if a post comes after the first p - 1 pages.            *)
LEMMA PagesUpTo ==
  ASSUME NEW n \in Nat, NEW s \in Nat \ {0}, NEW p \in Nat,
         p * s < n, n <= (p + 1) * s
  PROVE  PagesOf(n, s) = 1 .. p + 1
<1>1. ASSUME NEW q \in 1 .. p + 1 PROVE q \in 1 .. n /\ (q - 1) * s < n
  <2>1. q - 1 \in Nat /\ q - 1 <= p
    OBVIOUS
  <2>2. (q - 1) * s <= p * s /\ p <= p * s /\ (q - 1) * s \in Nat /\ p * s \in Nat
    BY <2>1, TimesMonotonic, TimesAtLeast
  <2> QED BY <2>1, <2>2
<1>2. ASSUME NEW q \in 1 .. n, q > p + 1 PROVE ~((q - 1) * s < n)
  <2>1. q - 1 \in Nat /\ p + 1 <= q - 1
    BY <1>2
  <2>2. (p + 1) * s <= (q - 1) * s /\ (q - 1) * s \in Nat /\ (p + 1) * s \in Nat
    BY <2>1, TimesMonotonic, TimesAtLeast
  <2> QED BY <2>2
<1>3. \A q \in 1 .. n : q \in 1 .. p + 1 \/ q > p + 1
  OBVIOUS
<1> QED BY <1>1, <1>2, <1>3 DEF PagesOf

LEMMA OnePage ==
  ASSUME NEW n \in Nat, NEW s \in Nat, n <= s
  PROVE  PagesOf(n, s) = {1}
<1>1. ASSUME NEW q \in 1 .. n, (q - 1) * s < n PROVE q = 1
  <2>1. CASE q # 1
    <3>1. q - 1 \in Nat /\ 1 <= q - 1
      BY <2>1
    <3>2. 1 * s <= (q - 1) * s
      BY <3>1, TimesMonotonic
    <3>3. (q - 1) * s \in Int
      OBVIOUS
    <3> QED BY <1>1, <3>2, <3>3
  <2> QED BY <2>1
<1> QED BY <1>1 DEF PagesOf

LEMMA FirstTwo ==
  ASSUME NEW n \in Nat, NEW s \in Nat \ {0}, s < n
  PROVE  PagesOf(n, s) \cap {1, 2} = {1, 2}
<1>1. 2 \in 1 .. n /\ (2 - 1) * s = s
  OBVIOUS
<1> QED BY <1>1 DEF PagesOf

-----------------------------------------------------------------------------
(* The invariant: what has been listed are the pages so far, and num_posts *)
(* is what is left for the others.                                         *)

MapTypes ==
  /\ Word \in Nat \ {0, 1}
  /\ listing \in {"category", "front", "other front"}
  /\ count \in 0 .. Word - 1 /\ perPage \in Nat
  /\ listing = "category" => count > 0
  /\ paging \in {"row", "loop", "done", "crashed"}

Paged ==
  /\ paging = "row" => numPosts = count
  /\ paging = "loop" => listing # "other front" /\ count > perPage

CategoryPaged ==
  paging = "loop" /\ listing = "category" =>
    IF perPage = 0 THEN numPosts = count
    ELSE /\ lastPage \in Nat \ {0} /\ listed = 1 .. lastPage
         /\ lastPage * perPage < count /\ numPosts = count - lastPage * perPage

FrontPaged ==
  paging = "loop" /\ listing = "front" =>
    lastPage = 1 /\ listed = {1} /\ numPosts \in Nat

MapInv == MapTypes /\ Paged /\ CategoryPaged /\ FrontPaged /\ PagesListed

LEMMA MapInitInv == MapInit => MapInv
<1> SUFFICES ASSUME MapInit PROVE MapInv
  OBVIOUS
<1>1. PICK s \in Settings \cup {NoSetting, NoNumber} : perPage \in PageSizes(s)
  BY DEF MapInit
<1>2. SizeWord \in Nat \ {0} /\ Word \in Nat \ {0, 1} /\ Settings \subseteq Int /\ Counts \subseteq 0 .. Word - 1
  BY SiteMapAssumption
<1>3. perPage \in Nat
  BY <1>1, <1>2 DEF PageSizes
<1> QED BY <1>2, <1>3 DEF MapInit, MapInv, MapTypes, Paged, CategoryPaged, FrontPaged, PagesListed

LEMMA ListFirstInv == ASSUME MapInv, ListFirst PROVE MapInv'
<1>1. /\ numPosts = count /\ count \in Nat /\ count < Word /\ Word \in Nat \ {0, 1} /\ perPage \in Nat
      /\ listed' = {1} /\ UNCHANGED <<listing, count, perPage>>
  <2>1. /\ paging = "row" /\ listed' = {1} /\ UNCHANGED <<listing, count, perPage>>
    BY DEF ListFirst
  <2>2. count \in 0 .. Word - 1 /\ Word \in Nat \ {0, 1} /\ perPage \in Nat
    BY DEF MapInv, MapTypes
  <2>3. numPosts = count
    BY <2>1 DEF MapInv, Paged
  <2> QED BY <2>1, <2>2, <2>3
<1>2. MapTypes' /\ Paged'
  BY <1>1 DEF MapInv, MapTypes, Paged, ListFirst, HasPages
<1>3. CASE HasPages
  <2>1. count > perPage /\ (numPosts - perPage) % Word = count - perPage
    <3>1. count > perPage
      BY <1>1, <1>3 DEF HasPages
    <3>2. count - perPage \in Nat /\ count - perPage < Word
      BY <1>1, <3>1
    <3> QED BY <1>1, <3>1, <3>2, ModSmall
  <2>2. paging' = "loop" /\ lastPage' = 1 /\ numPosts' = count - perPage
    BY <1>3, <2>1 DEF ListFirst
  <2>3. 1 * perPage = perPage /\ {1} = 1 .. 1 /\ count - perPage \in Nat
    BY <1>1, <2>1
  <2>4. FrontPaged'
    BY <1>1, <2>2, <2>3 DEF FrontPaged
  <2>5. CategoryPaged'
    <3>1. perPage = 0 => numPosts' = count
      BY <1>1, <2>2
    <3>2. listed' = 1 .. lastPage' /\ lastPage' * perPage < count /\ numPosts' = count - lastPage' * perPage
      BY <1>1, <2>1, <2>2, <2>3
    <3> QED BY <1>1, <2>2, <3>1, <3>2 DEF CategoryPaged
  <2> QED BY <1>2, <2>2, <2>4, <2>5 DEF MapInv, PagesListed
<1>4. CASE ~HasPages
  <2>1. paging' = "done"
    BY <1>4 DEF ListFirst
  <2>2. listing # "other front" => PagesOf(count, perPage) = {1}
    <3>1. listing # "other front" => count <= perPage
      <4>1. numPosts > perPage \/ count <= perPage
        BY <1>1
      <4> QED BY <1>4, <4>1 DEF HasPages
    <3> QED BY <1>1, <3>1, OnePage
  <2>3. listing \in {"category", "front", "other front"}
    BY DEF MapInv, MapTypes
  <2>4. listed' = {1} /\ {1} \cap {1, 2} = {1}
    BY <1>1
  <2>5. PagesListed'
    <3>1. PagesOf(count, perPage)' = PagesOf(count, perPage)
      BY <1>1 DEF PagesOf
    <3> QED BY <1>1, <2>2, <2>3, <2>4, <3>1 DEF PagesListed
  <2> QED BY <1>2, <2>1, <2>5 DEF MapInv, CategoryPaged, FrontPaged
<1> QED BY <1>3, <1>4

LEMMA CategoryPageInv == ASSUME MapInv, CategoryPage PROVE MapInv'
<1>1. /\ listing = "category" /\ paging = "loop" /\ count \in Nat /\ count > 0 /\ count < Word
      /\ Word \in Nat \ {0, 1} /\ perPage \in Nat /\ count > perPage
      /\ UNCHANGED <<listing, count, perPage>>
      /\ listed' = listed \cup {lastPage + 1} /\ lastPage' = (lastPage + 1) % Word
      /\ numPosts' = IF numPosts > perPage THEN numPosts - perPage ELSE 0
      /\ paging' = IF numPosts' = 0 THEN "done" ELSE "loop"
  BY DEF MapInv, MapTypes, Paged, CategoryPage, AddPage
<1>2. MapTypes' /\ Paged' /\ FrontPaged'
  BY <1>1 DEF MapInv, MapTypes, Paged, FrontPaged
<1>3. CASE perPage = 0
  <2>1. numPosts' = count /\ paging' = "loop"
    BY <1>1, <1>3 DEF MapInv, CategoryPaged
  <2> QED BY <1>1, <1>2, <1>3, <2>1 DEF MapInv, CategoryPaged, PagesListed
<1>4. CASE perPage # 0
  <2>1. /\ lastPage \in Nat \ {0} /\ listed = 1 .. lastPage
        /\ lastPage * perPage < count /\ numPosts = count - lastPage * perPage
    BY <1>1, <1>4 DEF MapInv, CategoryPaged
  <2>2. /\ lastPage <= lastPage * perPage /\ (lastPage + 1) * perPage = lastPage * perPage + perPage
        /\ lastPage * perPage \in Nat
    BY <1>1, <1>4, <2>1, TimesAtLeast
  <2>3. listed' = 1 .. lastPage + 1
    BY <1>1, <2>1
  <2>4. CASE numPosts > perPage
    <3>1. (lastPage + 1) * perPage < count /\ numPosts' = count - (lastPage + 1) * perPage /\ numPosts' # 0
      BY <1>1, <2>1, <2>2, <2>4
    <3>2. lastPage' = lastPage + 1
      <4>1. lastPage + 1 \in Nat /\ lastPage + 1 < Word
        BY <1>1, <1>4, <2>1, <2>2, <3>1
      <4>2. (lastPage + 1) % Word = lastPage + 1
        BY <4>1, <1>1
      <4> QED BY <1>1, <4>2
    <3>3. CategoryPaged'
      BY <1>1, <1>4, <2>1, <2>3, <3>1, <3>2 DEF CategoryPaged
    <3> QED BY <1>1, <1>2, <3>1, <3>3 DEF MapInv, PagesListed
  <2>5. CASE ~(numPosts > perPage)
    <3>1. paging' = "done" /\ count <= (lastPage + 1) * perPage
      BY <1>1, <2>1, <2>2, <2>5
    <3>2. PagesOf(count, perPage) = 1 .. lastPage + 1
      BY <1>1, <1>4, <2>1, <3>1, PagesUpTo
    <3>3. PagesListed'
      BY <1>1, <2>3, <3>1, <3>2 DEF PagesListed, PagesOf
    <3> QED BY <1>2, <3>1, <3>3 DEF MapInv, CategoryPaged
  <2> QED BY <2>4, <2>5
<1> QED BY <1>3, <1>4

LEMMA FrontPageInv == ASSUME MapInv, FrontPage PROVE MapInv'
<1>1. /\ listing = "front" /\ paging = "loop" /\ count \in Nat /\ perPage \in Nat /\ count > perPage
      /\ Word \in Nat \ {0, 1} /\ numPosts \in Nat
      /\ UNCHANGED <<listing, count, perPage>>
      /\ listed' = {1, 2}
      /\ numPosts' = (numPosts - perPage) % Word
      /\ paging' = IF perPage = 0 THEN "crashed"
                   ELSE IF numPosts' % perPage = perPage THEN "loop" ELSE "done"
  BY DEF MapInv, MapTypes, Paged, FrontPaged, FrontPage, AddPage
<1>2. numPosts' \in Nat
  BY <1>1
<1>3. paging' = IF perPage = 0 THEN "crashed" ELSE "done"
  <2>1. perPage # 0 => numPosts' % perPage < perPage
    BY <1>1, <1>2
  <2> QED BY <1>1, <2>1
<1>4. PagesListed'
  <2>1. CASE perPage # 0
    <3>1. PagesOf(count, perPage) \cap {1, 2} = {1, 2}
      BY <1>1, <2>1, FirstTwo
    <3> QED BY <1>1, <3>1 DEF PagesListed, PagesOf
  <2>2. CASE perPage = 0
    BY <1>3, <2>2 DEF PagesListed
  <2> QED BY <2>1, <2>2
<1> QED BY <1>1, <1>3, <1>4 DEF MapInv, MapTypes, Paged, CategoryPaged, FrontPaged

LEMMA MapInvariance == MapSpec => []MapInv
<1>1. MapInv /\ [MapNext]_mapVars => MapInv'
  <2> SUFFICES ASSUME MapInv, [MapNext]_mapVars PROVE MapInv'
    OBVIOUS
  <2>1. CASE MapNext
    BY <2>1, ListFirstInv, CategoryPageInv, FrontPageInv DEF MapNext
  <2>2. CASE UNCHANGED mapVars
    BY <2>2 DEF mapVars, MapInv, MapTypes, Paged, CategoryPaged, FrontPaged, PagesListed, PagesOf
  <2> QED BY <2>1, <2>2
<1> QED BY <1>1, MapInitInv, PTL DEF MapSpec

(* The sitemap has each page of a category and the first two of the front  *)
(* page, whatever the numbers and the setting (sitemap_handler.cpp:189-284)*)
THEOREM PagesAreListed == MapSpec => []PagesListed
<1>1. MapInv => PagesListed
  BY DEF MapInv
<1> QED BY <1>1, MapInvariance, PTL

(* As long as a page size is not zero, a turn after which there is another *)
(* one leaves fewer posts to list, and does not pass below none.           *)
FewerPostsLeft == [][paging' = "loop" /\ perPage > 0 => numPosts' \in 0 .. numPosts - 1]_mapVars

(* The loops over pages end unless the page size is zero: a turn after     *)
(* which there is another leaves fewer posts, and never a number that has  *)
(* gone round (sitemap_handler.cpp:214-225, 272-283).                      *)
THEOREM PagingGoesOn == MapSpec => FewerPostsLeft
<1>1. ASSUME MapInv, MapNext, paging' = "loop", perPage > 0 PROVE numPosts' \in 0 .. numPosts - 1
  <2>1. perPage \in Nat \ {0} /\ Word \in Nat \ {0} /\ count \in Nat /\ count < Word
    <3>1. perPage \in Nat /\ Word \in Nat \ {0, 1} /\ count \in 0 .. Word - 1
      BY <1>1 DEF MapInv, MapTypes
    <3> QED BY <1>1, <3>1
  <2>2. CASE ListFirst
    <3>1. numPosts = count /\ numPosts > perPage /\ numPosts' = (numPosts - perPage) % Word
      BY <1>1, <2>2 DEF MapInv, Paged, ListFirst, HasPages
    <3>2. numPosts - perPage \in Nat /\ numPosts - perPage < Word
      BY <2>1, <3>1
    <3>3. numPosts' = numPosts - perPage
      BY <2>1, <3>1, <3>2, ModSmall
    <3> QED BY <2>1, <3>1, <3>2, <3>3
  <2>3. CASE CategoryPage
    <3>1. /\ lastPage \in Nat /\ lastPage * perPage < count /\ numPosts = count - lastPage * perPage
      BY <1>1, <2>1, <2>3 DEF MapInv, CategoryPaged, CategoryPage
    <3>2. numPosts \in Nat
      BY <2>1, <3>1
    <3> QED BY <1>1, <2>1, <2>3, <3>2 DEF CategoryPage
  <2>4. CASE FrontPage
    <3>1. numPosts \in Nat /\ numPosts' = (numPosts - perPage) % Word
      BY <1>1, <2>4 DEF MapInv, FrontPaged, FrontPage
    <3>2. PICK n \in Nat : n = numPosts'
      BY <2>1, <3>1, Remainder
    <3>3. n % perPage \in Nat /\ n % perPage < perPage
      BY <2>1, Remainder
    <3>4. n % perPage = perPage
      BY <1>1, <2>1, <2>4, <3>2 DEF FrontPage
    <3> QED BY <2>1, <3>3, <3>4
  <2> QED BY <1>1, <2>2, <2>3, <2>4 DEF MapNext
<1> QED BY <1>1, MapInvariance, PTL DEF MapSpec, FewerPostsLeft

-----------------------------------------------------------------------------
(* Texts and their windows.                                                *)
(* Min is the least of a set, where there is one.                         *)
LEMMA LeastIsMin ==
  ASSUME NEW I \in SUBSET Int, NEW m \in I, \A i \in I : m <= i
  PROVE  Min(I) = m
<1>1. Min(I) \in I /\ \A i \in I : Min(I) <= i
  BY DEF Min
<1>2. \A i \in Int : i <= m /\ m <= i => i = m
  OBVIOUS
<1> QED BY <1>1, <1>2

(* Where the first of some symbols is, if there is one.                    *)
LEMMA FirstPlace ==
  ASSUME NEW C, NEW s \in Seq(C), NEW ends, NEW k \in 0 .. Len(s),
         \A i \in 1 .. k : s[i] \notin ends, k < Len(s) => s[k + 1] \in ends
  PROVE  SelectInSeq(s, LAMBDA e : e \in ends) = IF k = Len(s) THEN 0 ELSE k + 1
<1> DEFINE I == { i \in 1 .. Len(s) : s[i] \in ends }
<1>1. SelectInSeq(s, LAMBDA e : e \in ends) = IF I # {} THEN Min(I) ELSE 0
  BY DEF SelectInSeq
<1>2. Len(s) \in Nat
  BY LenProperties
<1>3. CASE k = Len(s)
  <2>1. I = {}
    BY <1>3
  <2> QED BY <1>1, <1>3, <2>1
<1>4. CASE k < Len(s)
  <2>1. k + 1 \in I /\ \A i \in I : k + 1 <= i
    <3>1. k + 1 \in 1 .. Len(s) /\ s[k + 1] \in ends
      BY <1>2, <1>4
    <3>2. ASSUME NEW i \in I PROVE k + 1 <= i
      BY <1>2
    <3> QED BY <3>1, <3>2
  <2>2. I \subseteq Int
    OBVIOUS
  <2> HIDE DEF I
  <2>3. Min(I) = k + 1
    BY <2>1, <2>2, LeastIsMin
  <2> QED BY <1>1, <1>4, <2>1, <2>3
<1> QED BY <1>2, <1>3, <1>4

(* CutAt ends where the first of them is.                                  *)
LEMMA CutAtPlace ==
  ASSUME NEW C, NEW s \in Seq(C), NEW ends, NEW k \in 0 .. Len(s),
         \A i \in 1 .. k : s[i] \notin ends, k < Len(s) => s[k + 1] \in ends
  PROVE  CutAt(s, ends) = SubSeq(s, 1, k)
<1>1. Len(s) \in Nat /\ SubSeq(s, 1, Len(s)) = s
  BY LenProperties, SubSeqFull
<1>2. SelectInSeq(s, LAMBDA e : e \in ends) = IF k = Len(s) THEN 0 ELSE k + 1
  BY FirstPlace
<1>3. (k + 1) - 1 = k /\ k + 1 # 0
  OBVIOUS
<1> QED BY <1>1, <1>2, <1>3 DEF CutAt

(* A window of a window.                                                   *)
LEMMA Window ==
  ASSUME NEW C, NEW s \in Seq(C), NEW m \in 0 .. Len(s), NEW n \in m .. Len(s),
         NEW i \in 0 .. n - m, NEW j \in 0 .. n - m
  PROVE  SubSeq(SubSeq(s, m + 1, n), i + 1, j) = SubSeq(s, m + i + 1, m + j)
<1> DEFINE t == SubSeq(s, m + 1, n)
<1>1. Len(s) \in Nat /\ \A k \in 1 .. Len(s) : s[k] \in C
  BY LenProperties, ElementOfSeq
<1>2. t \in Seq(C) /\ m + 1 \in Int /\ n \in Int
  BY <1>1, SubSeqProperties
<1>3. CASE j <= i
  <2>1. j < i + 1 /\ m + j < m + i + 1 /\ {j, i + 1, m + j, m + i + 1} \subseteq Int
    BY <1>1, <1>3
  <2>2. SubSeq(t, i + 1, j) = <<>> /\ SubSeq(s, m + i + 1, m + j) = <<>>
    BY <2>1, SubSeqEmpty
  <2> QED BY <2>2
<1>4. CASE j > i
  <2>1. /\ m + 1 \in 1 .. Len(s) /\ n \in 1 .. Len(s)
        /\ i + 1 \in 1 .. n - (m + 1) + 1 /\ j \in 1 .. n - (m + 1) + 1
    BY <1>1, <1>4
  <2>2. SubSeq(t, i + 1, j) = SubSeq(s, (m + 1) + (i + 1) - 1, (m + 1) + j - 1)
    BY <1>2, <2>1, SubSeqOfSubSeq
  <2>3. (m + 1) + (i + 1) - 1 = m + i + 1 /\ (m + 1) + j - 1 = m + j
    BY <1>1
  <2> QED BY <2>2, <2>3
<1> QED BY <1>1, <1>3, <1>4

LEMMA WindowElements ==
  ASSUME NEW C, NEW s \in Seq(C), NEW m \in 0 .. Len(s), NEW n \in m .. Len(s)
  PROVE  /\ SubSeq(s, m + 1, n) \in Seq(C)
         /\ Len(SubSeq(s, m + 1, n)) = n - m
         /\ \A i \in 1 .. n - m : SubSeq(s, m + 1, n)[i] = s[m + i]
<1>1. Len(s) \in Nat /\ \A k \in 1 .. Len(s) : s[k] \in C
  BY LenProperties, ElementOfSeq
<1>2. \A k \in m + 1 .. n : s[k] \in C
  BY <1>1
<1>3. m + 1 \in Int /\ n \in Int
  BY <1>1
<1>4. /\ SubSeq(s, m + 1, n) \in Seq(C)
      /\ Len(SubSeq(s, m + 1, n)) = IF m + 1 <= n THEN n - (m + 1) + 1 ELSE 0
      /\ \A i \in 1 .. n - (m + 1) + 1 : SubSeq(s, m + 1, n)[i] = s[(m + 1) + i - 1]
  BY <1>2, <1>3, SubSeqProperties
<1>5. (IF m + 1 <= n THEN n - (m + 1) + 1 ELSE 0) = n - m
  BY <1>1
<1>6. n - (m + 1) + 1 = n - m /\ \A i \in 1 .. n - m : (m + 1) + i - 1 = m + i
  BY <1>1
<1> QED BY <1>4, <1>5, <1>6

(* The next of some symbols after place m, or the end of the text at n.    *)
NextAt(s, ends, m, n, k) ==
  /\ k \in m .. n
  /\ \A i \in m + 1 .. k : s[i] \notin ends
  /\ k < n => s[k + 1] \in ends

LEMMA HasNext ==
  ASSUME NEW C, NEW s \in Seq(C), NEW n \in 0 .. Len(s), NEW m \in 0 .. n, NEW ends
  PROVE  \E k \in m .. n : NextAt(s, ends, m, n, k)
<1> DEFINE I == { i \in m + 1 .. n : s[i] \in ends }
<1>1. Len(s) \in Nat
  BY LenProperties
<1>2. CASE I = {}
  <2>1. NextAt(s, ends, m, n, n) /\ n \in m .. n
    BY <1>1, <1>2 DEF NextAt
  <2> QED BY <2>1
<1>3. CASE I # {}
  <2>1. I \in SUBSET Nat
    BY <1>1
  <2>2. PICK j \in I : \A i \in I : j <= i
    <3> HIDE DEF I
    <3> QED BY <1>3, <2>1, LeastElement
  <2>3. j - 1 \in m .. n /\ (j - 1) + 1 = j /\ s[j] \in ends
    BY <1>1, <2>2
  <2>4. \A i \in m + 1 .. j - 1 : s[i] \notin ends
    BY <1>1, <2>2
  <2>5. NextAt(s, ends, m, n, j - 1)
    BY <2>3, <2>4 DEF NextAt
  <2> QED BY <2>3, <2>5
<1> QED BY <1>2, <1>3

LEMMA CutAtNext ==
  ASSUME NEW C, NEW s \in Seq(C), NEW m \in 0 .. Len(s), NEW n \in m .. Len(s), NEW ends,
         NEW k, NextAt(s, ends, m, n, k)
  PROVE  CutAt(SubSeq(s, m + 1, n), ends) = SubSeq(s, m + 1, k)
<1> DEFINE t == SubSeq(s, m + 1, n)
<1>0. /\ k \in m .. n
      /\ \A i \in m + 1 .. k : s[i] \notin ends
      /\ k < n => s[k + 1] \in ends
  BY DEF NextAt
<1>1. Len(s) \in Nat
  BY LenProperties
<1>2. t \in Seq(C) /\ Len(t) = n - m /\ \A i \in 1 .. n - m : t[i] = s[m + i]
  BY WindowElements
<1>3. SubSeq(t, 0 + 1, k - m) = SubSeq(s, m + 0 + 1, m + (k - m))
  <2>1. 0 \in 0 .. n - m /\ k - m \in 0 .. n - m
    BY <1>0, <1>1
  <2> QED BY <1>0, <2>1, Window
<1>4. 0 + 1 = 1 /\ m + 0 + 1 = m + 1 /\ m + (k - m) = k
  BY <1>0, <1>1
<1>5. k - m \in 0 .. Len(t)
  BY <1>0, <1>1, <1>2
<1>6. \A i \in 1 .. k - m : t[i] \notin ends
  <2>1. ASSUME NEW i \in 1 .. k - m PROVE t[i] \notin ends
    <3>1. i \in 1 .. n - m /\ m + i \in m + 1 .. k
      BY <1>0, <1>1
    <3> QED BY <1>0, <1>2, <3>1
  <2> QED BY <2>1
<1>7. k - m < Len(t) => t[(k - m) + 1] \in ends
  <2>1. SUFFICES ASSUME k - m < Len(t) PROVE t[(k - m) + 1] \in ends
    OBVIOUS
  <2>2. (k - m) + 1 \in 1 .. n - m /\ m + ((k - m) + 1) = k + 1 /\ k < n
    BY <1>0, <1>1, <1>2, <2>1
  <2> QED BY <1>0, <1>2, <2>2
<1> HIDE DEF t
<1>8. CutAt(t, ends) = SubSeq(t, 1, k - m)
  BY <1>0, <1>2, <1>5, <1>6, <1>7, CutAtPlace
<1> QED BY <1>3, <1>4, <1>8 DEF t

(* What is left of a window behind a place.                                *)
LEMMA FromWindow ==
  ASSUME NEW C, NEW s \in Seq(C), NEW m \in 0 .. Len(s), NEW n \in m .. Len(s), NEW k \in m .. n
  PROVE  From(SubSeq(s, m + 1, n), k - m) = SubSeq(s, k + 1, n)
<1>1. Len(s) \in Nat
  BY LenProperties
<1>2. Len(SubSeq(s, m + 1, n)) = n - m
  BY WindowElements
<1>3. k - m \in 0 .. n - m /\ n - m \in 0 .. n - m /\ m + (k - m) + 1 = k + 1 /\ m + (n - m) = n
  BY <1>1
<1>4. SubSeq(SubSeq(s, m + 1, n), (k - m) + 1, n - m) = SubSeq(s, m + (k - m) + 1, m + (n - m))
  BY <1>3, Window
<1> QED BY <1>2, <1>3, <1>4 DEF From

(* Is it this symbol that comes next?                                      *)
At(s, n, k, e) == k < n /\ s[k + 1] = e

LEMMA StartsAt ==
  ASSUME NEW C, NEW s \in Seq(C), NEW m \in 0 .. Len(s), NEW n \in m .. Len(s), NEW e
  PROVE  Starts(SubSeq(s, m + 1, n), e) = At(s, n, m, e)
<1>1. Len(s) \in Nat
  BY LenProperties
<1>2. CASE m < n
  <2>1. m + 1 \in 1 .. Len(s) /\ n \in m + 1 .. Len(s)
    BY <1>1, <1>2
  <2>2. Head(SubSeq(s, m + 1, n)) = s[m + 1]
    BY <2>1, HeadTailOfSubSeq
  <2>3. Len(SubSeq(s, m + 1, n)) = n - m /\ n - m # 0 /\ Len(<<>>) = 0
    BY <1>1, <1>2, WindowElements
  <2> QED BY <1>2, <2>2, <2>3 DEF Starts, At
<1>3. CASE m = n
  <2>1. SubSeq(s, m + 1, n) = <<>>
    BY <1>1, <1>3, SubSeqEmpty
  <2>2. ~(m < n)
    BY <1>1, <1>3
  <2> QED BY <2>1, <2>2 DEF Starts, At
<1> QED BY <1>1, <1>2, <1>3

-----------------------------------------------------------------------------
(* The schema is what the text begins with, and stays it if what comes     *)
(* behind it is cut off.                                                   *)
LEMMA PrefixFixed ==
  ASSUME NEW C, NEW s \in Seq(C), NEW D, NEW t \in Seq(D), IsPrefix(t, s)
  PROVE  Len(t) \in 0 .. Len(s) /\ t = SubSeq(s, 1, Len(t))
<1>1. Len(t) \in Nat /\ SubSeq(t, 1, Len(t)) = t /\ Len(s) \in Nat
  BY LenProperties, SubSeqFull
<1> QED BY <1>1 DEF IsPrefix

LEMMA PrefixOfCut ==
  ASSUME NEW C, NEW s \in Seq(C), NEW D, NEW t \in Seq(D), NEW n \in 0 .. Len(s)
  PROVE  IsPrefix(t, SubSeq(s, 1, n)) = (Len(t) <= n /\ IsPrefix(t, s))
<1>1. Len(t) \in Nat /\ Len(s) \in Nat /\ Len(SubSeq(s, 1, n)) = n
  <2>1. Len(SubSeq(s, 0 + 1, n)) = n - 0 /\ Len(s) \in Nat
    BY WindowElements, LenProperties
  <2>2. 0 + 1 = 1 /\ n - 0 = n
    BY <2>1
  <2> QED BY <2>1, <2>2, LenProperties
<1>2. CASE Len(t) <= n
  <2>1. SubSeq(SubSeq(s, 0 + 1, n), 0 + 1, Len(t)) = SubSeq(s, 0 + 0 + 1, 0 + Len(t))
    <3>1. 0 \in 0 .. n - 0 /\ Len(t) \in 0 .. n - 0 /\ 0 \in 0 .. Len(s) /\ n \in 0 .. Len(s)
      BY <1>1, <1>2
    <3> QED BY <3>1, Window
  <2>2. 0 + 1 = 1 /\ 0 + 0 + 1 = 1 /\ 0 + Len(t) = Len(t) /\ Len(t) <= Len(s)
    BY <1>1, <1>2
  <2> QED BY <1>1, <1>2, <2>1, <2>2 DEF IsPrefix
<1>3. CASE ~(Len(t) <= n)
  BY <1>1, <1>3 DEF IsPrefix
<1> QED BY <1>2, <1>3

Letters == {"h", "t", "p", "s", ":", "/"}

LEMMA OneSchema ==
  ASSUME NEW C, NEW s \in Seq(C)
  PROVE  ~(IsPrefix(Https, s) /\ IsPrefix(Http, s))
<1> SUFFICES ASSUME IsPrefix(Https, s), IsPrefix(Http, s) PROVE FALSE
  OBVIOUS
<1>1. /\ Http \in Seq(Letters) /\ Len(Http) = 7 /\ Http[5] = ":"
      /\ Https \in Seq(Letters) /\ Len(Https) = 8 /\ Https[5] = "s"
  BY DEF Http, Https, Letters
<1>2. Http = SubSeq(s, 1, 7) /\ Https = SubSeq(s, 1, 8) /\ 8 \in 0 .. Len(s) /\ 7 \in 0 .. Len(s)
  BY <1>1, PrefixFixed, LenProperties
<1>3. SubSeq(s, 0 + 1, 7)[5] = s[0 + 5] /\ SubSeq(s, 0 + 1, 8)[5] = s[0 + 5]
  <2>1. 0 \in 0 .. Len(s) /\ 7 \in 0 .. Len(s) /\ 8 \in 0 .. Len(s) /\ 5 \in 1 .. 7 - 0 /\ 5 \in 1 .. 8 - 0
    BY <1>2, LenProperties
  <2> QED BY <2>1, WindowElements
<1>4. 0 + 1 = 1
  OBVIOUS
<1> QED BY <1>1, <1>2, <1>3, <1>4

LEMMA SchemaOfCut ==
  ASSUME NEW C, NEW s \in Seq(C), NEW n \in 0 .. Len(s), Len(Schema(s)) <= n
  PROVE  Schema(SubSeq(s, 1, n)) = Schema(s)
<1>1. Http \in Seq(Letters) /\ Len(Http) = 7 /\ Https \in Seq(Letters) /\ Len(Https) = 8
  BY DEF Http, Https, Letters
<1>2. /\ IsPrefix(Http, SubSeq(s, 1, n)) = (7 <= n /\ IsPrefix(Http, s))
      /\ IsPrefix(Https, SubSeq(s, 1, n)) = (8 <= n /\ IsPrefix(Https, s))
  BY <1>1, PrefixOfCut
<1>3. ~(IsPrefix(Https, s) /\ IsPrefix(Http, s))
  BY OneSchema
<1> HIDE DEF Http, Https
<1>4. CASE IsPrefix(Https, s)
  <2>1. Schema(s) = Https /\ 8 <= n
    BY <1>1, <1>3, <1>4 DEF Schema
  <2> QED BY <1>2, <1>4, <2>1 DEF Schema
<1>5. CASE ~IsPrefix(Https, s) /\ IsPrefix(Http, s)
  <2>1. Schema(s) = Http /\ 7 <= n
    BY <1>1, <1>5 DEF Schema
  <2> QED BY <1>2, <1>5, <2>1 DEF Schema
<1>6. CASE ~IsPrefix(Https, s) /\ ~IsPrefix(Http, s)
  BY <1>2, <1>6 DEF Schema
<1> QED BY <1>4, <1>5, <1>6

LEMMA SchemaIsPrefix ==
  ASSUME NEW C, NEW s \in Seq(C)
  PROVE  Len(Schema(s)) \in 0 .. Len(s) /\ Schema(s) = SubSeq(s, 1, Len(Schema(s)))
<1>1. Http \in Seq(Letters) /\ Https \in Seq(Letters)
  BY DEF Http, Https, Letters
<1>2. CASE Schema(s) \in {Http, Https} /\ IsPrefix(Schema(s), s)
  BY <1>1, <1>2, PrefixFixed
<1>3. CASE Schema(s) = <<>>
  <2>1. Len(s) \in Nat /\ Len(<<>>) = 0 /\ SubSeq(s, 1, 0) = <<>>
    BY LenProperties, SubSeqEmpty
  <2> QED BY <1>3, <2>1
<1>4. \/ Schema(s) \in {Http, Https} /\ IsPrefix(Schema(s), s)
      \/ Schema(s) = <<>>
  BY DEF Schema
<1> QED BY <1>2, <1>3, <1>4

-----------------------------------------------------------------------------
(* The places of the five cuts in the first n symbols of a text.           *)
Cuts(s, n, a, b, c, d) ==
  /\ a \in 0 .. n /\ Schema(SubSeq(s, 1, n)) = SubSeq(s, 1, a)
  /\ NextAt(s, {":", "/", "?"}, a, n, b)
  /\ IF At(s, n, b, ":")
     THEN c \in b + 1 .. n /\ (\A i \in b + 2 .. c : s[i] = "0") /\ (c < n => s[c + 1] # "0")
     ELSE c = b
  /\ IF At(s, n, c, "/") THEN NextAt(s, {"?"}, c, n, d) ELSE d = c

LEMMA CutsInOrder ==
  ASSUME NEW C, NEW s \in Seq(C), NEW n \in 0 .. Len(s), NEW a, NEW b, NEW c, NEW d,
         Cuts(s, n, a, b, c, d)
  PROVE  /\ n \in Nat /\ a \in 0 .. n /\ b \in a .. n /\ c \in b .. n /\ d \in c .. n
         /\ {a, b, c, d} \subseteq 0 .. n /\ Len(s) \in Nat
<1>1. n \in Nat /\ Len(s) \in Nat /\ a \in 0 .. n /\ b \in a .. n
  BY LenProperties DEF Cuts, NextAt
<1>2. c \in b .. n
  BY <1>1 DEF Cuts
<1>3. d \in c .. n
  BY <1>1, <1>2 DEF Cuts, NextAt
<1> QED BY <1>1, <1>2, <1>3

(* Every text has them.                                                    *)
LEMMA CutsExist ==
  ASSUME NEW C, NEW s \in Seq(C)
  PROVE  \E a, b, c, d : Cuts(s, Len(s), a, b, c, d)
<1> DEFINE n == Len(s)
           a == Len(Schema(s))
<1>1. n \in Nat /\ n \in 0 .. Len(s) /\ SubSeq(s, 1, n) = s
  BY LenProperties, SubSeqFull
<1>2. a \in 0 .. n /\ Schema(SubSeq(s, 1, n)) = SubSeq(s, 1, a)
  BY <1>1, SchemaIsPrefix
<1>3. n \in 0 .. Len(s)
  BY <1>1
<1> HIDE DEF n, a
<1>4. PICK b \in a .. n : NextAt(s, {":", "/", "?"}, a, n, b)
  BY <1>2, <1>3, HasNext
<1>5. \E c \in b .. n :
        IF At(s, n, b, ":")
        THEN c \in b + 1 .. n /\ (\A i \in b + 2 .. c : s[i] = "0") /\ (c < n => s[c + 1] # "0")
        ELSE c = b
  <2>1. CASE At(s, n, b, ":")
    <3>1. b + 1 \in 0 .. n
      BY <1>1, <1>2, <1>4, <2>1 DEF At
    <3>2. PICK c \in b + 1 .. n : NextAt(s, C \ {"0"}, b + 1, n, c)
      BY <1>3, <3>1, HasNext
    <3>3. \A i \in 1 .. Len(s) : s[i] \in C
      BY ElementOfSeq
    <3>4. ASSUME NEW i \in b + 2 .. c PROVE s[i] = "0"
      <4>1. i \in (b + 1) + 1 .. c /\ i \in 1 .. Len(s)
        BY <1>1, <1>2, <1>3, <1>4, <3>2
      <4> QED BY <3>2, <3>3, <4>1 DEF NextAt
    <3>5. c < n => s[c + 1] # "0"
      BY <3>2 DEF NextAt
    <3>6. c \in b .. n
      BY <1>1, <1>2, <1>4, <3>2
    <3> QED BY <2>1, <3>2, <3>4, <3>5, <3>6
  <2>2. CASE ~At(s, n, b, ":")
    <3>1. b \in b .. n
      BY <1>1, <1>2, <1>4
    <3> QED BY <2>2, <3>1
  <2> QED BY <2>1, <2>2
<1>6. PICK c \in b .. n :
        IF At(s, n, b, ":")
        THEN c \in b + 1 .. n /\ (\A i \in b + 2 .. c : s[i] = "0") /\ (c < n => s[c + 1] # "0")
        ELSE c = b
  BY <1>5
<1>7. \E d : IF At(s, n, c, "/") THEN NextAt(s, {"?"}, c, n, d) ELSE d = c
  <2>1. c \in 0 .. n
    BY <1>1, <1>2, <1>4, <1>6
  <2>2. \E d \in c .. n : NextAt(s, {"?"}, c, n, d)
    BY <1>3, <2>1, HasNext
  <2> QED BY <2>2
<1>8. PICK d : IF At(s, n, c, "/") THEN NextAt(s, {"?"}, c, n, d) ELSE d = c
  BY <1>7
<1>9. Cuts(s, n, a, b, c, d)
  BY <1>2, <1>4, <1>6, <1>8 DEF Cuts
<1> QED BY <1>9 DEF n

(* The parts are what is between the cuts.                                 *)
Between(s, n, a, b, c, d) ==
  [schema |-> SubSeq(s, 1, a),
   host   |-> SubSeq(s, a + 1, b),
   port   |-> IF At(s, n, b, ":") THEN SubSeq(s, b + 2, c) ELSE <<>>,
   path   |-> SubSeq(s, c + 1, d),
   query  |-> IF At(s, n, d, "?") THEN SubSeq(s, d + 1, n) ELSE <<>>,
   colon  |-> At(s, n, b, ":")]

(* The digits after a colon are a window, too.                             *)
LEMMA PortCut ==
  ASSUME NEW C, NEW s \in Seq(C), NEW n \in 0 .. Len(s), NEW b \in 0 .. n, NEW c \in b + 1 .. n,
         b < n, \A i \in b + 2 .. c : s[i] = "0", c < n => s[c + 1] # "0"
  PROVE  LET s2 == SubSeq(s, b + 1, n)
         IN  CutAt(Tail(s2), ToSet(s2) \ {"0"}) = SubSeq(s, b + 2, c)
<1> DEFINE s2 == SubSeq(s, b + 1, n)
           ends == ToSet(s2) \ {"0"}
<1>1. n \in Nat /\ Len(s) \in Nat /\ b + 1 \in 0 .. Len(s) /\ n \in b + 1 .. Len(s)
      /\ b + 1 \in 1 .. Len(s) /\ b \in 0 .. Len(s) /\ n \in b .. Len(s)
      /\ (b + 1) + 1 = b + 2
  BY LenProperties
<1>2. Tail(s2) = SubSeq(s, (b + 1) + 1, n)
  BY <1>1, HeadTailOfSubSeq
<1>3. s2 \in Seq(C) /\ Len(s2) = n - b /\ \A i \in 1 .. n - b : s2[i] = s[b + i]
  BY <1>1, WindowElements
<1> HIDE DEF s2
<1>4. NextAt(s, ends, b + 1, n, c)
  <2>1. \A i \in (b + 1) + 1 .. c : s[i] \notin ends
    BY <1>1
  <2>2. c < n => s[c + 1] \in ends
    <3>1. SUFFICES ASSUME c < n PROVE s[c + 1] \in ends
      OBVIOUS
    <3>2. c + 1 - b \in 1 .. n - b /\ b + (c + 1 - b) = c + 1
      BY <1>1, <3>1
    <3>3. s2[c + 1 - b] = s[c + 1] /\ c + 1 - b \in 1 .. Len(s2)
      BY <1>3, <3>2
    <3>4. s[c + 1] \in ToSet(s2)
      BY <3>3, <1>3 DEF ToSet
    <3> QED BY <3>1, <3>4
  <2> QED BY <2>1, <2>2 DEF NextAt
<1> HIDE DEF ends
<1>5. CutAt(SubSeq(s, (b + 1) + 1, n), ends) = SubSeq(s, (b + 1) + 1, c)
  BY <1>1, <1>4, CutAtNext
<1> QED BY <1>1, <1>2, <1>5 DEF s2, ends

(* So what the constructor finds is what is between the cuts.              *)
LEMMA PartsBetween ==
  ASSUME NEW C, NEW s \in Seq(C), NEW n \in 0 .. Len(s), NEW a, NEW b, NEW c, NEW d,
         Cuts(s, n, a, b, c, d)
  PROVE  Parts(SubSeq(s, 1, n)) = Between(s, n, a, b, c, d)
<1>1. /\ n \in Nat /\ a \in 0 .. n /\ b \in a .. n /\ c \in b .. n /\ d \in c .. n
      /\ {a, b, c, d} \subseteq 0 .. n /\ Len(s) \in Nat
  BY CutsInOrder
<1>2. /\ a \in 0 .. Len(s) /\ b \in 0 .. Len(s) /\ c \in 0 .. Len(s) /\ d \in 0 .. Len(s)
      /\ n \in a .. Len(s) /\ n \in b .. Len(s) /\ n \in c .. Len(s) /\ n \in d .. Len(s)
  BY <1>1
<1> DEFINE s0 == SubSeq(s, 1, n)
           s1 == SubSeq(s, a + 1, n)
           s2 == SubSeq(s, b + 1, n)
           s3 == SubSeq(s, c + 1, n)
           s4 == SubSeq(s, d + 1, n)
           host == SubSeq(s, a + 1, b)
           port == IF At(s, n, b, ":") THEN SubSeq(s, b + 2, c) ELSE <<>>
           path == SubSeq(s, c + 1, d)
<1>3. Schema(s0) = SubSeq(s, 1, a) /\ Len(SubSeq(s, 1, a)) = a
  <2>1. Len(SubSeq(s, 0 + 1, a)) = a - 0
    BY <1>2, <1>1, WindowElements
  <2>2. 0 + 1 = 1 /\ a - 0 = a
    BY <1>1
  <2> QED BY <2>1, <2>2 DEF Cuts
<1>4. From(s0, a) = s1
  <2>1. From(SubSeq(s, 0 + 1, n), a - 0) = SubSeq(s, a + 1, n)
    <3>1. 0 \in 0 .. Len(s) /\ n \in 0 .. Len(s) /\ a \in 0 .. n
      BY <1>1, <1>2
    <3>2. \A k \in 0 .. n : From(SubSeq(s, 0 + 1, n), k - 0) = SubSeq(s, k + 1, n)
      BY <3>1, FromWindow
    <3> QED BY <3>1, <3>2
  <2>2. 0 + 1 = 1 /\ a - 0 = a
    BY <1>1
  <2> QED BY <2>1, <2>2
<1>5. CutAt(s1, {":", "/", "?"}) = host /\ Len(host) = b - a
  <2>1. NextAt(s, {":", "/", "?"}, a, n, b)
    BY DEF Cuts
  <2> QED BY <1>1, <1>2, <2>1, CutAtNext, WindowElements
<1>6. From(s1, b - a) = s2
  BY <1>1, <1>2, FromWindow
<1>7. Starts(s2, ":") = At(s, n, b, ":")
  BY <1>1, <1>2, StartsAt
<1>8. Starts(s2, ":") => CutAt(Tail(s2), ToSet(s2) \ {"0"}) = port
  <2>1. SUFFICES ASSUME At(s, n, b, ":") PROVE CutAt(Tail(s2), ToSet(s2) \ {"0"}) = SubSeq(s, b + 2, c)
    BY <1>7
  <2>2. b < n /\ c \in b + 1 .. n /\ (\A i \in b + 2 .. c : s[i] = "0") /\ (c < n => s[c + 1] # "0")
    BY <2>1 DEF Cuts, At
  <2>3. b \in 0 .. n
    BY <1>1
  <2> QED BY <2>2, <2>3, PortCut
<1>9. port = IF Starts(s2, ":") THEN CutAt(Tail(s2), ToSet(s2) \ {"0"}) ELSE <<>>
  BY <1>7, <1>8
<1>10. s3 = IF Starts(s2, ":") THEN From(s2, Len(port) + 1) ELSE s2
  <2>1. CASE At(s, n, b, ":")
    <3>1. c \in b + 1 .. n /\ b + 1 \in 0 .. Len(s) /\ c \in b + 1 .. Len(s) /\ (b + 1) + 1 = b + 2
      BY <1>1, <2>1 DEF Cuts
    <3>2. Len(SubSeq(s, (b + 1) + 1, c)) = c - (b + 1)
      BY <3>1, WindowElements
    <3>3. Len(port) + 1 = c - b
      BY <2>1, <3>1, <3>2, <1>1
    <3>4. From(s2, c - b) = s3
      BY <1>1, <1>2, FromWindow
    <3> QED BY <1>7, <2>1, <3>3, <3>4
  <2>2. CASE ~At(s, n, b, ":")
    BY <1>7, <2>2 DEF Cuts
  <2> QED BY <2>1, <2>2
<1>11. Starts(s3, "/") = At(s, n, c, "/") /\ Starts(s4, "?") = At(s, n, d, "?")
  BY <1>1, <1>2, StartsAt
<1>12. path = (IF Starts(s3, "/") THEN CutAt(s3, {"?"}) ELSE <<>>) /\ Len(path) = d - c
  <2>1. CASE At(s, n, c, "/")
    <3>1. NextAt(s, {"?"}, c, n, d)
      BY <2>1 DEF Cuts
    <3>2. CutAt(s3, {"?"}) = path
      BY <1>1, <1>2, <3>1, CutAtNext
    <3>3. Len(path) = d - c
      BY <1>1, <1>2, WindowElements
    <3> QED BY <1>11, <2>1, <3>2, <3>3
  <2>2. CASE ~At(s, n, c, "/")
    <3>1. d = c /\ c < c + 1 /\ c \in Int /\ c + 1 \in Int /\ d - c = 0
      BY <2>2, <1>1 DEF Cuts
    <3>2. path = <<>> /\ Len(<<>>) = 0
      BY <3>1, SubSeqEmpty
    <3> QED BY <1>11, <2>2, <3>1, <3>2
  <2> QED BY <2>1, <2>2
<1>13. From(s3, d - c) = s4
  BY <1>1, <1>2, FromWindow
<1>14. QueryOf(s4) = IF At(s, n, d, "?") THEN SubSeq(s, d + 1, n) ELSE <<>>
  BY <1>11 DEF QueryOf
<1> HIDE DEF s0, s1, s2, s3, s4, host, port, path
<1>15. Parts(s0) = [schema |-> SubSeq(s, 1, a), host |-> host, port |-> port, path |-> path,
                    query |-> QueryOf(s4), colon |-> At(s, n, b, ":")]
  BY <1>3, <1>4, <1>5, <1>6, <1>7, <1>9, <1>10, <1>12, <1>13 DEF Parts
<1> QED BY <1>14, <1>15 DEF Between, s0, host, port, path

LEMMA Adjacent ==
  ASSUME NEW C, NEW s \in Seq(C), NEW m \in 1 .. Len(s) + 1, NEW k \in m - 1 .. Len(s), NEW n \in k .. Len(s)
  PROVE  SubSeq(s, m, k) \o SubSeq(s, k + 1, n) = SubSeq(s, m, n)
BY ConcatAdjacentSubSeq

LEMMA NothingAppended ==
  ASSUME NEW C, NEW s \in Seq(C)
  PROVE  s \o <<>> = s
BY ConcatEmptySeq

-----------------------------------------------------------------------------
(* The parts together are the text up to where nothing is lost.            *)
LEMMA JoinedBetween ==
  ASSUME NEW C, NEW s \in Seq(C), NEW a, NEW b, NEW c, NEW d, Cuts(s, Len(s), a, b, c, d),
         At(s, Len(s), b, ":") => SubSeq(s, b + 2, c) # <<>>
  PROVE  Joined(Between(s, Len(s), a, b, c, d))
           = IF At(s, Len(s), d, "?") THEN s ELSE SubSeq(s, 1, d)
<1> DEFINE n == Len(s)
           p == Between(s, n, a, b, c, d)
<1>1. /\ n \in Nat /\ a \in 0 .. n /\ b \in a .. n /\ c \in b .. n /\ d \in c .. n
      /\ {a, b, c, d} \subseteq 0 .. n /\ SubSeq(s, 1, n) = s
  <2>1. Len(s) \in 0 .. Len(s)
    BY LenProperties
  <2> QED BY <2>1, CutsInOrder, SubSeqFull
<1>2. \A k \in 0 .. n : SubSeq(s, 1, k) \in Seq(C)
  <2>1. ASSUME NEW k \in 0 .. n PROVE SubSeq(s, 0 + 1, k) \in Seq(C)
    <3>1. 0 \in 0 .. Len(s) /\ k \in 0 .. Len(s)
      BY <1>1
    <3> QED BY <3>1, WindowElements
  <2>2. 0 + 1 = 1
    OBVIOUS
  <2> QED BY <2>1, <2>2
<1>3. \A k \in 0 .. n, l \in 0 .. n : k <= l => SubSeq(s, 1, k) \o SubSeq(s, k + 1, l) = SubSeq(s, 1, l)
  <2> SUFFICES ASSUME NEW k \in 0 .. n, NEW l \in 0 .. n, k <= l
               PROVE  SubSeq(s, 1, k) \o SubSeq(s, k + 1, l) = SubSeq(s, 1, l)
    OBVIOUS
  <2>1. 1 \in 1 .. Len(s) + 1 /\ k \in 1 - 1 .. Len(s) /\ l \in k .. Len(s)
    BY <1>1
  <2> QED BY <2>1, Adjacent
<1>4. SubSeq(s, 1, a) \o SubSeq(s, a + 1, b) = SubSeq(s, 1, b)
  BY <1>1, <1>3
<1>5. SubSeq(s, 1, b) \o (IF p.port = <<>> THEN <<>> ELSE <<":">> \o p.port) = SubSeq(s, 1, c)
  <2>1. p.port = IF At(s, n, b, ":") THEN SubSeq(s, b + 2, c) ELSE <<>>
    BY DEF Between
  <2>2. CASE At(s, n, b, ":")
    <3>1. b < n /\ s[b + 1] = ":" /\ c \in b + 1 .. n
      BY <2>2 DEF At, Cuts
    <3>2. b + 1 \in 1 .. Len(s) /\ c \in b + 1 .. Len(s) /\ (b + 1) + 1 = b + 2 /\ b <= c
      BY <1>1, <3>1
    <3>3. SubSeq(s, b + 1, c) = <<s[b + 1]>> \o SubSeq(s, (b + 1) + 1, c)
      BY <3>2, SubSeqRecursiveFirst
    <3>4. <<":">> \o p.port = SubSeq(s, b + 1, c) /\ p.port # <<>>
      BY <2>1, <2>2, <3>1, <3>2, <3>3
    <3> QED BY <1>1, <1>3, <3>2, <3>4
  <2>3. CASE ~At(s, n, b, ":")
    <3>1. c = b /\ p.port = <<>>
      BY <2>1, <2>3 DEF Cuts
    <3> QED BY <1>1, <1>2, <3>1, NothingAppended
  <2> QED BY <2>2, <2>3
<1>6. SubSeq(s, 1, c) \o SubSeq(s, c + 1, d) = SubSeq(s, 1, d)
  BY <1>1, <1>3
<1>7. SubSeq(s, 1, d) \o p.query = IF At(s, n, d, "?") THEN s ELSE SubSeq(s, 1, d)
  <2>1. p.query = IF At(s, n, d, "?") THEN SubSeq(s, d + 1, n) ELSE <<>>
    BY DEF Between
  <2>2. SubSeq(s, 1, d) \o <<>> = SubSeq(s, 1, d)
    BY <1>1, <1>2, NothingAppended
  <2>3. SubSeq(s, 1, d) \o SubSeq(s, d + 1, n) = s
    <3>1. d \in 0 .. n /\ n \in 0 .. n /\ d <= n
      BY <1>1
    <3> QED BY <1>1, <1>3, <3>1
  <2> QED BY <2>1, <2>2, <2>3
<1>8. p.schema = SubSeq(s, 1, a) /\ p.host = SubSeq(s, a + 1, b) /\ p.path = SubSeq(s, c + 1, d)
  BY DEF Between
<1> HIDE DEF p, n
<1>9. Joined(p) = IF At(s, n, d, "?") THEN s ELSE SubSeq(s, 1, d)
  BY <1>4, <1>5, <1>6, <1>7, <1>8 DEF Joined
<1> QED BY <1>9 DEF p, n

(* What is lost is all that follows a port.                                *)
LEMMA LostAfterPort ==
  ASSUME NEW C, NEW s \in Seq(C), NEW a, NEW b, NEW c, NEW d, Cuts(s, Len(s), a, b, c, d),
         ~At(s, Len(s), d, "?"), d # Len(s)
  PROVE  d = c /\ At(s, Len(s), b, ":") /\ ~At(s, Len(s), c, "/")
<1> DEFINE n == Len(s)
<1>1. /\ n \in Nat /\ a \in 0 .. n /\ b \in a .. n /\ c \in b .. n /\ d \in c .. n
      /\ {a, b, c, d} \subseteq 0 .. n
  <2>1. Len(s) \in 0 .. Len(s)
    BY LenProperties
  <2> QED BY <2>1, CutsInOrder
<1>2. d < n /\ s[d + 1] # "?"
  BY <1>1 DEF At
<1>3. ~At(s, n, c, "/")
  BY <1>2 DEF Cuts, NextAt
<1>4. d = c
  BY <1>3 DEF Cuts
<1>5. At(s, n, b, ":")
  <2> SUFFICES ASSUME ~At(s, n, b, ":") PROVE FALSE
    OBVIOUS
  <2>1. c = b
    BY DEF Cuts
  <2>2. s[b + 1] \in {":", "/", "?"}
    BY <1>2, <1>4, <2>1 DEF Cuts, NextAt
  <2> QED BY <1>2, <1>3, <1>4, <2>1, <2>2 DEF At
<1> QED BY <1>3, <1>4, <1>5

(* Without what is lost it is cut as before.                               *)
LEMMA CutAgain ==
  ASSUME NEW C, NEW s \in Seq(C), NEW a, NEW b, NEW c, Cuts(s, Len(s), a, b, c, c),
         At(s, Len(s), b, ":"), ~At(s, Len(s), c, "/"), ~At(s, Len(s), c, "?")
  PROVE  Parts(SubSeq(s, 1, c)) = Parts(s)
<1> DEFINE n == Len(s)
<1>1. /\ n \in Nat /\ a \in 0 .. n /\ b \in a .. n /\ c \in b .. n
      /\ {a, b, c} \subseteq 0 .. n /\ n \in 0 .. n /\ SubSeq(s, 1, n) = s
  <2>1. Len(s) \in 0 .. Len(s)
    BY LenProperties
  <2> QED BY <2>1, CutsInOrder, SubSeqFull
<1>2. /\ Schema(s) = SubSeq(s, 1, a) /\ c \in b + 1 .. n
      /\ (\A i \in b + 2 .. c : s[i] = "0") /\ NextAt(s, {":", "/", "?"}, a, n, b)
  BY <1>1 DEF Cuts
<1>3. ~At(s, c, c, "/") /\ ~At(s, c, c, "?") /\ At(s, c, b, ":")
  BY <1>1, <1>2 DEF At
<1>4. Cuts(s, c, a, b, c, c)
  <2>1. a \in 0 .. c
    BY <1>1
  <2>2. Len(Schema(s)) <= c
    <3>1. Len(SubSeq(s, 0 + 1, a)) = a - 0
      <4>1. 0 \in 0 .. Len(s) /\ a \in 0 .. Len(s)
        BY <1>1
      <4> QED BY <4>1, WindowElements
    <3>2. 0 + 1 = 1 /\ a - 0 = a /\ a <= c
      BY <1>1
    <3> QED BY <1>2, <3>1, <3>2
  <2>3. Schema(SubSeq(s, 1, c)) = SubSeq(s, 1, a)
    BY <1>1, <1>2, <2>2, SchemaOfCut
  <2>4. NextAt(s, {":", "/", "?"}, a, c, b)
    BY <1>1, <1>2 DEF NextAt
  <2>5. ~(c < c) /\ c \in b + 1 .. c
    BY <1>1, <1>2
  <2> QED BY <1>2, <1>3, <2>1, <2>3, <2>4, <2>5 DEF Cuts
<1>5. Parts(SubSeq(s, 1, c)) = Between(s, c, a, b, c, c)
  BY <1>1, <1>4, PartsBetween
<1>6. Parts(SubSeq(s, 1, n)) = Between(s, n, a, b, c, c)
  BY <1>1, PartsBetween
<1>7. Between(s, n, a, b, c, c) = Between(s, c, a, b, c, c)
  <2>1. At(s, n, b, ":") = At(s, c, b, ":")
    BY <1>3 DEF At
  <2> QED BY <1>3, <2>1 DEF Between
<1> QED BY <1>1, <1>5, <1>6, <1>7

LEMMA PartsRejoined ==
  ASSUME NEW C, NEW s \in Seq(C), ~(Parts(s).colon /\ Parts(s).port = <<>>)
  PROVE  /\ IsPrefix(Joined(Parts(s)), s)
         /\ Joined(Parts(s)) # s =>
              Parts(s).port # <<>> /\ Parts(s).path = <<>> /\ Parts(s).query = <<>>
         /\ Parts(Joined(Parts(s))) = Parts(s)
<1> DEFINE n == Len(s)
<1>1. n \in Nat /\ SubSeq(s, 1, n) = s /\ n \in 0 .. n
  BY LenProperties, SubSeqFull
<1>2. PICK a, b, c, d : Cuts(s, n, a, b, c, d)
  BY CutsExist
<1>3. Parts(s) = Between(s, n, a, b, c, d)
  BY <1>1, <1>2, PartsBetween
<1>4. /\ Parts(s).port = IF At(s, n, b, ":") THEN SubSeq(s, b + 2, c) ELSE <<>>
      /\ Parts(s).colon = At(s, n, b, ":")
      /\ Parts(s).path = SubSeq(s, c + 1, d)
      /\ Parts(s).query = IF At(s, n, d, "?") THEN SubSeq(s, d + 1, n) ELSE <<>>
  <2> DEFINE p == Between(s, n, a, b, c, d)
  <2>1. p.port = IF At(s, n, b, ":") THEN SubSeq(s, b + 2, c) ELSE <<>>
    BY DEF Between
  <2>2. p.query = IF At(s, n, d, "?") THEN SubSeq(s, d + 1, n) ELSE <<>>
    BY DEF Between
  <2>3. p.path = SubSeq(s, c + 1, d) /\ p.colon = At(s, n, b, ":")
    BY DEF Between, At
  <2> HIDE DEF p
  <2>4. Parts(s) = p
    BY <1>3 DEF p
  <2> QED BY <2>1, <2>2, <2>3, <2>4
<1>5. At(s, n, b, ":") => SubSeq(s, b + 2, c) # <<>>
  BY <1>4
<1>6. Joined(Parts(s)) = IF At(s, n, d, "?") THEN s ELSE SubSeq(s, 1, d)
  BY <1>2, <1>3, <1>5, JoinedBetween
<1>7. CASE Joined(Parts(s)) = s
  BY <1>1, <1>7 DEF IsPrefix
<1>8. CASE Joined(Parts(s)) # s
  <2>1. ~At(s, n, d, "?") /\ d # n
    BY <1>1, <1>6, <1>8
  <2>2. d = c /\ At(s, n, b, ":") /\ ~At(s, n, c, "/")
    BY <1>2, <2>1, LostAfterPort
  <2>3. Cuts(s, n, a, b, c, c)
    BY <1>2, <2>2
  <2>4. Parts(SubSeq(s, 1, c)) = Parts(s)
    BY <2>1, <2>2, <2>3, CutAgain
  <2>5. c \in 0 .. n
    BY <1>1, <1>2, CutsInOrder
  <2>6. SubSeq(s, c + 1, c) = <<>>
    BY <2>5, SubSeqEmpty
  <2>7. IsPrefix(SubSeq(s, 1, c), s)
    <3>1. Len(SubSeq(s, 0 + 1, c)) = c - 0
      <4>1. 0 \in 0 .. Len(s) /\ c \in 0 .. Len(s)
        BY <2>5
      <4> QED BY <4>1, WindowElements
    <3>2. SubSeq(SubSeq(s, 0 + 1, c), 0 + 1, c) = SubSeq(s, 0 + 0 + 1, 0 + c)
      <4>1. 0 \in 0 .. Len(s) /\ c \in 0 .. Len(s) /\ 0 \in 0 .. c - 0 /\ c \in 0 .. c - 0
        BY <2>5
      <4> QED BY <4>1, Window
    <3>3. 0 + 1 = 1 /\ 0 + 0 + 1 = 1 /\ 0 + c = c /\ c - 0 = c /\ c <= n
      BY <1>1, <2>5
    <3> QED BY <3>1, <3>2, <3>3 DEF IsPrefix
  <2> QED BY <1>4, <1>5, <1>6, <2>1, <2>2, <2>4, <2>6, <2>7
<1> QED BY <1>7, <1>8

-----------------------------------------------------------------------------
(* The invariant: a URL that was made has the parts of its source.         *)
UrlInv ==
  /\ source \in Sources
  /\ urlState = "made" => url = Parts(source) /\ ~(url.colon /\ url.port = <<>>)

(* Whatever text a URL is constructed from, its parts are the text again,  *)
(* and are the same parts when they are parsed again (url.h:9-79); only   *)
(* what follows a port and is neither path nor query is dropped.           *)
THEOREM UrlIsRejoined == UrlSpec => []UrlRejoined
<1>1. UrlInit => UrlInv
  BY DEF UrlInit, UrlInv
<1>2. UrlInv /\ [MakeUrl]_urlVars => UrlInv'
  BY DEF UrlInv, MakeUrl, urlVars
<1>3. UrlInv => UrlRejoined
  <2> SUFFICES ASSUME UrlInv, urlState = "made" PROVE UrlRejoined
    BY DEF UrlRejoined
  <2>1. source \in Seq(STRING) /\ url = Parts(source) /\ ~(url.colon /\ url.port = <<>>)
    BY UrlAssumption DEF UrlInv
  <2>2. /\ IsPrefix(Joined(url), source)
        /\ Joined(url) # source => url.port # <<>> /\ url.path = <<>> /\ url.query = <<>>
        /\ Parts(Joined(url)) = url
    BY <2>1, PartsRejoined
  <2> QED BY <2>2 DEF UrlRejoined
<1> QED BY <1>1, <1>2, <1>3, PTL DEF UrlSpec

-----------------------------------------------------------------------------
(* Cutting a text at the first of a symbol.                                *)

LEMMA FirstOccurrence ==
  ASSUME NEW C, NEW s \in Seq(C), NEW c, Contains(s, c)
  PROVE  \E k \in 1 .. Len(s) : s[k] = c /\ \A i \in 1 .. k - 1 : s[i] # c
<1> DEFINE I == { i \in 1 .. Len(s) : s[i] = c }
<1>1. I \in SUBSET Nat /\ I # {}
  BY DEF Contains
<1>2. PICK k \in I : \A i \in I : k <= i
  <2> HIDE DEF I
  <2> QED BY <1>1, LeastElement
<1>3. Len(s) \in Nat
  BY LenProperties
<1>4. ASSUME NEW i \in 1 .. k - 1 PROVE s[i] # c
  BY <1>2, <1>3
<1> QED BY <1>2, <1>4

LEMMA CutThere ==
  ASSUME NEW C, NEW s \in Seq(C), NEW c, NEW k \in 1 .. Len(s),
         s[k] = c, \A i \in 1 .. k - 1 : s[i] # c
  PROVE  Before(s, c) = SubSeq(s, 1, k - 1) /\ After(s, c) = SubSeq(s, k + 1, Len(s))
<1> DEFINE I == { i \in 1 .. Len(s) : s[i] = c }
<1>1. SelectInSeq(s, LAMBDA e : e = c) = IF I # {} THEN Min(I) ELSE 0
  BY DEF SelectInSeq
<1>2. Len(s) \in Nat
  BY LenProperties
<1>3. k \in I /\ I \subseteq Int
  OBVIOUS
<1>4. ASSUME NEW i \in I PROVE k <= i
  BY <1>2
<1> HIDE DEF I
<1>5. Min(I) = k
  BY <1>3, <1>4, LeastIsMin
<1>6. SelectInSeq(s, LAMBDA e : e = c) = k
  BY <1>1, <1>3, <1>5
<1>7. Contains(s, c)
  BY DEF Contains
<1> QED BY <1>6, <1>7 DEF Before, After

-----------------------------------------------------------------------------
(* m_params.insert                                                         *)

LEMMA EnterKeeps ==
  ASSUME NEW map, NEW arg, NEW n \in DOMAIN map
  PROVE  n \in DOMAIN Enter(map, arg) /\ Enter(map, arg)[n] = map[n]
BY DEF Enter

LEMMA EnterNew ==
  ASSUME NEW map, NEW arg, arg # <<>>
  PROVE  /\ DOMAIN Enter(map, arg) = DOMAIN map \cup {Before(arg, "=")}
         /\ Before(arg, "=") \notin DOMAIN map => Enter(map, arg)[Before(arg, "=")] = After(arg, "=")
BY DEF Enter

LEMMA EnterNothing ==
  ASSUME NEW map
  PROVE  Enter(map, <<>>) = map
BY DEF Enter

FirstArg == Before(query, "&")
OtherArgs  == After(query, "&")
PlainOthers == ~Contains(OtherArgs, "&") /\ ~Contains(OtherArgs, "c")

(* The first argument is there with its value, and is what a query says    *)
(* of its name.                                                            *)
FirstKept ==
  FirstArg # <<>> => /\ Before(FirstArg, "=") \in DOMAIN args
                     /\ args[Before(FirstArg, "=")] = After(FirstArg, "=")

(* The invariant: before the first & nothing is entered; after it the      *)
(* first argument is, and stays; and what follows is entered as a whole    *)
(* where nothing cuts it.                                                  *)
QueryInv ==
  /\ query \in Seq({"&", "=", "c", "x"})
  /\ splitAt \in {"&", "c"}
  /\ ~argsRead /\ splitAt = "&" => rest = query /\ args = <<>>
  /\ ~argsRead /\ splitAt = "c" => FirstKept /\ (PlainOthers => rest = OtherArgs /\ args = Enter(<<>>, FirstArg))
  /\ argsRead => FirstKept /\ (PlainOthers => args = Enter(Enter(<<>>, FirstArg), OtherArgs))

(* It is, when the first argument has just been entered.                   *)
LEMMA FirstEntered ==
  LET one == Enter(<<>>, FirstArg)
  IN  FirstArg # <<>> => Before(FirstArg, "=") \in DOMAIN one /\ one[Before(FirstArg, "=")] = After(FirstArg, "=")
<1>1. DOMAIN <<>> = {}
  OBVIOUS
<1> QED BY <1>1, EnterNew

LEMMA QueryInitInv == QueryInit => QueryInv
BY QueryAssumption DEF QueryInit, QueryInv

LEMMA SplitInv == ASSUME QueryInv, SplitArgument PROVE QueryInv'
<1>1. /\ ~argsRead /\ Contains(rest, splitAt) /\ args' = Enter(args, Before(rest, splitAt))
      /\ rest' = After(rest, splitAt) /\ splitAt' = "c" /\ query' = query /\ argsRead' = FALSE
      /\ FirstArg' = FirstArg /\ OtherArgs' = OtherArgs /\ PlainOthers' = PlainOthers
  BY DEF SplitArgument, FirstArg, OtherArgs, PlainOthers, QueryInv
<1>2. CASE splitAt = "&"
  <2>1. rest = query /\ args = <<>>
    BY <1>1, <1>2 DEF QueryInv
  <2>2. args' = Enter(<<>>, FirstArg) /\ rest' = OtherArgs
    BY <1>1, <1>2, <2>1 DEF FirstArg, OtherArgs
  <2>3. FirstKept'
    BY <1>1, <2>2, FirstEntered DEF FirstKept
  <2> QED BY <1>1, <2>2, <2>3 DEF QueryInv
<1>3. CASE splitAt = "c"
  <2>1. FirstKept /\ ~PlainOthers
    BY <1>1, <1>3 DEF QueryInv, PlainOthers
  <2>2. FirstKept'
    BY <1>1, <2>1, EnterKeeps DEF FirstKept
  <2> QED BY <1>1, <2>1, <2>2 DEF QueryInv
<1> QED BY <1>2, <1>3 DEF QueryInv

LEMMA NoneThere ==
  ASSUME NEW s, NEW c, ~Contains(s, c)
  PROVE  Before(s, c) = s /\ After(s, c) = <<>>
BY DEF Before, After

LEMMA LastInv == ASSUME QueryInv, LastArgument PROVE QueryInv'
<1>1. /\ ~argsRead /\ ~Contains(rest, splitAt) /\ args' = Enter(args, rest)
      /\ splitAt' = splitAt /\ query' = query /\ argsRead'
      /\ FirstArg' = FirstArg /\ OtherArgs' = OtherArgs /\ PlainOthers' = PlainOthers
  BY DEF LastArgument, FirstArg, OtherArgs, PlainOthers
<1>2. CASE splitAt = "&"
  <2>1. args' = Enter(<<>>, FirstArg) /\ OtherArgs = <<>>
    BY <1>1, <1>2, NoneThere DEF QueryInv, FirstArg, OtherArgs
  <2>2. FirstKept'
    BY <1>1, <2>1, FirstEntered DEF FirstKept
  <2>3. args' = Enter(Enter(<<>>, FirstArg), OtherArgs)
    BY <2>1, EnterNothing
  <2> QED BY <1>1, <2>2, <2>3 DEF QueryInv
<1>3. CASE splitAt = "c"
  <2>1. FirstKept /\ (PlainOthers => args' = Enter(Enter(<<>>, FirstArg), OtherArgs))
    BY <1>1, <1>3 DEF QueryInv
  <2>2. FirstKept'
    BY <1>1, <2>1, EnterKeeps DEF FirstKept
  <2> QED BY <1>1, <2>1, <2>2 DEF QueryInv
<1> QED BY <1>2, <1>3 DEF QueryInv

(* A query with no second &: what is before the first one, and after it,   *)
(* are its arguments, if there is anything.                                *)
TwoPieces(q, k) ==
  /\ k \in 0 .. Len(q) /\ \A i \in 1 .. k : q[i] # "&"
  /\ k < Len(q) => q[k + 1] = "&" /\ \A i \in k + 2 .. Len(q) : q[i] # "&"

LEMMA PiecesAre ==
  ASSUME NEW C, NEW q \in Seq(C), NEW k, TwoPieces(q, k)
  PROVE  Pieces(q) = { p \in {<<1, k>>} : k >= 1 } \cup { p \in {<<k + 2, Len(q)>>} : k + 2 <= Len(q) }
<1>1. Len(q) \in Nat /\ k \in 0 .. Len(q)
  BY LenProperties DEF TwoPieces
<1>2. ASSUME NEW i \in 1 .. Len(q), NEW j \in 1 .. Len(q), <<i, j>> \in Pieces(q)
      PROVE  \/ i = 1 /\ j = k /\ k >= 1
             \/ i = k + 2 /\ j = Len(q) /\ k + 2 <= Len(q)
  <2>1. /\ i <= j
        /\ i = 1 \/ q[i - 1] = "&"
        /\ j = Len(q) \/ q[j + 1] = "&"
        /\ \A l \in i .. j : q[l] # "&"
    BY <1>2 DEF Pieces
  <2>2. CASE j <= k
    <3>1. i = 1
      <4>1. i = 1 \/ i - 1 \in 1 .. k
        BY <1>1, <2>1, <2>2
      <4> QED BY <2>1, <4>1 DEF TwoPieces
    <3>2. j = k
      <4>1. j = k \/ (j + 1 \in 1 .. k /\ j # Len(q))
        BY <1>1, <2>1, <2>2
      <4> QED BY <2>1, <4>1 DEF TwoPieces
    <3> QED BY <1>1, <2>1, <3>1, <3>2
  <2>3. CASE j > k
    <3>1. k < Len(q) /\ q[k + 1] = "&"
      BY <1>1, <2>3 DEF TwoPieces
    <3>2. ~(k + 1 \in i .. j)
      BY <2>1, <3>1
    <3>3. i >= k + 2
      BY <1>1, <2>3, <3>2
    <3>4. i = k + 2
      <4>1. i = k + 2 \/ (i - 1 \in k + 2 .. Len(q) /\ i # 1)
        BY <1>1, <3>3
      <4> QED BY <2>1, <3>1, <4>1 DEF TwoPieces
    <3>5. j = Len(q)
      <4>1. j = Len(q) \/ j + 1 \in k + 2 .. Len(q)
        BY <1>1, <2>3
      <4> QED BY <2>1, <3>1, <4>1 DEF TwoPieces
    <3> QED BY <1>1, <2>1, <3>4, <3>5
  <2> QED BY <1>1, <2>2, <2>3
<1>3. \A p \in Pieces(q) : p \in { r \in {<<1, k>>} : k >= 1 } \cup { r \in {<<k + 2, Len(q)>>} : k + 2 <= Len(q) }
  <2> TAKE p \in Pieces(q)
  <2>1. PICK i \in 1 .. Len(q), j \in 1 .. Len(q) : p = <<i, j>>
    BY DEF Pieces
  <2>2. <<i, j>> \in Pieces(q)
    BY <2>1
  <2>3. \/ i = 1 /\ j = k /\ k >= 1
        \/ i = k + 2 /\ j = Len(q) /\ k + 2 <= Len(q)
    BY <1>2, <2>2
  <2> QED BY <2>1, <2>3
<1>4. k >= 1 => <<1, k>> \in Pieces(q)
  <2> SUFFICES ASSUME k >= 1 PROVE <<1, k>> \in Pieces(q)
    OBVIOUS
  <2>1. 1 \in 1 .. Len(q) /\ k \in 1 .. Len(q) /\ 1 <= k
    BY <1>1
  <2>2. k = Len(q) \/ q[k + 1] = "&"
    BY <1>1 DEF TwoPieces
  <2> QED BY <2>1, <2>2 DEF Pieces, TwoPieces
<1>5. k + 2 <= Len(q) => <<k + 2, Len(q)>> \in Pieces(q)
  <2> SUFFICES ASSUME k + 2 <= Len(q) PROVE <<k + 2, Len(q)>> \in Pieces(q)
    OBVIOUS
  <2>1. k + 2 \in 1 .. Len(q) /\ Len(q) \in 1 .. Len(q) /\ (k + 2) - 1 = k + 1 /\ k < Len(q)
    BY <1>1
  <2>2. q[k + 1] = "&" /\ \A i \in k + 2 .. Len(q) : q[i] # "&"
    BY <2>1 DEF TwoPieces
  <2> QED BY <2>1, <2>2 DEF Pieces
<1> QED BY <1>3, <1>4, <1>5

(* What is before the first & and what is after it are the two texts.      *)
LEMMA PlainQuery ==
  ASSUME NEW C, query \in Seq(C), PlainOthers
  PROVE  \E k : /\ TwoPieces(query, k)
                /\ FirstArg = SubSeq(query, 1, k) /\ (FirstArg # <<>>) = (k >= 1)
                /\ OtherArgs = SubSeq(query, k + 2, Len(query)) /\ (OtherArgs # <<>>) = (k + 2 <= Len(query))
<1>1. Len(query) \in Nat /\ \A i \in 1 .. Len(query) : query[i] \in C
  BY LenProperties, ElementOfSeq
<1>2. ASSUME NEW i \in 1 .. Len(query) + 2, NEW j \in 0 .. Len(query)
      PROVE  (SubSeq(query, i, j) # <<>>) = (i <= j)
  <2>1. CASE i <= j
    <3>1. \A l \in i .. j : query[l] \in C
      BY <1>1
    <3>2. Len(SubSeq(query, i, j)) = j - i + 1 /\ j - i + 1 # 0
      BY <1>1, <2>1, <3>1, SubSeqProperties
    <3>3. Len(<<>>) = 0
      OBVIOUS
    <3> QED BY <2>1, <3>2, <3>3
  <2>2. CASE ~(i <= j)
    <3>1. j < i /\ i \in Int /\ j \in Int
      BY <1>1, <2>2
    <3> QED BY <2>2, <3>1, SubSeqEmpty
  <2> QED BY <2>1, <2>2
<1>3. CASE Contains(query, "&")
  <2>1. PICK m \in 1 .. Len(query) : query[m] = "&" /\ \A i \in 1 .. m - 1 : query[i] # "&"
    BY <1>3, FirstOccurrence
  <2>2. FirstArg = SubSeq(query, 1, m - 1) /\ OtherArgs = SubSeq(query, m + 1, Len(query))
    BY <2>1, CutThere DEF FirstArg, OtherArgs
  <2>3. /\ m - 1 \in 0 .. Len(query) /\ (m - 1) + 1 = m /\ (m - 1) + 2 = m + 1
        /\ 1 \in 1 .. Len(query) + 2 /\ m + 1 \in 1 .. Len(query) + 2 /\ Len(query) \in 0 .. Len(query)
    BY <1>1
  <2>4. \A i \in m + 1 .. Len(query) : query[i] # "&"
    <3> TAKE i \in m + 1 .. Len(query)
    <3>1. \A l \in m + 1 .. Len(query) : query[l] \in C
      BY <1>1
    <3>2. /\ Len(OtherArgs) = IF m + 1 <= Len(query) THEN Len(query) - (m + 1) + 1 ELSE 0
          /\ \A l \in 1 .. Len(query) - (m + 1) + 1 : OtherArgs[l] = query[m + 1 + l - 1]
      BY <1>1, <2>2, <3>1, SubSeqProperties
    <3>3. i - m \in 1 .. Len(query) - (m + 1) + 1 /\ m + 1 + (i - m) - 1 = i /\ m + 1 <= Len(query)
      BY <1>1
    <3>4. OtherArgs[i - m] = query[i] /\ i - m \in 1 .. Len(OtherArgs)
      BY <3>2, <3>3
    <3> QED BY <3>4 DEF PlainOthers, Contains
  <2>5. TwoPieces(query, m - 1)
    BY <2>1, <2>3, <2>4 DEF TwoPieces
  <2>6. (FirstArg # <<>>) = (1 <= m - 1) /\ (OtherArgs # <<>>) = (m + 1 <= Len(query))
    BY <1>2, <2>2, <2>3
  <2>7. (1 <= m - 1) = (m - 1 >= 1)
    BY <1>1
  <2> QED BY <2>2, <2>3, <2>5, <2>6, <2>7
<1>4. CASE ~Contains(query, "&")
  <2> DEFINE k == Len(query)
  <2>1. FirstArg = query /\ OtherArgs = <<>>
    BY <1>4, NoneThere DEF FirstArg, OtherArgs
  <2>2. k + 2 \in Int /\ k < k + 2 /\ k \in Int /\ ~(k + 2 <= k) /\ ~(k < k) /\ k \in 0 .. k
    BY <1>1
  <2>3. SubSeq(query, 1, k) = query /\ SubSeq(query, k + 2, k) = <<>>
    BY <2>2, SubSeqFull, SubSeqEmpty
  <2>4. TwoPieces(query, k)
    BY <1>1, <1>4, <2>2 DEF TwoPieces, Contains
  <2>5. (query # <<>>) = (k >= 1)
    <3>1. 1 \in 1 .. k + 2 /\ (1 <= k) = (k >= 1)
      BY <1>1
    <3>2. (SubSeq(query, 1, k) # <<>>) = (1 <= k)
      BY <1>2, <2>2, <3>1
    <3> QED BY <2>3, <3>1, <3>2
  <2> QED BY <2>1, <2>2, <2>3, <2>4, <2>5
<1> QED BY <1>3, <1>4

(* What is entered of both arguments is what such a query says.            *)
LEMMA PlainRead ==
  ASSUME NEW C, query \in Seq(C), PlainOthers, args = Enter(Enter(<<>>, FirstArg), OtherArgs)
  PROVE  /\ DOMAIN args = Named(query)
         /\ \A n \in Named(query) : args[n] = FirstOfName(query, n)
<1> DEFINE N == Before(FirstArg, "=")
           M == Before(OtherArgs, "=")
<1>1. PICK k : /\ TwoPieces(query, k)
               /\ FirstArg = SubSeq(query, 1, k) /\ (FirstArg # <<>>) = (k >= 1)
               /\ OtherArgs = SubSeq(query, k + 2, Len(query)) /\ (OtherArgs # <<>>) = (k + 2 <= Len(query))
  BY PlainQuery
<1> DEFINE p == <<1, k>>
           r == <<k + 2, Len(query)>>
<1>2. Pieces(query) = { t \in {p} : FirstArg # <<>> } \cup { t \in {r} : OtherArgs # <<>> }
  BY <1>1, PiecesAre
<1>3. Text(query, p) = FirstArg /\ Text(query, r) = OtherArgs /\ k \in Nat /\ p[1] < r[1] /\ p[1] \in Int /\ r[1] \in Int
  <2>1. k \in Nat /\ p[1] = 1 /\ p[2] = k /\ r[1] = k + 2 /\ r[2] = Len(query)
    BY <1>1, LenProperties DEF TwoPieces
  <2> QED BY <1>1, <2>1 DEF Text
<1> HIDE DEF p, r
<1>4. Named(query) = { n \in {N} : FirstArg # <<>> } \cup { n \in {M} : OtherArgs # <<>> }
  <2>1. Named(query) = { Before(Text(query, t), "=") : t \in Pieces(query) }
    BY DEF Named
  <2> HIDE DEF N, M
  <2>2. Before(Text(query, p), "=") = N /\ Before(Text(query, r), "=") = M
    BY <1>3 DEF N, M
  <2> QED BY <1>2, <2>1, <2>2
<1>5. /\ FirstArg # <<>> => FirstOfName(query, N) = After(FirstArg, "=")
      /\ OtherArgs # <<>> /\ ~(FirstArg # <<>> /\ M = N) => FirstOfName(query, M) = After(OtherArgs, "=")
  <2> DEFINE of(n) == { t \in Pieces(query) : Before(Text(query, t), "=") = n }
  <2>1. /\ p \in of(N) <=> FirstArg # <<>>
        /\ r \in of(N) <=> OtherArgs # <<>> /\ M = N
        /\ p \in of(M) <=> FirstArg # <<>> /\ M = N
        /\ r \in of(M) <=> OtherArgs # <<>>
        /\ of(N) \subseteq {p, r} /\ of(M) \subseteq {p, r}
    <3>1. p # r
      BY <1>3
    <3>2. /\ p \in Pieces(query) <=> FirstArg # <<>>
          /\ r \in Pieces(query) <=> OtherArgs # <<>>
          /\ Pieces(query) \subseteq {p, r}
      BY <1>2, <3>1
    <3> QED BY <1>3, <3>2
  <2>2. FirstOfName(query, N) = After(Text(query, CHOOSE t \in of(N) : \A u \in of(N) : t[1] <= u[1]), "=")
    BY DEF FirstOfName
  <2>3. FirstOfName(query, M) = After(Text(query, CHOOSE t \in of(M) : \A u \in of(M) : t[1] <= u[1]), "=")
    BY DEF FirstOfName
  <2> DEFINE A == of(N)
             B == of(M)
  <2>4. FirstOfName(query, N) = After(Text(query, CHOOSE t \in A : \A u \in A : t[1] <= u[1]), "=")
    BY <2>2
  <2>5. FirstOfName(query, M) = After(Text(query, CHOOSE t \in B : \A u \in B : t[1] <= u[1]), "=")
    BY <2>3
  <2>6. /\ p \in A <=> FirstArg # <<>>
        /\ p \in B <=> FirstArg # <<>> /\ M = N
        /\ r \in B <=> OtherArgs # <<>>
        /\ A \subseteq {p, r} /\ B \subseteq {p, r}
    BY <2>1
  <2> HIDE DEF of, A, B, N, M
  <2>7. FirstArg # <<>> => (CHOOSE t \in A : \A u \in A : t[1] <= u[1]) = p
    <3> SUFFICES ASSUME FirstArg # <<>> PROVE (CHOOSE t \in A : \A u \in A : t[1] <= u[1]) = p
      OBVIOUS
    <3>1. p \in A /\ \A u \in A : p[1] <= u[1]
      BY <1>3, <2>6
    <3>2. \A t \in A : (\A u \in A : t[1] <= u[1]) => t = p
      BY <1>3, <2>6, <3>1
    <3> QED BY <3>1, <3>2
  <2>8. OtherArgs # <<>> /\ ~(FirstArg # <<>> /\ M = N) => (CHOOSE t \in B : \A u \in B : t[1] <= u[1]) = r
    <3> SUFFICES ASSUME OtherArgs # <<>>, ~(FirstArg # <<>> /\ M = N)
                 PROVE  (CHOOSE t \in B : \A u \in B : t[1] <= u[1]) = r
      OBVIOUS
    <3>1. B = {r}
      BY <2>6
    <3>2. r[1] <= r[1]
      BY <1>3
    <3> QED BY <3>1, <3>2
  <2> QED BY <1>3, <2>4, <2>5, <2>7, <2>8
<1>6. DOMAIN <<>> = {}
  OBVIOUS
<1> DEFINE one == Enter(<<>>, FirstArg)
<1>7. /\ FirstArg # <<>> => DOMAIN one = {N} /\ one[N] = After(FirstArg, "=")
      /\ FirstArg = <<>> => DOMAIN one = {}
  <2>1. CASE FirstArg # <<>>
    <3>1. DOMAIN one = DOMAIN <<>> \cup {N} /\ (N \notin DOMAIN <<>> => one[N] = After(FirstArg, "="))
      BY <2>1, EnterNew
    <3> HIDE DEF one, N
    <3> QED BY <1>6, <2>1, <3>1
  <2>2. CASE FirstArg = <<>>
    BY <1>6, <2>2, EnterNothing
  <2> QED BY <2>1, <2>2
<1>8. /\ OtherArgs # <<>> => DOMAIN args = DOMAIN one \cup {M} /\ (M \notin DOMAIN one => args[M] = After(OtherArgs, "="))
      /\ OtherArgs = <<>> => args = one
      /\ \A n \in DOMAIN one : args[n] = one[n]
  BY EnterNew, EnterNothing, EnterKeeps
<1> HIDE DEF N, M, one
<1>9. DOMAIN args = Named(query)
  BY <1>4, <1>7, <1>8
<1>10. ASSUME NEW n \in Named(query) PROVE args[n] = FirstOfName(query, n)
  <2>1. CASE FirstArg # <<>> /\ n = N
    BY <1>5, <1>7, <1>8, <2>1
  <2>2. CASE OtherArgs # <<>> /\ n = M /\ ~(FirstArg # <<>> /\ M = N)
    <3>1. M \notin DOMAIN one
      BY <1>7, <2>2
    <3> QED BY <1>5, <1>8, <2>2, <3>1
  <2> QED BY <1>4, <2>1, <2>2
<1> QED BY <1>9, <1>10

(* Whatever the query, its first argument is read right and no later one   *)
(* takes its place; and all of it is what the query says, as long as       *)
(* nothing after the first & is another & or the letter c                  *)
(* (fcgi_handler.cpp:430-472).                                             *)
THEOREM QueryIsRead == QuerySpec => []QueryRead
<1>1. QueryInit => QueryInv
  BY QueryInitInv
<1>2. QueryInv /\ [QueryNext]_queryVars => QueryInv'
  <2> SUFFICES ASSUME QueryInv, [QueryNext]_queryVars PROVE QueryInv'
    OBVIOUS
  <2>1. CASE SplitArgument
    BY <2>1, SplitInv
  <2>2. CASE LastArgument
    BY <2>2, LastInv
  <2>3. CASE UNCHANGED queryVars
    BY <2>3 DEF queryVars, QueryInv, FirstKept, FirstArg, OtherArgs, PlainOthers
  <2> QED BY <2>1, <2>2, <2>3 DEF QueryNext
<1>3. QueryInv => QueryRead
  <2> SUFFICES ASSUME QueryInv, argsRead PROVE QueryRead
    BY DEF QueryRead
  <2>1. query \in Seq({"&", "=", "c", "x"}) /\ FirstKept /\ (PlainOthers => args = Enter(Enter(<<>>, FirstArg), OtherArgs))
    BY DEF QueryInv
  <2>2. FirstArg # <<>> => has_param(Before(FirstArg, "=")) /\ get_param(Before(FirstArg, "=")) = After(FirstArg, "=")
    BY <2>1 DEF FirstKept, has_param, get_param
  <2>3. PlainOthers => DOMAIN args = Named(query) /\ \A n \in Named(query) : args[n] = FirstOfName(query, n)
    BY <2>1, PlainRead
  <2>4. PlainOthers => DOMAIN args = Named(query) /\ \A n \in Named(query) : get_param(n) = FirstOfName(query, n)
    BY <2>3 DEF has_param, get_param
  <2> QED BY <2>2, <2>4 DEF QueryRead, FirstArg, OtherArgs, PlainOthers
<1> QED BY <1>1, <1>2, <1>3, PTL DEF QuerySpec

-----------------------------------------------------------------------------
(* A year, counted from March, by its place in four centuries.             *)
YearIs(y, q, r, h, k) ==
  q \in Int /\ r \in 0 .. 3 /\ h \in 0 .. 24 /\ k \in 0 .. 3 /\ y = 400 * q + 100 * r + 4 * h + k

LEMMA YearHasPlace ==
  ASSUME NEW y \in Int
  PROVE  \E q, r, h, k : YearIs(y, q, r, h, k)
<1> DEFINE q == y \div 400
           u == y % 400
           r == u \div 100
           v == u % 100
           h == v \div 4
           k == v % 4
<1>1. q \in Int /\ u \in 0 .. 399 /\ y = 400 * q + u
  OBVIOUS
<1> HIDE DEF q, u
<1>2. r \in 0 .. 3 /\ v \in 0 .. 99 /\ u = 100 * r + v
  BY <1>1
<1> HIDE DEF r, v
<1>3. h \in 0 .. 24 /\ k \in 0 .. 3 /\ v = 4 * h + k
  BY <1>2
<1> HIDE DEF h, k
<1>4. YearIs(y, q, r, h, k)
  BY <1>1, <1>2, <1>3 DEF YearIs
<1> QED BY <1>4

LEMMA LeapYears ==
  ASSUME NEW y, NEW q, NEW r, NEW h, NEW k, YearIs(y, q, r, h, k)
  PROVE  Gregorian!Leap(y + 1) <=> (k = 3 /\ (h # 24 \/ r = 3))
<1>1. q \in Int /\ r \in 0 .. 3 /\ h \in 0 .. 24 /\ k \in 0 .. 3 /\ y = 400 * q + 100 * r + 4 * h + k
  BY DEF YearIs
<1>2. (y + 1) % 4 = 0 <=> k = 3
  <2>1. y + 1 = 4 * (100 * q + 25 * r + h) + (k + 1)
    BY <1>1
  <2> QED BY <1>1, <2>1
<1>3. (y + 1) % 100 = 0 <=> (h = 24 /\ k = 3)
  <2>1. y + 1 = 100 * (4 * q + r) + (4 * h + k + 1)
    BY <1>1
  <2> QED BY <1>1, <2>1
<1>4. (y + 1) % 400 = 0 <=> (r = 3 /\ h = 24 /\ k = 3)
  <2>1. y + 1 = 400 * q + (100 * r + 4 * h + k + 1)
    BY <1>1
  <2> QED BY <1>1, <2>1
<1> QED BY <1>2, <1>3, <1>4 DEF Gregorian!Leap

(* The days before a month, counted from March and from 122.               *)
BeforeMonth(m) == (306001 * (m + 1)) \div 10000

LEMMA MonthTable ==
  /\ BeforeMonth(3) = 122 /\ BeforeMonth(4) = 153 /\ BeforeMonth(5) = 183 /\ BeforeMonth(6) = 214
  /\ BeforeMonth(7) = 244 /\ BeforeMonth(8) = 275 /\ BeforeMonth(9) = 306 /\ BeforeMonth(10) = 336
  /\ BeforeMonth(11) = 367 /\ BeforeMonth(12) = 397 /\ BeforeMonth(13) = 428 /\ BeforeMonth(14) = 459
BY DEF BeforeMonth

(* The number of a day that is the xth of such a year.                     *)
Number(q, r, h, k, x) == 146097 * q + 36524 * r + 1461 * h + 365 * k + x + 1720997

LEMMA JulianNumber ==
  ASSUME NEW d \in [year : Int, month : 1 .. 12, day : Int], NEW q, NEW r, NEW h, NEW k,
         YearIs(IF d.month <= 2 THEN d.year - 1 ELSE d.year, q, r, h, k)
  PROVE  ymd_to_julian_day(d)
           = Number(q, r, h, k, d.day + BeforeMonth(IF d.month <= 2 THEN d.month + 12 ELSE d.month))
<1> DEFINE y == IF d.month <= 2 THEN d.year - 1 ELSE d.year
           m == IF d.month <= 2 THEN d.month + 12 ELSE d.month
           a == y \div 100
<1>1. q \in Int /\ r \in 0 .. 3 /\ h \in 0 .. 24 /\ k \in 0 .. 3 /\ y = 400 * q + 100 * r + 4 * h + k
  BY DEF YearIs
<1>2. m \in 3 .. 14 /\ d.day \in Int
  OBVIOUS
<1>3. ymd_to_julian_day(d) = 2 - a + a \div 4 + d.day + (1461 * (y + 4716)) \div 4 + BeforeMonth(m) - 1524
  BY DEF ymd_to_julian_day, BeforeMonth
<1> HIDE DEF y, m
<1>4. a = 4 * q + r
  <2>1. y = 100 * (4 * q + r) + (4 * h + k) /\ 4 * h + k \in 0 .. 99
    BY <1>1
  <2> QED BY <1>1, <2>1
<1> HIDE DEF a
<1>5. a \div 4 = q
  BY <1>1, <1>4
<1>6. (1461 * (y + 4716)) \div 4 = 1461 * (100 * q + 25 * r + h + 1179) + 365 * k
  <2>1. 1461 * (y + 4716) = 4 * (1461 * (100 * q + 25 * r + h + 1179) + 365 * k) + k
    BY <1>1
  <2> DEFINE n == 1461 * (100 * q + 25 * r + h + 1179) + 365 * k
  <2>2. n \in Int
    BY <1>1
  <2> HIDE DEF n
  <2>3. (4 * n + k) \div 4 = n
    BY <1>1, <2>2
  <2> QED BY <2>1, <2>3 DEF n
<1>7. BeforeMonth(m) \in Int
  BY <1>2 DEF BeforeMonth
<1> QED BY <1>1, <1>2, <1>3, <1>4, <1>5, <1>6, <1>7 DEF Number, y, m

(* The last day of such a month.                                           *)
LastOf(m, r, h, k) ==
  IF m = 14 THEN (IF k = 3 /\ (h # 24 \/ r = 3) THEN 29 ELSE 28)
  ELSE IF m \in {4, 6, 9, 11} THEN 30 ELSE 31

LEMMA WithinYear ==
  ASSUME NEW q, NEW r, NEW h, NEW k, NEW y, YearIs(y, q, r, h, k),
         NEW m \in 3 .. 14, NEW day \in Int, 1 <= day, day <= LastOf(m, r, h, k)
  PROVE  LET x == BeforeMonth(m) + day
         IN  /\ x \in Int /\ 123 <= x /\ x <= 488 /\ (x = 488 => k = 3 /\ (h # 24 \/ r = 3))
             /\ (10000 * x) \div 306001 = m + 1
<1>1. m \in {3, 4, 5, 6, 7, 8, 9, 10, 11, 12, 13, 14}
  OBVIOUS
<1>2. CASE m = 14
  BY <1>2, MonthTable DEF LastOf
<1>3. CASE m \in {4, 6, 9, 11}
  BY <1>3, MonthTable DEF LastOf
<1>4. CASE m \in {3, 5, 7}
  BY <1>4, MonthTable DEF LastOf
<1>5. CASE m \in {8, 10, 12, 13}
  BY <1>5, MonthTable DEF LastOf
<1> QED BY <1>1, <1>2, <1>3, <1>4, <1>5

(* The conversion from a number finds the century, the year, the month and *)
(* the day of it.                                                          *)
LEMMA NumberRead ==
  ASSUME NEW q, NEW r, NEW h, NEW k, NEW y, YearIs(y, q, r, h, k),
         NEW m \in 3 .. 14, NEW day \in Int, 1 <= day, day <= LastOf(m, r, h, k)
  PROVE  DayOf(Number(q, r, h, k, day + BeforeMonth(m)))
           = [year  |-> IF m > 12 THEN y + 1 ELSE y,
              month |-> IF m > 12 THEN m - 12 ELSE m,
              day   |-> day]
<1> DEFINE x == BeforeMonth(m) + day
           z == Number(q, r, h, k, day + BeforeMonth(m))
           w == (4 * z - 7468865) \div 146097
           b == z + 1 + w - w \div 4 + 1524
           c == (20 * b - 2442) \div 7305
           d == (1461 * c) \div 4
           e == (10000 * (b - d)) \div 306001
           month == IF e - 1 <= 12 THEN e - 1 ELSE e - 13
<1>1. q \in Int /\ r \in 0 .. 3 /\ h \in 0 .. 24 /\ k \in 0 .. 3 /\ y = 400 * q + 100 * r + 4 * h + k
  BY DEF YearIs
<1>2. /\ x \in Int /\ 123 <= x /\ x <= 488 /\ (x = 488 => k = 3 /\ (h # 24 \/ r = 3))
      /\ (10000 * x) \div 306001 = m + 1
  BY WithinYear
<1>3. BeforeMonth(m) \in Int
  BY DEF BeforeMonth
<1>4. DayOf(z) = [year |-> YearOf(c, month), month |-> month,
                     day |-> b - d - (306001 * e) \div 10000]
  BY DEF DayOf
<1>5. z = 146097 * q + 36524 * r + 1461 * h + 365 * k + x + 1720997
  BY <1>1, <1>2, <1>3 DEF Number
<1>6. day = x - BeforeMonth(m)
  BY <1>3
<1> HIDE DEF x, z, w, b, c, d, e, month
<1>7. w = 4 * (q - 1) + r
  <2>1. 4 * z - 7468865 = 146097 * (4 * (q - 1) + r) + (5844 * h + 1460 * k + 4 * x - 489 - r)
    BY <1>1, <1>2, <1>5
  <2>2. 0 <= 5844 * h + 1460 * k + 4 * x - 489 - r /\ 5844 * h + 1460 * k + 4 * x - 489 - r < 146097
    BY <1>1, <1>2, SMT
  <2> DEFINE n == 4 * (q - 1) + r
             o == 5844 * h + 1460 * k + 4 * x - 489 - r
  <2>3. n \in Int /\ o \in Int /\ 0 <= o /\ o < 146097
    BY <1>1, <1>2, <2>2, SMT
  <2> HIDE DEF n, o
  <2>4. (146097 * n + o) \div 146097 = n
    BY <2>3
  <2>5. 4 * z - 7468865 = 146097 * n + o
    BY <2>1 DEF n, o
  <2>6. w = n
    BY <2>4, <2>5 DEF w
  <2> QED BY <2>6 DEF n
<1>8. w \div 4 = q - 1
  BY <1>1, <1>7
<1>9. b = 146100 * q + 36525 * r + 1461 * h + 365 * k + x + 1722519
  BY <1>1, <1>2, <1>5, <1>7, <1>8 DEF b
<1>10. c = y + 4716
  <2>1. 20 * b - 2442 = 7305 * (y + 4716) + (20 * x - 2442 - 5 * k)
    BY <1>1, <1>2, <1>9
  <2>2. 20 * x - 2442 - 5 * k \in 0 .. 7304
    BY <1>1, <1>2
  <2> DEFINE n == y + 4716
             o == 20 * x - 2442 - 5 * k
  <2>3. n \in Int /\ o \in 0 .. 7304
    BY <1>1, <2>2
  <2> HIDE DEF n, o
  <2>4. (7305 * n + o) \div 7305 = n
    BY <2>3
  <2>5. 20 * b - 2442 = 7305 * n + o
    BY <2>1 DEF n, o
  <2>6. c = n
    BY <2>4, <2>5 DEF c
  <2> QED BY <2>6 DEF n
<1>11. d = 1461 * (100 * q + 25 * r + h + 1179) + 365 * k
  <2> DEFINE n == 1461 * (100 * q + 25 * r + h + 1179) + 365 * k
  <2>1. 1461 * c = 4 * n + k /\ n \in Int
    BY <1>1, <1>10
  <2> HIDE DEF n
  <2>2. (4 * n + k) \div 4 = n
    BY <1>1, <2>1
  <2> QED BY <2>1, <2>2 DEF n, d
<1>12. b - d = x
  BY <1>1, <1>2, <1>9, <1>11
<1>13. e = m + 1
  BY <1>2, <1>12 DEF e
<1>14. month = IF m > 12 THEN m - 12 ELSE m
  BY <1>13 DEF month
<1>15. YearOf(c, month) = IF m > 12 THEN y + 1 ELSE y
  BY <1>1, <1>10, <1>14 DEF YearOf
<1>16. b - d - (306001 * e) \div 10000 = day
  BY <1>6, <1>12, <1>13 DEF BeforeMonth
<1> QED BY <1>4, <1>14, <1>15, <1>16 DEF z

-----------------------------------------------------------------------------
(* A day of the calendar.                                                  *)
RealDay(d) ==
  /\ d \in [year : Int, month : 1 .. 12, day : Int]
  /\ 1 <= d.day /\ d.day <= Gregorian!Days(d.year, d.month)

MarchYear(d)  == IF d.month <= 2 THEN d.year - 1 ELSE d.year
MarchMonth(d) == IF d.month <= 2 THEN d.month + 12 ELSE d.month

LEMMA DaysLast ==
  ASSUME NEW d \in [year : Int, month : 1 .. 12, day : Int], NEW q, NEW r, NEW h, NEW k,
         YearIs(MarchYear(d), q, r, h, k)
  PROVE  Gregorian!Days(d.year, d.month) = LastOf(MarchMonth(d), r, h, k)
<1> DEFINE y == MarchYear(d)
           m == MarchMonth(d)
<1>1. CASE d.month = 2
  <2>1. y + 1 = d.year /\ m = 14
    BY <1>1 DEF MarchYear, MarchMonth
  <2>2. Gregorian!Leap(d.year) <=> (k = 3 /\ (h # 24 \/ r = 3))
    BY <2>1, LeapYears
  <2> QED BY <1>1, <2>1, <2>2 DEF Gregorian!Days, LastOf
<1>2. CASE d.month # 2
  <2>1. m # 14 /\ (m \in {4, 6, 9, 11} <=> d.month \in {4, 6, 9, 11})
    BY <1>2 DEF MarchMonth
  <2> QED BY <1>2, <2>1 DEF Gregorian!Days, LastOf
<1> QED BY <1>1, <1>2

LEMMA DayRead ==
  ASSUME NEW d, RealDay(d)
  PROVE  DayOf(ymd_to_julian_day(d)) = d
<1> DEFINE y == IF d.month <= 2 THEN d.year - 1 ELSE d.year
           m == IF d.month <= 2 THEN d.month + 12 ELSE d.month
<1>1. d \in [year : Int, month : 1 .. 12, day : Int] /\ 1 <= d.day /\ d.day <= Gregorian!Days(d.year, d.month)
  BY DEF RealDay
<1>2. y \in Int /\ m \in 3 .. 14 /\ d.day \in Int
  BY <1>1
<1>3. PICK q, r, h, k : YearIs(y, q, r, h, k)
  <2> HIDE DEF y
  <2> QED BY <1>2, YearHasPlace
<1>4. Gregorian!Days(d.year, d.month) = LastOf(m, r, h, k)
  BY <1>1, <1>3, DaysLast DEF MarchYear, MarchMonth
<1>5. ymd_to_julian_day(d) = Number(q, r, h, k, d.day + BeforeMonth(m))
  BY <1>1, <1>3, JulianNumber
<1>6. /\ (IF m > 12 THEN y + 1 ELSE y) = d.year
      /\ (IF m > 12 THEN m - 12 ELSE m) = d.month
  BY <1>1
<1> HIDE DEF y, m
<1>7. DayOf(Number(q, r, h, k, d.day + BeforeMonth(m)))
        = [year  |-> IF m > 12 THEN y + 1 ELSE y,
           month |-> IF m > 12 THEN m - 12 ELSE m,
           day   |-> d.day]
  BY <1>1, <1>2, <1>3, <1>4, NumberRead
<1> QED BY <1>1, <1>5, <1>6, <1>7

-----------------------------------------------------------------------------
(* The day after a day has the number after its number.                    *)
LEMMA NextYear ==
  ASSUME NEW y, NEW q, NEW r, NEW h, NEW k, YearIs(y, q, r, h, k)
  PROVE  \E q2, r2, h2, k2 :
           /\ YearIs(y + 1, q2, r2, h2, k2)
           /\ Number(q2, r2, h2, k2, 1 + 122) = Number(q, r, h, k, LastOf(14, r, h, k) + 459) + 1
<1>1. q \in Int /\ r \in 0 .. 3 /\ h \in 0 .. 24 /\ k \in 0 .. 3 /\ y = 400 * q + 100 * r + 4 * h + k
  BY DEF YearIs
<1>2. CASE k # 3
  <2>1. YearIs(y + 1, q, r, h, k + 1)
    BY <1>1, <1>2 DEF YearIs
  <2>2. Number(q, r, h, k + 1, 1 + 122) = Number(q, r, h, k, LastOf(14, r, h, k) + 459) + 1
    BY <1>1, <1>2, SMT DEF Number, LastOf
  <2> QED BY <2>1, <2>2
<1>3. CASE k = 3 /\ h # 24
  <2>1. YearIs(y + 1, q, r, h + 1, 0)
    BY <1>1, <1>3 DEF YearIs
  <2>2. Number(q, r, h + 1, 0, 1 + 122) = Number(q, r, h, k, LastOf(14, r, h, k) + 459) + 1
    BY <1>1, <1>3, SMT DEF Number, LastOf
  <2> QED BY <2>1, <2>2
<1>4. CASE k = 3 /\ h = 24 /\ r # 3
  <2>1. YearIs(y + 1, q, r + 1, 0, 0)
    BY <1>1, <1>4 DEF YearIs
  <2>2. Number(q, r + 1, 0, 0, 1 + 122) = Number(q, r, h, k, LastOf(14, r, h, k) + 459) + 1
    BY <1>1, <1>4, SMT DEF Number, LastOf
  <2> QED BY <2>1, <2>2
<1>5. CASE k = 3 /\ h = 24 /\ r = 3
  <2>1. YearIs(y + 1, q + 1, 0, 0, 0)
    BY <1>1, <1>5 DEF YearIs
  <2>2. Number(q + 1, 0, 0, 0, 1 + 122) = Number(q, r, h, k, LastOf(14, r, h, k) + 459) + 1
    BY <1>1, <1>5, SMT DEF Number, LastOf
  <2> QED BY <2>1, <2>2
<1> QED BY <1>2, <1>3, <1>4, <1>5

LEMMA TomorrowNext ==
  ASSUME NEW d, RealDay(d)
  PROVE  LET t == Gregorian!Tomorrow(d)
         IN  RealDay(t) /\ ymd_to_julian_day(t) = ymd_to_julian_day(d) + 1
<1> DEFINE t == Gregorian!Tomorrow(d)
           n == Gregorian!Days(d.year, d.month)
<1>1. d \in [year : Int, month : 1 .. 12, day : Int] /\ 1 <= d.day /\ d.day <= n
  BY DEF RealDay
<1>2. \A y, m : Gregorian!Days(y, m) \in 28 .. 31
  BY DEF Gregorian!Days
<1>3. MarchYear(d) \in Int
  BY <1>1 DEF MarchYear
<1>4. PICK q, r, h, k : YearIs(MarchYear(d), q, r, h, k)
  BY <1>3, YearHasPlace
<1>5. ymd_to_julian_day(d) = Number(q, r, h, k, d.day + BeforeMonth(MarchMonth(d)))
  BY <1>1, <1>4, JulianNumber DEF MarchYear, MarchMonth
<1>6. n = LastOf(MarchMonth(d), r, h, k)
  BY <1>1, <1>4, DaysLast
<1>7. q \in Int /\ r \in Int /\ h \in Int /\ k \in Int
  BY <1>4 DEF YearIs
<1>8. CASE d.day # n
  <2>1. t = [d EXCEPT !.day = d.day + 1]
    BY <1>8 DEF Gregorian!Tomorrow
  <2>2. t \in [year : Int, month : 1 .. 12, day : Int] /\ t.year = d.year /\ t.month = d.month /\ t.day = d.day + 1
    BY <1>1, <2>1
  <2>3. RealDay(t)
    BY <1>1, <1>2, <1>8, <2>2 DEF RealDay
  <2>4. YearIs(MarchYear(t), q, r, h, k) /\ MarchMonth(t) = MarchMonth(d)
    BY <1>4, <2>2 DEF MarchYear, MarchMonth
  <2>5. ymd_to_julian_day(t) = Number(q, r, h, k, t.day + BeforeMonth(MarchMonth(t)))
    BY <2>2, <2>4, JulianNumber DEF MarchYear, MarchMonth
  <2>6. BeforeMonth(MarchMonth(d)) \in Int
    BY <1>1 DEF BeforeMonth, MarchMonth
  <2>7. Number(q, r, h, k, (d.day + 1) + BeforeMonth(MarchMonth(d)))
          = Number(q, r, h, k, d.day + BeforeMonth(MarchMonth(d))) + 1
    BY <1>1, <1>7, <2>6 DEF Number
  <2> QED BY <1>5, <2>2, <2>3, <2>4, <2>5, <2>7
<1>9. CASE d.day = n
  <2> DEFINE y2 == IF d.month = 12 THEN d.year + 1 ELSE d.year
             m2 == IF d.month = 12 THEN 1 ELSE d.month + 1
  <2>1. t = [year |-> y2, month |-> m2, day |-> 1]
    <3>1. CASE d.month < 12
      <4>1. t = [d EXCEPT !.day = 1, !.month = d.month + 1]
        BY <1>9, <3>1 DEF Gregorian!Tomorrow
      <4>2. t = [year |-> d.year, month |-> d.month + 1, day |-> 1]
        BY <1>1, <4>1
      <4>3. y2 = d.year /\ m2 = d.month + 1
        BY <1>1, <3>1
      <4> QED BY <4>2, <4>3
    <3>2. CASE d.month = 12
      BY <1>9, <3>2 DEF Gregorian!Tomorrow
    <3> QED BY <1>1, <3>1, <3>2
  <2>2. t \in [year : Int, month : 1 .. 12, day : Int] /\ t.year = y2 /\ t.month = m2 /\ t.day = 1
    BY <1>1, <2>1
  <2>3. RealDay(t)
    BY <1>2, <2>2 DEF RealDay
  <2>4. CASE d.month = 2
    <3>1. MarchYear(t) = MarchYear(d) + 1 /\ MarchMonth(t) = 3 /\ MarchMonth(d) = 14
      BY <1>1, <2>2, <2>4 DEF MarchYear, MarchMonth
    <3>2. PICK q2, r2, h2, k2 :
            /\ YearIs(MarchYear(d) + 1, q2, r2, h2, k2)
            /\ Number(q2, r2, h2, k2, 1 + 122) = Number(q, r, h, k, LastOf(14, r, h, k) + 459) + 1
      BY <1>4, NextYear
    <3>3. ymd_to_julian_day(t) = Number(q2, r2, h2, k2, t.day + BeforeMonth(MarchMonth(t)))
      BY <2>2, <3>1, <3>2, JulianNumber DEF MarchYear, MarchMonth
    <3> QED BY <1>5, <1>6, <1>9, <2>2, <2>3, <3>1, <3>2, <3>3, MonthTable
  <2>5. CASE d.month # 2
    <3>1. MarchYear(t) = MarchYear(d) /\ MarchMonth(t) = MarchMonth(d) + 1 /\ MarchMonth(d) \in 3 .. 13
      BY <1>1, <2>2, <2>5 DEF MarchYear, MarchMonth
    <3>2. ymd_to_julian_day(t) = Number(q, r, h, k, t.day + BeforeMonth(MarchMonth(t)))
      BY <1>4, <2>2, <3>1, JulianNumber DEF MarchYear, MarchMonth
    <3>3. \A m \in 3 .. 13 : 1 + BeforeMonth(m + 1) = LastOf(m, r, h, k) + BeforeMonth(m) + 1
      <4> TAKE m \in 3 .. 13
      <4>1. m \in {3, 4, 5, 6, 7, 8, 9, 10, 11, 12, 13}
        OBVIOUS
      <4>2. CASE m \in {4, 6, 9, 11}
        BY <4>2, MonthTable DEF LastOf
      <4>3. CASE m \in {3, 5, 7}
        BY <4>3, MonthTable DEF LastOf
      <4>4. CASE m \in {8, 10, 12, 13}
        BY <4>4, MonthTable DEF LastOf
      <4> QED BY <4>1, <4>2, <4>3, <4>4
    <3>4. 1 + BeforeMonth(MarchMonth(t)) = d.day + BeforeMonth(MarchMonth(d)) + 1
      BY <1>6, <1>9, <3>1, <3>3
    <3>5. BeforeMonth(MarchMonth(d)) \in Int
      BY <3>1 DEF BeforeMonth
    <3>6. \A x \in Int : Number(q, r, h, k, x + 1) = Number(q, r, h, k, x) + 1
      BY <1>7 DEF Number
    <3>7. d.day + BeforeMonth(MarchMonth(d)) \in Int
      BY <1>1, <3>5
    <3> QED BY <1>5, <2>2, <2>3, <3>2, <3>4, <3>6, <3>7
  <2> QED BY <2>4, <2>5
<1> QED BY <1>8, <1>9

-----------------------------------------------------------------------------
(* Every number is that of a day of the calendar, and the next number that *)
(* of the day after.                                                       *)
Numbered(z) == RealDay(DayOf(z)) /\ ymd_to_julian_day(DayOf(z)) = z

LEMMA FirstNumber == Numbered(0)
<1> DEFINE d == [year |-> -4713, month |-> 11, day |-> 24]
<1>1. d \in [year : Int, month : 1 .. 12, day : Int] /\ d.year = -4713 /\ d.month = 11 /\ d.day = 24
  OBVIOUS
<1> HIDE DEF d
<1>2. RealDay(d)
  BY <1>1 DEF RealDay, Gregorian!Days
<1>3. YearIs(-4713, -12, 0, 21, 3)
  BY DEF YearIs
<1>4. ymd_to_julian_day(d) = Number(-12, 0, 21, 3, 24 + BeforeMonth(11))
  BY <1>1, <1>3, JulianNumber
<1>5. Number(-12, 0, 21, 3, 24 + 367) = 0
  BY DEF Number
<1>6. ymd_to_julian_day(d) = 0
  BY <1>4, <1>5, MonthTable
<1> QED BY <1>2, <1>6, DayRead DEF Numbered

LEMMA NextNumber ==
  ASSUME NEW z \in Nat, Numbered(z)
  PROVE  Numbered(z + 1) /\ DayOf(z + 1) = Gregorian!Tomorrow(DayOf(z))
<1> DEFINE d == DayOf(z)
           t == Gregorian!Tomorrow(d)
<1>1. RealDay(d) /\ ymd_to_julian_day(d) = z
  BY DEF Numbered
<1> HIDE DEF d
<1>2. RealDay(t) /\ ymd_to_julian_day(t) = z + 1
  BY <1>1, TomorrowNext
<1>3. DayOf(z + 1) = t
  BY <1>2, DayRead
<1> QED BY <1>2, <1>3 DEF Numbered, d

LEMMA EveryNumber == \A z \in Nat : Numbered(z)
<1> DEFINE S == { z \in Nat : Numbered(z) }
<1>1. 0 \in S
  BY FirstNumber
<1>2. \A z \in Nat : z \in S => z + 1 \in S
  BY NextNumber
<1>3. Nat \subseteq S
  <2> HIDE DEF S
  <2> QED BY <1>1, <1>2, SetInduction
<1> QED BY <1>3

(* One turn of Later, applied to the function it defines.                  *)
Walk(d, n, f) == [i \in 0 .. n |-> IF i = 0 THEN d ELSE Gregorian!Tomorrow(f[i - 1])]

LEMMA LaterIs ==
  ASSUME NEW z \in Nat, NEW n \in Nat
  PROVE  Gregorian!Later(DayOf(z), n) = DayOf(z + n)
<1> DEFINE d == DayOf(z)
           f == CHOOSE g : g = Walk(d, n, g)
           days == [i \in 0 .. n |-> DayOf(z + i)]
           S == { i \in 0 .. n : f[i] = DayOf(z + i) }
<1>1. Gregorian!Later(d, n) = f[n]
  BY DEF Gregorian!Later, Walk
<1>2. days = Walk(d, n, days)
  <2>1. ASSUME NEW i \in 0 .. n
        PROVE  days[i] = IF i = 0 THEN d ELSE Gregorian!Tomorrow(days[i - 1])
    <3>1. CASE i = 0
      BY <3>1
    <3>2. CASE i # 0
      <4>1. i - 1 \in 0 .. n /\ z + (i - 1) \in Nat /\ (z + (i - 1)) + 1 = z + i
        BY <3>2
      <4>2. DayOf((z + (i - 1)) + 1) = Gregorian!Tomorrow(DayOf(z + (i - 1)))
        BY <4>1, EveryNumber, NextNumber
      <4> HIDE DEF d
      <4> QED BY <3>2, <4>1, <4>2
    <3> QED BY <3>1, <3>2
  <2> QED BY <2>1 DEF Walk
<1>3. f = Walk(d, n, f)
  <2> HIDE DEF days, d
  <2> QED BY <1>2
<1> HIDE DEF f
<1>4. 0 \in S
  BY <1>3 DEF Walk
<1>5. ASSUME NEW i \in 1 .. n, i - 1 \in S PROVE i \in S
  <2>1. i \in 0 .. n /\ i # 0 /\ z + (i - 1) \in Nat /\ (z + (i - 1)) + 1 = z + i
    OBVIOUS
  <2>2. f[i] = Gregorian!Tomorrow(f[i - 1])
    <3> HIDE DEF d
    <3> QED BY <1>3, <2>1 DEF Walk
  <2>3. DayOf((z + (i - 1)) + 1) = Gregorian!Tomorrow(DayOf(z + (i - 1)))
    BY <2>1, EveryNumber, NextNumber
  <2> QED BY <1>5, <2>1, <2>2, <2>3
<1>6. n \in S
  <2> HIDE DEF S
  <2> QED BY <1>4, <1>5, BoundedInduction
<1> QED BY <1>1, <1>6 DEF d

(* The years that are printed in full.                                     *)
PrintedYears == 0 .. 9999

(* Four digits are the number they are taken from, if it has no more.      *)
LEMMA FourDigits ==
  ASSUME NEW n \in PrintedYears
  PROVE  Digit(n, 1000) * 1000 + Digit(n, 100) * 100 + Digit(n, 10) * 10 + Digit(n, 1) = n
<1>1. n \in Int /\ 0 <= n /\ n <= 9999
  BY SMT DEF PrintedYears
<1>2. \A i \in Int : i \div 10 \in Int /\ i % 10 \in Int /\ i = 10 * (i \div 10) + (i % 10)
  OBVIOUS
<1>3. n \div 100 = (n \div 10) \div 10
  BY <1>1, SMT
<1>4. n \div 1000 = (n \div 100) \div 10
  BY <1>1, SMT
<1>5. (n \div 1000) % 10 = n \div 1000
  BY <1>1, SMT
<1>6. n \div 1 = n
  BY <1>1
<1> DEFINE t == n \div 10
           u == n \div 100
           v == n \div 1000
<1>7. t \in Int /\ u \in Int /\ v \in Int
  BY <1>1
<1>8. /\ Digit(n, 1000) = v /\ Digit(n, 100) = u % 10
      /\ Digit(n, 10) = t % 10 /\ Digit(n, 1) = n % 10
  BY <1>5, <1>6 DEF Digit
<1>9. n = 10 * t + (n % 10) /\ t = 10 * u + (t % 10) /\ u = 10 * v + (u % 10)
  BY <1>1, <1>2, <1>3, <1>4, <1>7
<1>10. n % 10 \in Int /\ t % 10 \in Int /\ u % 10 \in Int
  BY <1>1, <1>2, <1>7
<1> HIDE DEF t, u, v
<1> QED
  <2> DEFINE a == n % 10
             b == t % 10
             c == u % 10
  <2>1. n = 10 * t + a /\ t = 10 * u + b /\ u = 10 * v + c
    BY <1>9
  <2>2. a \in Int /\ b \in Int /\ c \in Int
    BY <1>10
  <2>3. /\ Digit(n, 1000) = v /\ Digit(n, 100) = c
        /\ Digit(n, 10) = b /\ Digit(n, 1) = a
    BY <1>8
  <2> HIDE DEF a, b, c
  <2> QED BY <1>1, <1>7, <2>1, <2>2, <2>3, SMT

LEMMA TwoDigits ==
  ASSUME NEW n \in 0 .. 99
  PROVE  Digit(n, 10) * 10 + Digit(n, 1) = n
BY DEF Digit

(* What is printed is read again.                                          *)
LEMMA PrintedIsRead ==
  ASSUME NEW d, RealDay(d), d.year \in PrintedYears
  PROVE  yyyymmdd_to_julian_day(Printed(d)) = ymd_to_julian_day(d)
<1>1. d \in [year : Int, month : 1 .. 12, day : Int] /\ 1 <= d.day /\ d.day <= 31
  BY DEF RealDay, Gregorian!Days
<1>2. d.month \in 0 .. 99 /\ d.day \in 0 .. 99
  BY <1>1
<1> DEFINE t == Printed(d)
<1>3. /\ t[1] * 1000 + t[2] * 100 + t[3] * 10 + t[4] = d.year
      /\ t[5] * 10 + t[6] = d.month /\ t[7] * 10 + t[8] = d.day
  BY <1>2, FourDigits, TwoDigits DEF Printed
<1>4. d = [year |-> d.year, month |-> d.month, day |-> d.day]
  BY <1>1
<1> QED BY <1>3, <1>4 DEF yyyymmdd_to_julian_day

(* The days from 1 January of the year 1 to 31 December 9999.              *)
LEMMA FourDigitYears ==
  ASSUME NEW z \in Nat, 1721426 <= z, z <= 5373484
  PROVE  DayOf(z).year \in PrintedYears
<1> DEFINE w == (4 * z - 7468865) \div 146097
           b == z + 1 + w - w \div 4 + 1524
           c == (20 * b - 2442) \div 7305
           d == (1461 * c) \div 4
           e == (10000 * (b - d)) \div 306001
           month == IF e - 1 <= 12 THEN e - 1 ELSE e - 13
<1>1. DayOf(z).year = YearOf(c, month)
  BY DEF DayOf
<1>2. w \in Int /\ -4 <= w /\ w <= 95
  OBVIOUS
<1> HIDE DEF w
<1>3. b \in Int /\ 1722948 <= b /\ b <= 5375081
  BY <1>2
<1> HIDE DEF b
<1>4. /\ c \in Int /\ 4716 <= c /\ c <= 14715
      /\ 7305 * c <= 20 * b - 2442
  BY <1>3
<1> HIDE DEF c
<1>5. d \in Int /\ 4 * d <= 1461 * c
  BY <1>4
<1>6. c = 14715 => d = 5374653
  OBVIOUS
<1> HIDE DEF d
<1>7. c = 14715 => 123 <= b - d /\ b - d <= 428
  BY <1>3, <1>4, <1>5, <1>6
<1>8. c = 14715 => e \in 4 .. 13
  BY <1>3, <1>5, <1>7
<1>9. c = 14715 => ~(month <= 2)
  BY <1>8
<1> HIDE DEF month
<1> QED BY <1>1, <1>4, <1>9, SMT DEF YearOf, PrintedYears

(* The days a date is made from are days of the calendar - a text such as  *)
(* 20230231, which the code does not refuse, is none - and those the clock *)
(* shows are among them.                                                   *)
RealDays ==
  /\ \A d \in FirstDays : d.day <= Gregorian!Days(d.year, d.month)
  /\ \A n \in ClockDays : DayOf(n + UnixEpoch) \in FirstDays

LEMMA FirstYearsPrinted == \A d \in FirstDays : d.year \in PrintedYears
<1>1. \A i \in Nat : i <= 9999 => i \in PrintedYears
  BY SMT DEF PrintedYears
<1> SUFFICES ASSUME NEW d \in FirstDays PROVE d.year \in PrintedYears
  OBVIOUS
<1>2. d \in [year : Nat \ {0}, month : 1 .. 12, day : 1 .. 31]
  BY DatesAssumption, SMT
<1>3. d.year <= 9999
  BY DatesAssumption, SMT
<1>4. d.year \in Nat
  BY <1>2
<1> QED BY <1>1, <1>3, <1>4, SMT

LEMMA FirstDaysReal ==
  ASSUME RealDays, NEW d \in FirstDays
  PROVE  RealDay(d) /\ DayOf(ymd_to_julian_day(d)) = d /\ ymd_to_julian_day(d) \in Nat
<1>1. /\ d \in [year : Nat \ {0}, month : 1 .. 12, day : 1 .. 31]
      /\ d.day <= Gregorian!Days(d.year, d.month)
  BY DatesAssumption DEF RealDays
<1>2. d \in [year : Int, month : 1 .. 12, day : Int] /\ 1 <= d.day /\ d.year >= 1
  BY <1>1
<1>3. RealDay(d)
  BY <1>1, <1>2 DEF RealDay
<1>4. MarchYear(d) \in Nat
  BY <1>2 DEF MarchYear
<1>5. PICK q, r, h, k : YearIs(MarchYear(d), q, r, h, k)
  BY <1>4, YearHasPlace
<1>6. ymd_to_julian_day(d) = Number(q, r, h, k, d.day + BeforeMonth(MarchMonth(d)))
  BY <1>2, <1>5, JulianNumber DEF MarchYear, MarchMonth
<1>7. BeforeMonth(MarchMonth(d)) \in Nat
  BY <1>2, MonthTable DEF MarchMonth, BeforeMonth
<1>8. q >= 0 /\ q \in Int /\ r \in Nat /\ h \in Nat /\ k \in Nat
  BY <1>4, <1>5 DEF YearIs
<1>9. Number(q, r, h, k, d.day + BeforeMonth(MarchMonth(d))) \in Nat
  BY <1>2, <1>7, <1>8 DEF Number
<1> QED BY <1>3, <1>6, <1>9, DayRead

(* Whatever days a date is made from and moved by, it follows the calendar *)
(* (date.h:17-61, 87-145): each step of Date is a step of Calendar, and a  *)
(* date read again from what it printed is the same day.                   *)
THEOREM DatesFollowCalendar == RealDays => (DateSpec => FollowsCalendar)
<1> SUFFICES ASSUME RealDays PROVE DateSpec => FollowsCalendar
  OBVIOUS
<1> DEFINE Inv == julian \in Nat /\ DayOf(julian).year \in PrintedYears
<1>1. DateInit => Inv /\ Gregorian!Init
  <2>1. ASSUME NEW d \in FirstDays, julian = yyyymmdd_to_julian_day(Printed(d))
        PROVE  julian \in Nat /\ DayOf(julian) \in FirstDays
    <3>1. d.year \in PrintedYears
      BY FirstYearsPrinted
    <3>2. julian = ymd_to_julian_day(d)
      BY <2>1, <3>1, FirstDaysReal, PrintedIsRead
    <3> QED BY <3>2, FirstDaysReal
  <2>2. ASSUME NEW n \in ClockDays, julian = n + UnixEpoch
        PROVE  julian \in Nat /\ DayOf(julian) \in FirstDays
    BY <2>2, DatesAssumption DEF RealDays, UnixEpoch
  <2> QED BY <2>1, <2>2, FirstYearsPrinted DEF DateInit, Gregorian!Init
<1>2. Inv /\ [DateNext]_julian => Inv' /\ [Gregorian!Move]_(DayOf(julian))
  <2> SUFFICES ASSUME Inv, [DateNext]_julian
               PROVE  Inv' /\ [Gregorian!Move]_(DayOf(julian))
    OBVIOUS
  <2>1. CASE UNCHANGED julian
    BY <2>1
  <2>2. CASE Reread
    <3>1. RealDay(DayOf(julian)) /\ ymd_to_julian_day(DayOf(julian)) = julian
      BY EveryNumber DEF Numbered
    <3>2. julian' = julian
      BY <2>2, <3>1, PrintedIsRead DEF Reread, yyyymmdd
    <3> QED BY <3>2
  <2>3. ASSUME NEW n \in Steps, Forward(n) PROVE Inv' /\ Gregorian!Move
    <3>1. n \in Nat /\ julian' \in Nat /\ julian' = julian + n
      BY <2>3, DatesAssumption DEF Forward
    <3>2. DayOf(julian') = Gregorian!Later(DayOf(julian), n)
      BY <3>1, LaterIs
    <3>3. DayOf(julian').year \in PrintedYears
      BY <2>3, <3>1, DatesAssumption, FourDigitYears, SMT DEF Forward
    <3> QED BY <3>1, <3>2, <3>3 DEF Gregorian!Move
  <2>4. ASSUME NEW n \in Steps, Backward(n) PROVE Inv' /\ Gregorian!Move
    <3>1. n \in Nat /\ julian' \in Nat /\ julian = julian' + n
      BY <2>4, DatesAssumption DEF Backward
    <3>2. DayOf(julian) = Gregorian!Later(DayOf(julian'), n)
      <4>1. \A z \in Nat : Gregorian!Later(DayOf(z), n) = DayOf(z + n)
        BY <3>1, LaterIs
      <4> QED BY <3>1, <4>1
    <3>3. DayOf(julian').year \in PrintedYears
      BY <2>4, <3>1, DatesAssumption, FourDigitYears, SMT DEF Backward
    <3> QED BY <3>1, <3>2, <3>3 DEF Gregorian!Move
  <2> QED BY <2>1, <2>2, <2>3, <2>4 DEF DateNext
<1> QED BY <1>1, <1>2, PTL DEF DateSpec, FollowsCalendar, Gregorian!Spec

=============================================================================
