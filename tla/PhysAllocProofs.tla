--------------------------- MODULE PhysAllocProofs ---------------------------
(***************************************************************************)
(* What TLAPS proves of PhysAlloc for any memory map, any pool size and    *)
(* any requests.  The inductive invariant is TypeOK and ListMatchesBlocks. *)
(***************************************************************************)
EXTENDS PhysAlloc, FiniteSetTheorems, TLAPS

Inv == TypeOK /\ ListMatchesBlocks

(* align_up rounds up to a page number that is not below its argument.     *)
LEMMA AlignUpAbove ==
    ASSUME NEW a \in Nat, NEW k \in Nat \ {0}
    PROVE  AlignUp(a, k) \in Nat /\ AlignUp(a, k) >= a
<1> DEFINE q == (a + k - 1) \div k
<1>1. q \in Nat /\ q * k <= a + k - 1 /\ a + k - 1 < q * k + k
    OBVIOUS
<1>2. q * k \in Nat
    BY <1>1
<1> HIDE DEF q
<1>3. q * k >= a
    BY <1>1, <1>2
<1> QED
    BY <1>2, <1>3, Zenon DEF AlignUp, q

(* The region that init makes of an entry of the map.                      *)
LEMMA InitRegionFacts ==
    ASSUME NEW e \in Included
    PROVE  /\ InitRegion(e) \in Region
           /\ ~InitRegion(e).used
           /\ e \in Map
           /\ e.start <= InitRegion(e).start
           /\ Top(InitRegion(e)) = e.start + e.pages
BY MapAssumption DEF Included, Usable, InitRegion, Free, Region, Top

(* The map has finitely many pages, and usable memory is among them.       *)
LEMMA MapPagesFinite ==
    /\ IsFiniteSet(MapPages) /\ Cardinality(MapPages) \in Nat
    /\ Managed \subseteq MapPages
<1>1. IsFiniteSet(MapPages) /\ Cardinality(MapPages) \in Nat
    <2> DEFINE f == [e \in Included |-> Run(e.start, e.pages)]
               S == {Run(e.start, e.pages) : e \in Included}
    <2>1. IsFiniteSet(Included)
        BY FS_Subset, MapAssumption, Zenon DEF Included, Usable
    <2>2. f \in Surjection(Included, S)
        BY Zenon DEF Surjection
    <2>3. IsFiniteSet(S)
        BY <2>1, <2>2, FS_Surjection, Zenon
    <2>4. \A T \in S : IsFiniteSet(T)
        <3> SUFFICES ASSUME NEW e \in Included
                     PROVE  IsFiniteSet(Run(e.start, e.pages))
            OBVIOUS
        <3>1. e.start \in Int /\ e.start + e.pages - 1 \in Int
            BY MapAssumption DEF Included, Usable
        <3> QED
            BY <3>1, FS_Interval, Zenon DEF Run
    <2> QED
        BY <2>3, <2>4, FS_UNION, FS_CardinalityType, Zenon DEF MapPages
<1>2. ASSUME NEW e \in Included
      PROVE  Run(InitRegion(e).start, InitRegion(e).size) \subseteq Run(e.start, e.pages)
    <2>1. e.start \in Nat /\ e.pages \in Nat
        BY InitRegionFacts, MapAssumption, Zenon
    <2> QED
        BY <2>1, InitRegionFacts DEF Run, Region, Top
<1> QED
    BY <1>1, <1>2, Zenon DEF Managed, Pages, InitRegions, MapPages

LEMMA InitInv == Init => Inv
<1> SUFFICES ASSUME Init PROVE Inv
    OBVIOUS
<1>1. \A r \in regions : \E e \in Included : r = InitRegion(e)
    BY Zenon DEF Init, InitRegions
<1>2. regions \subseteq Region
    BY <1>1, InitRegionFacts, Zenon
<1>3. Cardinality(MapPages) \in Nat
    BY MapPagesFinite, Zenon
<1>4. TypeOK
    BY <1>2, <1>3 DEF Init, TypeOK
<1>5. \A q, r \in regions : q # r => Top(q) <= r.start \/ Top(r) <= q.start
    <2> SUFFICES ASSUME NEW q \in regions, NEW r \in regions, q # r
                 PROVE  Top(q) <= r.start \/ Top(r) <= q.start
        OBVIOUS
    <2> PICK e \in Included : q = InitRegion(e)
        BY <1>1, Zenon
    <2> PICK f \in Included : r = InitRegion(f)
        BY <1>1, Zenon
    <2>1. e # f
        OBVIOUS
    <2>2. e.start + e.pages <= f.start \/ f.start + f.pages <= e.start
        BY <2>1, InitRegionFacts, MapAssumption, Zenon
    <2>3. q.start \in Nat /\ r.start \in Nat /\ e.start \in Nat /\ f.start \in Nat
        BY InitRegionFacts, MapAssumption, Zenon DEF Region
    <2>4. e.pages \in Nat /\ f.pages \in Nat
        BY InitRegionFacts, MapAssumption, Zenon
    <2> QED
        BY <2>2, <2>3, <2>4, InitRegionFacts
<1>6. \A r \in regions : ~r.used /\ Run(r.start, r.size) \subseteq Managed
    BY <1>1, InitRegionFacts, Zenon DEF Init, Managed, Pages
<1> QED
    BY <1>4, <1>5, <1>6, Zenon DEF Init, Inv, ListMatchesBlocks

-----------------------------------------------------------------------------
(* What taking the run from a to b out of region r leaves behind.          *)
LEMMA CarveFacts ==
    ASSUME NEW r \in Region, NEW a \in Nat, NEW b \in Nat,
           r.start <= a, a < b, b <= Top(r)
    PROVE  /\ Carve(r, a, b) \subseteq Region
           /\ \A q \in Carve(r, a, b) : r.start <= q.start /\ Top(q) <= Top(r)
           /\ \A p, q \in Carve(r, a, b) : p # q => Top(p) <= q.start \/ Top(q) <= p.start
           /\ \A q \in Carve(r, a, b) : q.used => q.start = a
           /\ \E q \in Carve(r, a, b) : q.used /\ q.start = a /\ b - a <= q.size
<1>0. r.start \in Nat \ {0} /\ r.size \in Nat \ {0} /\ Top(r) = r.start + r.size
    BY Zenon DEF Region, Top
<1>1. /\ \A e \in Nat : a < e => /\ Used(a, e) \in Region
                                 /\ Used(a, e).start = a /\ Top(Used(a, e)) = e
                                 /\ Used(a, e).size = e - a /\ Used(a, e).used
      /\ \A s, e \in Nat : 0 < s /\ s < e => /\ Free(s, e) \in Region
                                             /\ Free(s, e).start = s /\ Top(Free(s, e)) = e
                                             /\ ~Free(s, e).used
    BY <1>0 DEF Used, Free, Region, Top
<1>2. CASE a = r.start /\ b < Top(r) /\ Nodes(1)
    <2>1. Carve(r, a, b) = {Used(a, b), Free(b, Top(r))}
        BY <1>2, Zenon DEF Carve
    <2> QED
        BY <1>0, <1>1, <1>2, <2>1
<1>3. CASE a = r.start /\ ~(b < Top(r) /\ Nodes(1))
    <2>1. Carve(r, a, b) = {Used(a, Top(r))}
        BY <1>3, Zenon DEF Carve
    <2> QED
        BY <1>0, <1>1, <1>3, <2>1
<1>4. CASE a # r.start /\ b < Top(r) /\ Nodes(2)
    <2> DEFINE p == Free(r.start, a)
               u == Used(a, b)
               s == Free(b, Top(r))
    <2>1. Carve(r, a, b) = {p, u, s}
        BY <1>4, Zenon DEF Carve
    <2>2. p \in Region /\ p.start = r.start /\ Top(p) = a /\ ~p.used
        BY <1>0, <1>1, <1>4
    <2>3. u \in Region /\ u.start = a /\ Top(u) = b /\ u.used /\ u.size = b - a
        BY <1>0, <1>1, Zenon
    <2>4. s \in Region /\ s.start = b /\ Top(s) = Top(r) /\ ~s.used
        BY <1>0, <1>1, <1>4
    <2> HIDE DEF p, u, s
    <2> QED
        BY <1>0, <2>1, <2>2, <2>3, <2>4
<1>5. CASE a # r.start /\ ~(b < Top(r) /\ Nodes(2))
    <2> DEFINE p == Free(r.start, a)
               u == Used(a, b)
    <2>1. Carve(r, a, b) = {p, u}
        BY <1>5, Zenon DEF Carve
    <2>2. p \in Region /\ p.start = r.start /\ Top(p) = a /\ ~p.used
        BY <1>0, <1>1, <1>5
    <2>3. u \in Region /\ u.start = a /\ Top(u) = b /\ u.used /\ u.size = b - a
        BY <1>0, <1>1, Zenon
    <2> HIDE DEF p, u
    <2> QED
        BY <1>0, <2>1, <2>2, <2>3
<1> QED
    BY <1>2, <1>3, <1>4, <1>5, Zenon

(* The region that a request is met from, and where in it.                 *)
LEMMA FitFacts ==
    ASSUME TypeOK, NEW r \in regions, NEW n \in Counts, NEW align \in Alignments,
           NEW limit \in Limits, n > 0, Eligible(r, n, align, limit)
    PROVE  LET a == AlignUp(r.start, align)
           IN  /\ a \in Nat \ {0} /\ n \in Nat \ {0} /\ a + n \in Nat
               /\ r.start <= a /\ a < a + n /\ a + n <= Top(r)
               /\ ~r.used
               /\ Run(a, n) \subseteq Run(r.start, r.size)
<1>1. r.start \in Nat \ {0} /\ r.size \in Nat \ {0} /\ n \in Nat
    BY RequestAssumption, Zenon DEF TypeOK, Region
<1>2. align \in Nat \ {0}
    BY RequestAssumption, Zenon
<1>3. AlignUp(r.start, align) \in Nat /\ AlignUp(r.start, align) >= r.start
    BY <1>1, <1>2, AlignUpAbove, Zenon
<1>4. ~r.used /\ AlignUp(r.start, align) + n <= Top(r)
    BY Zenon DEF Eligible, Fits
<1> QED
    BY <1>1, <1>3, <1>4 DEF Top, Run

(* An allocation keeps the invariant.                                      *)
LEMMA AllocateInv ==
    ASSUME Inv, NEW n \in Counts, NEW align \in Alignments, NEW limit \in Limits,
           AllocatePages(n, align, limit)
    PROVE  Inv'
<1> USE DEF Inv
<1>1. PICK r \in regions :
        /\ Eligible(r, n, align, limit)
        /\ regions' = (regions \ {r}) \cup
                          Carve(r, AlignUp(r.start, align), AlignUp(r.start, align) + n)
        /\ blocks' = blocks \cup {[start |-> AlignUp(r.start, align), count |-> n]}
        /\ exhausted' \in BOOLEAN
    BY Zenon DEF AllocatePages, TypeOK
<1> DEFINE a == AlignUp(r.start, align)
           new == [start |-> a, count |-> n]
           cut == Carve(r, a, a + n)
<1>2. /\ a \in Nat \ {0} /\ n \in Nat \ {0} /\ a + n \in Nat
      /\ r.start <= a /\ a < a + n /\ a + n <= Top(r)
      /\ ~r.used
    BY <1>1, FitFacts, Zenon DEF AllocatePages
<1>3. r \in Region
    BY Zenon DEF TypeOK
<1> HIDE DEF a
<1>4. /\ cut \subseteq Region
      /\ \A q \in cut : r.start <= q.start /\ Top(q) <= Top(r)
      /\ \A p, q \in cut : p # q => Top(p) <= q.start \/ Top(q) <= p.start
      /\ \A q \in cut : q.used => q.start = a
      /\ \E q \in cut : q.used /\ q.start = a /\ n <= q.size
    <2>1. (a + n) - a = n
        BY <1>2
    <2> QED
        BY <1>2, <1>3, <2>1, CarveFacts
<1>5. regions' = (regions \ {r}) \cup cut /\ blocks' = blocks \cup {new}
    BY <1>1, Zenon DEF a
<1> HIDE DEF cut
<1>6. TypeOK'
    BY <1>1, <1>2, <1>4, <1>5 DEF TypeOK, AllocatePages
<1>7. \A q \in regions \ {r} : Top(q) <= r.start \/ Top(r) <= q.start
    BY Zenon DEF ListMatchesBlocks
<1>8. \A q, p \in regions' : q # p => Top(q) <= p.start \/ Top(p) <= q.start
    <2>1. \A q \in regions' : q.start \in Nat /\ Top(q) \in Nat
        BY <1>6 DEF TypeOK, Region, Top
    <2>2. \A q \in regions \ {r}, p \in cut : Top(q) <= p.start \/ Top(p) <= q.start
        <3> SUFFICES ASSUME NEW q \in regions \ {r}, NEW p \in cut
                     PROVE  Top(q) <= p.start \/ Top(p) <= q.start
            OBVIOUS
        <3>1. q \in regions' /\ p \in regions'
            BY <1>5, Zenon
        <3>2. r.start \in Nat /\ Top(r) \in Nat
            BY <1>3 DEF Region, Top
        <3> QED
            BY <1>4, <1>7, <2>1, <3>1, <3>2
    <2> QED
        BY <1>4, <1>5, <2>1, <2>2, Zenon DEF ListMatchesBlocks
<1>9. \A q \in regions' : Run(q.start, q.size) \subseteq Managed
    <2>1. \A q \in cut : Run(q.start, q.size) \subseteq Run(r.start, r.size)
        BY <1>3, <1>4 DEF Run, Top, Region
    <2> QED
        BY <1>5, <2>1, Zenon DEF ListMatchesBlocks
<1>10. \A q \in regions' : q.used => \E b \in blocks' : b.start = q.start
    <2> SUFFICES ASSUME NEW q \in regions', q.used
                 PROVE  \E b \in blocks' : b.start = q.start
        OBVIOUS
    <2>1. CASE q \in cut
        BY <1>4, <1>5, <2>1, Zenon
    <2>2. CASE q \in regions
        BY <1>5, <2>2, Zenon DEF ListMatchesBlocks
    <2> QED
        BY <1>5, <2>1, <2>2, Zenon
<1>11. \A b \in blocks' : \E q \in regions' :
            q.used /\ q.start = b.start /\ b.count <= q.size
    BY <1>2, <1>4, <1>5 DEF ListMatchesBlocks
<1>12. \A b \in blocks : b.start # a
    <2> SUFFICES ASSUME NEW b \in blocks, b.start = a
                 PROVE  FALSE
        OBVIOUS
    <2> PICK q \in regions : q.used /\ q.start = b.start
        BY Zenon DEF ListMatchesBlocks
    <2>1. q # r
        BY <1>2, Zenon
    <2>2. q \in Region
        BY Zenon DEF TypeOK
    <2> QED
        BY <1>2, <1>3, <1>7, <2>1, <2>2 DEF Region, Top
<1>13. \A b, c \in blocks' : b.start = c.start => b = c
    BY <1>5, <1>12 DEF ListMatchesBlocks
<1>14. Managed' = Managed
    BY Zenon DEF Managed, Pages, InitRegions, Included, Usable, InitRegion, Free
<1> QED
    BY <1>6, <1>8, <1>9, <1>10, <1>11, <1>13, <1>14, Zenon DEF ListMatchesBlocks, Run, Top

-----------------------------------------------------------------------------
(* What a freed region r becomes with its free neighbours.                 *)
LEMMA MergeFacts ==
    ASSUME Inv, NEW r \in regions
    PROVE  LET m == Merged(r)
               gone == {r} \cup FreeAfter(r) \cup FreeBefore(r)
           IN  /\ m \in Region /\ ~m.used
               /\ m.start <= r.start /\ Top(r) <= Top(m)
               /\ Run(m.start, m.size) = Pages(gone)
               /\ \A q \in regions \ gone : Top(q) <= m.start \/ Top(m) <= q.start
<1> USE DEF Inv
<1> DEFINE p == IF FreeBefore(r) = {} THEN r ELSE CHOOSE q \in FreeBefore(r) : TRUE
           s == IF FreeAfter(r) = {} THEN r ELSE CHOOSE q \in FreeAfter(r) : TRUE
           m == Merged(r)
           gone == {r} \cup FreeAfter(r) \cup FreeBefore(r)
<1>1. /\ p \in regions /\ p \in gone
      /\ p = r \/ Top(p) = r.start
    BY Zenon DEF FreeBefore
<1>2. /\ s \in regions /\ s \in gone
      /\ s = r \/ s.start = Top(r)
    BY Zenon DEF FreeAfter
<1>3. m = Free(p.start, Top(s))
    BY DEF Merged
<1> HIDE DEF p, s, m
<1>4. \A q \in regions : /\ q \in Region /\ q.start \in Nat \ {0} /\ q.size \in Nat \ {0}
                         /\ Top(q) = q.start + q.size /\ Top(q) \in Nat
    BY DEF TypeOK, Region, Top
<1>5. /\ p.start <= r.start /\ Top(r) <= Top(s)
      /\ p.start \in Nat \ {0} /\ Top(s) \in Nat /\ p.start < Top(s)
    BY <1>1, <1>2, <1>4
<1>6. m \in Region /\ ~m.used /\ m.start = p.start /\ Top(m) = Top(s)
    BY <1>3, <1>5 DEF Free, Region, Top
<1>7. Run(m.start, m.size) \subseteq Pages(gone)
    <2> SUFFICES ASSUME NEW x \in Run(m.start, m.size)
                 PROVE  \E q \in gone : x \in Run(q.start, q.size)
        BY Zenon DEF Pages
    <2>1. x \in Int /\ p.start <= x /\ x < Top(s)
        BY <1>5, <1>6 DEF Run, Region, Top
    <2>2. x \in Run(p.start, p.size) \/ x \in Run(r.start, r.size) \/ x \in Run(s.start, s.size)
        BY <1>1, <1>2, <1>4, <2>1 DEF Run
    <2> QED
        BY <1>1, <1>2, <2>2, Zenon
<1>8. \A q \in regions \ gone : Top(q) <= m.start \/ Top(m) <= q.start
    <2> SUFFICES ASSUME NEW q \in regions \ gone
                 PROVE  Top(q) <= p.start \/ Top(s) <= q.start
        BY <1>6, Zenon
    <2>1. /\ Top(q) <= p.start \/ Top(p) <= q.start
          /\ Top(q) <= r.start \/ Top(r) <= q.start
          /\ Top(q) <= s.start \/ Top(s) <= q.start
        BY <1>1, <1>2 DEF ListMatchesBlocks
    <2> QED
        BY <1>1, <1>2, <1>4, <2>1
<1>9. Pages(gone) \subseteq Run(m.start, m.size)
    <2> SUFFICES ASSUME NEW q \in gone
                 PROVE  Run(q.start, q.size) \subseteq Run(m.start, m.size)
        BY Zenon DEF Pages
    <2>1. q \in regions
        BY Zenon DEF FreeAfter, FreeBefore
    <2>2. q # p => Top(q) <= p.start \/ Top(p) <= q.start
        BY <1>1, <2>1, Zenon DEF ListMatchesBlocks
    <2>3. q # s => Top(q) <= s.start \/ Top(s) <= q.start
        BY <1>2, <2>1, Zenon DEF ListMatchesBlocks
    <2>4. p.start <= q.start /\ Top(q) <= Top(s)
        <3>1. CASE q = r
            BY <1>5, <1>4, <3>1, Zenon
        <3>2. CASE q \in FreeBefore(r)
            <4>1. Top(q) = r.start /\ FreeBefore(r) # {}
                BY <3>2, Zenon DEF FreeBefore
            <4>2. Top(p) = r.start
                BY <4>1, Zenon DEF p, FreeBefore
            <4>3. q = p
                BY <1>1, <1>4, <2>1, <2>2, <4>1, <4>2
            <4> QED
                BY <1>1, <1>4, <1>5, <2>1, <4>1, <4>3
        <3>3. CASE q \in FreeAfter(r)
            <4>1. q.start = Top(r) /\ FreeAfter(r) # {}
                BY <3>3, Zenon DEF FreeAfter
            <4>2. s.start = Top(r)
                BY <4>1, Zenon DEF s, FreeAfter
            <4>3. q = s
                BY <1>2, <1>4, <2>1, <2>3, <4>1, <4>2
            <4> QED
                BY <1>1, <1>2, <1>4, <1>5, <2>1, <4>1, <4>3
        <3> QED
            BY <3>1, <3>2, <3>3, Zenon
    <2> QED
        BY <1>4, <1>6, <2>1, <2>4 DEF Run, Region, Top
<1> QED
    BY <1>5, <1>6, <1>7, <1>8, <1>9, Zenon DEF m

(* A free keeps the invariant.                                             *)
LEMMA FreeInv ==
    ASSUME Inv, NEW b \in blocks, FreePages(b)
    PROVE  Inv'
<1> USE DEF Inv
<1>1. PICK r \in regions :
        /\ r.used /\ r.start = b.start
        /\ regions' = (regions \ ({r} \cup FreeAfter(r) \cup FreeBefore(r))) \cup {Merged(r)}
    BY Zenon DEF FreePages
<1> DEFINE m == Merged(r)
           gone == {r} \cup FreeAfter(r) \cup FreeBefore(r)
<1>2. /\ m \in Region /\ ~m.used
      /\ Run(m.start, m.size) \subseteq Pages(gone)
      /\ \A q \in regions \ gone : Top(q) <= m.start \/ Top(m) <= q.start
    BY MergeFacts, Zenon
<1>3. /\ gone \subseteq regions
      /\ \A q \in gone : q = r \/ ~q.used
    BY Zenon DEF FreeAfter, FreeBefore
<1>4. regions' = (regions \ gone) \cup {m} /\ blocks' = blocks \ {b}
    BY <1>1, Zenon DEF FreePages
<1> HIDE DEF m, gone
<1>5. TypeOK'
    BY <1>2, <1>4 DEF TypeOK, FreePages
<1>6. \A q, p \in regions' : q # p => Top(q) <= p.start \/ Top(p) <= q.start
    BY <1>2, <1>4, Zenon DEF ListMatchesBlocks
<1>7. \A q \in regions' : Run(q.start, q.size) \subseteq Managed
    BY <1>2, <1>3, <1>4 DEF ListMatchesBlocks, Pages
<1>8. \A q \in regions : q.used /\ q.start = r.start => q = r
    BY DEF ListMatchesBlocks, TypeOK, Region, Top
<1>9. \A q \in regions' : q.used => \E c \in blocks' : c.start = q.start
    <2> SUFFICES ASSUME NEW q \in regions', q.used
                 PROVE  \E c \in blocks' : c.start = q.start
        OBVIOUS
    <2>1. q \in regions /\ q # r
        BY <1>2, <1>4, Zenon DEF gone
    <2>2. q.start # r.start
        BY <1>8, <2>1, Zenon
    <2>3. PICK c \in blocks : c.start = q.start
        BY <2>1, Zenon DEF ListMatchesBlocks
    <2> QED
        BY <1>1, <1>4, <2>2, <2>3, Zenon
<1>10. \A c \in blocks' : \E q \in regions' :
            q.used /\ q.start = c.start /\ c.count <= q.size
    <2> SUFFICES ASSUME NEW c \in blocks, c # b
                 PROVE  \E q \in regions' : q.used /\ q.start = c.start /\ c.count <= q.size
        BY <1>4, Zenon
    <2>1. PICK q \in regions : q.used /\ q.start = c.start /\ c.count <= q.size
        BY Zenon DEF ListMatchesBlocks
    <2>2. c.start # b.start
        BY Zenon DEF ListMatchesBlocks
    <2>3. q \notin gone
        BY <1>1, <1>3, <2>1, <2>2, Zenon
    <2> QED
        BY <1>4, <2>1, <2>3, Zenon
<1>11. \A c, d \in blocks' : c.start = d.start => c = d
    BY <1>4, Zenon DEF ListMatchesBlocks
<1> QED
    BY <1>5, <1>6, <1>7, <1>9, <1>10, <1>11, Zenon DEF ListMatchesBlocks, Run, Top

LEMMA NextInv == Inv /\ [Next]_vars => Inv'
<1> SUFFICES ASSUME Inv, [Next]_vars PROVE Inv'
    OBVIOUS
<1>1. ASSUME NEW n \in Counts, NEW align \in Alignments, NEW limit \in Limits,
             AllocatePages(n, align, limit)
      PROVE  Inv'
    BY <1>1, AllocateInv, Zenon
<1>2. ASSUME NEW n \in Counts, NEW align \in Alignments, NEW limit \in Limits,
             AllocateFails(n, align, limit)
      PROVE  Inv'
    <2>1. UNCHANGED <<regions, blocks, usedPages, freePages>> /\ exhausted' \in BOOLEAN
        BY <1>2, Zenon DEF AllocateFails, Inv, TypeOK
    <2> QED
        BY <2>1, Zenon DEF Inv, TypeOK, ListMatchesBlocks
<1>3. ASSUME NEW b \in blocks, FreePages(b)
      PROVE  Inv'
    BY <1>3, FreeInv, Zenon
<1>4. CASE UNCHANGED vars
    BY <1>4, Zenon DEF vars, Inv, TypeOK, ListMatchesBlocks
<1> QED
    BY <1>1, <1>2, <1>3, <1>4, Zenon DEF Next

(* In every reachable state the region list and the holders agree          *)
(* (memory.cpp:239-345).                                                   *)
THEOREM ListCorrect == Spec => [](TypeOK /\ ListMatchesBlocks)
<1>1. Init => Inv
    BY InitInv, Zenon
<1>2. Inv /\ [Next]_vars => Inv'
    BY NextInv, Zenon
<1>3. Spec => []Inv
    BY <1>1, <1>2, PTL DEF Spec
<1> QED
    BY <1>3, PTL DEF Inv

-----------------------------------------------------------------------------
(* The runs that holders have are apart and in usable memory.              *)
LEMMA BlocksApart ==
    ASSUME Inv
    PROVE  /\ BlocksDisjoint
           /\ \A b \in blocks : Run(b.start, b.count) \subseteq Managed
           /\ \A b \in blocks, r \in regions : ~r.used =>
                    Run(b.start, b.count) \cap Run(r.start, r.size) = {}
<1> USE DEF Inv
<1>1. \A b \in blocks : \E r \in regions :
        /\ r.used /\ r.start = b.start
        /\ Run(b.start, b.count) \subseteq Run(r.start, r.size)
    <2> SUFFICES ASSUME NEW b \in blocks
                 PROVE  \E r \in regions : /\ r.used /\ r.start = b.start
                                           /\ Run(b.start, b.count) \subseteq Run(r.start, r.size)
        OBVIOUS
    <2>1. PICK r \in regions : r.used /\ r.start = b.start /\ b.count <= r.size
        BY Zenon DEF ListMatchesBlocks
    <2> QED
        BY <2>1 DEF TypeOK, Region, Run
<1>2. \A q, r \in regions : q # r => Run(q.start, q.size) \cap Run(r.start, r.size) = {}
    <2> SUFFICES ASSUME NEW q \in regions, NEW r \in regions, q # r
                 PROVE  Run(q.start, q.size) \cap Run(r.start, r.size) = {}
        OBVIOUS
    <2>1. Top(q) <= r.start \/ Top(r) <= q.start
        BY Zenon DEF ListMatchesBlocks
    <2>2. q \in Region /\ r \in Region
        BY Zenon DEF TypeOK
    <2> QED
        BY <2>1, <2>2 DEF Region, Run, Top
<1>3. BlocksDisjoint
    <2> SUFFICES ASSUME NEW b \in blocks, NEW c \in blocks, b # c
                 PROVE  Run(b.start, b.count) \cap Run(c.start, c.count) = {}
        BY Zenon DEF BlocksDisjoint
    <2>1. b.start # c.start
        BY Zenon DEF ListMatchesBlocks
    <2> QED
        BY <1>1, <1>2, <2>1, Zenon
<1>4. \A b \in blocks : Run(b.start, b.count) \subseteq Managed
    BY <1>1, Zenon DEF ListMatchesBlocks
<1>5. \A b \in blocks, r \in regions : ~r.used =>
            Run(b.start, b.count) \cap Run(r.start, r.size) = {}
    BY <1>1, <1>2
<1> QED
    BY <1>3, <1>4, <1>5, Zenon

(* Two holders never share a page, for any map, pool and requests          *)
(* (memory.cpp:239-306).                                                   *)
THEOREM HoldersApart == Spec => []BlocksDisjoint
<1>1. Inv => BlocksDisjoint
    BY BlocksApart, Zenon
<1>2. Spec => []Inv
    BY ListCorrect, PTL DEF Inv
<1> QED
    BY <1>1, <1>2, PTL

(* The run that the abstract allocator sees in a used region.              *)
AsRun(r) == [start |-> r.start, count |-> r.size]

(* An allocation marks one more region as used, inside a free one.         *)
LEMMA AllocateListed ==
    ASSUME Inv, Inv', NEW n \in Counts, NEW align \in Alignments, NEW limit \in Limits,
           AllocatePages(n, align, limit)
    PROVE  \E u \in Region :
              /\ Listed' = Listed \cup {AsRun(u)}
              /\ Run(u.start, u.size) \subseteq Managed
              /\ \A q \in regions : q.used => Run(q.start, q.size) \cap Run(u.start, u.size) = {}
<1>1. PICK r \in regions :
        /\ Eligible(r, n, align, limit)
        /\ regions' = (regions \ {r}) \cup
                          Carve(r, AlignUp(r.start, align), AlignUp(r.start, align) + n)
    BY Zenon DEF AllocatePages
<1> DEFINE a == AlignUp(r.start, align)
           cut == Carve(r, a, a + n)
<1>2. /\ a \in Nat \ {0} /\ n \in Nat \ {0} /\ a + n \in Nat
      /\ r.start <= a /\ a < a + n /\ a + n <= Top(r)
      /\ ~r.used
    BY <1>1, FitFacts, Zenon DEF Inv, AllocatePages
<1>3. r \in Region
    BY Zenon DEF Inv, TypeOK
<1> HIDE DEF a
<1>4. /\ cut \subseteq Region
      /\ \A q \in cut : r.start <= q.start /\ Top(q) <= Top(r)
      /\ \A p, q \in cut : p # q => Top(p) <= q.start \/ Top(q) <= p.start
      /\ \A q \in cut : q.used => q.start = a
      /\ \E q \in cut : q.used /\ q.start = a
    BY <1>2, <1>3, CarveFacts
<1>5. regions' = (regions \ {r}) \cup cut
    BY <1>1, Zenon DEF a
<1> HIDE DEF cut
<1>6. PICK u \in cut : u.used /\ u.start = a
    BY <1>4, Zenon
<1>7. \A q \in cut : q.used => q = u
    BY <1>4, <1>6 DEF Region, Top
<1>8. {q \in regions' : q.used} = {q \in regions : q.used} \cup {u}
    BY <1>2, <1>5, <1>6, <1>7, Zenon
<1>9. Listed' = Listed \cup {AsRun(u)}
    BY <1>8, Zenon DEF Listed, AsRun
<1>10. Run(u.start, u.size) \subseteq Run(r.start, r.size)
    BY <1>3, <1>4, <1>6 DEF Run, Top, Region
<1>11. Run(r.start, r.size) \subseteq Managed
    BY Zenon DEF Inv, ListMatchesBlocks
<1>12. \A q \in regions : q.used => Run(q.start, q.size) \cap Run(r.start, r.size) = {}
    <2> SUFFICES ASSUME NEW q \in regions, q.used
                 PROVE  Run(q.start, q.size) \cap Run(r.start, r.size) = {}
        OBVIOUS
    <2>1. q # r
        BY <1>2, Zenon
    <2>2. Top(q) <= r.start \/ Top(r) <= q.start
        BY <2>1, Zenon DEF Inv, ListMatchesBlocks
    <2>3. q \in Region
        BY Zenon DEF Inv, TypeOK
    <2> QED
        BY <1>3, <2>2, <2>3 DEF Region, Run, Top
<1> QED
    BY <1>4, <1>6, <1>9, <1>10, <1>11, <1>12, Zenon

(* A free unmarks the region of the block, and no other.                   *)
LEMMA FreeListedRun ==
    ASSUME Inv, NEW b \in blocks, FreePages(b)
    PROVE  \E v \in Listed : Listed' = Listed \ {v}
<1>1. PICK r \in regions :
        /\ r.used /\ r.start = b.start
        /\ regions' = (regions \ ({r} \cup FreeAfter(r) \cup FreeBefore(r))) \cup {Merged(r)}
    BY Zenon DEF FreePages
<1>2. ~Merged(r).used
    BY MergeFacts, Zenon
<1>3. {q \in regions' : q.used} = {q \in regions : q.used} \ {r}
    BY <1>1, <1>2, Zenon DEF FreeAfter, FreeBefore
<1>4. \A q \in regions : AsRun(q) = AsRun(r) => q = r
    BY DEF Inv, ListMatchesBlocks, TypeOK, Region, Top, AsRun
<1>5. AsRun(r) \in Listed
    BY <1>1, Zenon DEF Listed, AsRun
<1>6. Listed' = Listed \ {AsRun(r)}
    <2>1. Listed = {AsRun(q) : q \in {p \in regions : p.used}}
        BY Zenon DEF Listed, AsRun
    <2>2. Listed' = {AsRun(q) : q \in {p \in regions' : p.used}}
        BY Zenon DEF Listed, AsRun
    <2> QED
        BY <1>1, <1>3, <1>4, <2>1, <2>2, Zenon
<1> QED
    BY <1>5, <1>6, Zenon

(* The allocator implements PageAllocator: the used regions of the list    *)
(* change as its blocks may (memory.cpp:239-345).                          *)
THEOREM AllocatorRefines == Spec => Implements
<1>1. Init => Abstract!Init
    <2> SUFFICES ASSUME Init PROVE Listed = {}
        BY Zenon DEF Abstract!Init
    <2>1. \A r \in regions : ~r.used
        BY InitRegionFacts, Zenon DEF Init, InitRegions
    <2> QED
        BY <2>1, Zenon DEF Listed
<1>2. Inv /\ Inv' /\ [Next]_vars => [Abstract!Next]_Listed
    <2> SUFFICES ASSUME Inv, Inv', [Next]_vars
                 PROVE  Abstract!Next \/ Listed' = Listed
        OBVIOUS
    <2>1. ASSUME NEW n \in Counts, NEW align \in Alignments, NEW limit \in Limits,
                 AllocatePages(n, align, limit)
          PROVE  Abstract!Allocate
        <3>1. PICK u \in Region :
                /\ Listed' = Listed \cup {AsRun(u)}
                /\ Run(u.start, u.size) \subseteq Managed
                /\ \A q \in regions : q.used => Run(q.start, q.size) \cap Run(u.start, u.size) = {}
            BY <2>1, AllocateListed, Zenon
        <3> DEFINE first == u.start
                   last == u.start + u.size - 1
        <3>2. u.start \in Nat /\ u.size \in Nat \ {0}
            BY Zenon DEF Region
        <3>3. first \in Managed /\ last \in Managed /\ first <= last
            BY <3>1, <3>2 DEF Run
        <3>4. AsRun(u) = [start |-> first, count |-> last - first + 1]
            BY <3>2 DEF AsRun
        <3>5. Abstract!Run(AsRun(u)) \subseteq Managed
            BY <3>1, Zenon DEF Abstract!Run, AsRun, Run
        <3>6. \A o \in Listed : Abstract!Run(o) \cap Abstract!Run(AsRun(u)) = {}
            BY <3>1 DEF Abstract!Run, AsRun, Run, Listed
        <3> HIDE DEF first, last
        <3> QED
            BY <3>1, <3>3, <3>4, <3>5, <3>6, Zenon DEF Abstract!Allocate
    <2>2. ASSUME NEW n \in Counts, NEW align \in Alignments, NEW limit \in Limits,
                 AllocateFails(n, align, limit)
          PROVE  Listed' = Listed
        BY <2>2, Zenon DEF AllocateFails, Listed
    <2>3. ASSUME NEW b \in blocks, FreePages(b)
          PROVE  Abstract!Free
        BY <2>3, FreeListedRun, Zenon DEF Abstract!Free
    <2>4. CASE UNCHANGED vars
        BY <2>4, Zenon DEF vars, Listed
    <2> QED
        BY <2>1, <2>2, <2>3, <2>4, Zenon DEF Next, Abstract!Next
<1>3. Spec => []Inv
    BY ListCorrect, PTL DEF Inv
<1> QED
    BY <1>1, <1>2, <1>3, PTL DEF Spec, Implements, Abstract!Spec

-----------------------------------------------------------------------------
(* The first two conjuncts of CountersExact; they are inductive.           *)
Counted ==
    /\ usedPages = Cardinality(Held)
    /\ freePages + usedPages = Cardinality(MapPages)

LEMMA HeldFinite ==
    ASSUME Inv
    PROVE  /\ Held \subseteq MapPages
           /\ IsFiniteSet(Held) /\ Cardinality(Held) \in Nat
<1>1. Held \subseteq MapPages
    BY BlocksApart, MapPagesFinite, Zenon DEF Held
<1> QED
    BY <1>1, MapPagesFinite, FS_Subset, FS_CardinalityType, Zenon

(* A run that no one holds adds its length to what is held.                *)
LEMMA HeldGrows ==
    ASSUME NEW S, IsFiniteSet(S), NEW a \in Nat, NEW n \in Nat \ {0},
           S \cap Run(a, n) = {}
    PROVE  Cardinality(S \cup Run(a, n)) = Cardinality(S) + n
<1>1. IsFiniteSet(Run(a, n)) /\ Cardinality(Run(a, n)) = n
    BY FS_Interval DEF Run
<1>2. Cardinality(S) \in Nat
    BY FS_CardinalityType, Zenon
<1>3. Cardinality(S \cup Run(a, n)) = Cardinality(S) + n - Cardinality(S \cap Run(a, n))
    BY <1>1, FS_Union, Zenon
<1> QED
    BY <1>2, <1>3, FS_EmptySet

LEMMA CountedStep ==
    ASSUME Inv, Inv', Counted, [Next]_vars
    PROVE  Counted'
<1>0. usedPages \in Int /\ freePages \in Int /\ usedPages' \in Int /\ freePages' \in Int
    BY Zenon DEF Inv, TypeOK
<1>1. ASSUME NEW n \in Counts, NEW align \in Alignments, NEW limit \in Limits,
             AllocatePages(n, align, limit)
      PROVE  Counted'
    <2>1. PICK r \in regions :
            /\ Eligible(r, n, align, limit)
            /\ blocks' = blocks \cup {[start |-> AlignUp(r.start, align), count |-> n]}
        BY <1>1, Zenon DEF AllocatePages
    <2> DEFINE a == AlignUp(r.start, align)
               b == [start |-> a, count |-> n]
    <2>2. /\ a \in Nat /\ n \in Nat \ {0}
          /\ ~r.used
          /\ Run(a, n) \subseteq Run(r.start, r.size)
        BY <1>1, <2>1, FitFacts, Zenon DEF Inv, AllocatePages
    <2>3. b.start = a /\ b.count = n /\ blocks' = blocks \cup {b}
        BY <2>1, Zenon
    <2> HIDE DEF a, b
    <2>4. Held \cap Run(a, n) = {}
        BY <2>2, BlocksApart, Zenon DEF Held
    <2>5. Held' = Held \cup Run(a, n)
        BY <2>3, Zenon DEF Held, Run
    <2>6. Cardinality(Held') = Cardinality(Held) + n
        BY <2>2, <2>4, <2>5, HeldFinite, HeldGrows, Zenon
    <2> QED
        BY <1>0, <1>1, <2>2, <2>6 DEF Counted, AllocatePages
<1>2. ASSUME NEW b \in blocks, FreePages(b)
      PROVE  Counted'
    <2>1. blocks' = blocks \ {b} /\ b.start \in Nat /\ b.count \in Nat \ {0}
        BY <1>2, Zenon DEF FreePages, Inv, TypeOK
    <2>2. Held = Held' \cup Run(b.start, b.count)
        BY <2>1, Zenon DEF Held, Run
    <2>3. Held' \cap Run(b.start, b.count) = {}
        BY <2>1, BlocksApart DEF Held, BlocksDisjoint, Run
    <2>4. Held' \subseteq Held
        BY <2>2, Zenon
    <2>5. IsFiniteSet(Held') /\ Cardinality(Held') \in Nat
        BY <2>4, HeldFinite, FS_Subset, FS_CardinalityType, Zenon
    <2>6. Cardinality(Held) = Cardinality(Held') + b.count
        BY <2>1, <2>2, <2>3, <2>5, HeldGrows, Zenon
    <2> QED
        BY <1>0, <1>2, <2>1, <2>5, <2>6 DEF Counted, FreePages
<1>3. ASSUME UNCHANGED <<usedPages, freePages, blocks>>
      PROVE  Counted'
    BY <1>3, Zenon DEF Counted, Held
<1> QED
    BY <1>1, <1>2, <1>3, Zenon DEF Next, vars, AllocateFails

LEMMA CountersFollow ==
    ASSUME Inv, Counted
    PROVE  CountersExact
<1>1. FreeListed \subseteq MapPages \ Held
    <2>1. FreeListed \subseteq Managed
        BY DEF FreeListed, Pages, Inv, ListMatchesBlocks
    <2>2. FreeListed \cap Held = {}
        BY BlocksApart DEF FreeListed, Pages, Held
    <2> QED
        BY <2>1, <2>2, MapPagesFinite, Zenon
<1>2. /\ IsFiniteSet(MapPages \ Held)
      /\ Cardinality(MapPages \ Held) = Cardinality(MapPages) - Cardinality(MapPages \cap Held)
    BY MapPagesFinite, FS_Difference, Zenon
<1>3. Cardinality(MapPages \cap Held) = Cardinality(Held)
    <2>1. MapPages \cap Held = Held
        BY HeldFinite, Zenon
    <2> QED
        BY <2>1, Zenon
<1>4. Cardinality(FreeListed) <= Cardinality(MapPages \ Held)
    BY <1>1, <1>2, FS_Subset, Zenon
<1>5. Cardinality(MapPages \ Held) = freePages
    <2>1. freePages \in Int /\ usedPages \in Int
        BY Zenon DEF Inv, TypeOK
    <2>2. Cardinality(MapPages) \in Nat
        BY MapPagesFinite, Zenon
    <2> QED
        BY <1>2, <1>3, <2>1, <2>2 DEF Counted
<1> QED
    BY <1>4, <1>5, Zenon DEF CountersExact, Counted

(* The page counters are exact and cannot wrap, whatever the pool does     *)
(* (memory.cpp:230, 300-301, 319-320).                                     *)
THEOREM CountersCorrect == Spec => []CountersExact
<1>1. Init => Counted
    <2> SUFFICES ASSUME Init PROVE Counted
        OBVIOUS
    <2>1. Held = {}
        BY Zenon DEF Init, Held
    <2> QED
        BY <2>1, FS_EmptySet, MapPagesFinite DEF Init, Counted
<1>2. Inv /\ Inv' /\ Counted /\ [Next]_vars => Counted'
    BY CountedStep, Zenon
<1>3. Inv /\ Counted => CountersExact
    BY CountersFollow, Zenon
<1>4. Spec => []Inv
    BY ListCorrect, PTL DEF Inv
<1> QED
    BY <1>1, <1>2, <1>3, <1>4, PTL DEF Spec

-----------------------------------------------------------------------------
(* Unless the pool runs out, carving a run out of a region keeps its pages. *)
LEMMA CarvePages ==
    ASSUME NEW r \in Region, NEW a \in Nat, NEW b \in Nat,
           r.start <= a, a < b, b <= Top(r),
           b < Top(r) => Nodes(IF a = r.start THEN 1 ELSE 2)
    PROVE  Run(r.start, r.size) \subseteq Pages(Carve(r, a, b))
<1>0. r.start \in Nat /\ r.size \in Nat /\ Top(r) = r.start + r.size
    BY Zenon DEF Region, Top
<1> SUFFICES ASSUME NEW x \in Run(r.start, r.size)
             PROVE  \E q \in Carve(r, a, b) : x \in Run(q.start, q.size)
    BY Zenon DEF Pages
<1>1. x \in Int /\ r.start <= x /\ x < Top(r)
    BY <1>0 DEF Run
<1>2. CASE x < a
    <2>1. Free(r.start, a) \in Carve(r, a, b)
        BY <1>0, <1>1, <1>2 DEF Carve
    <2>2. x \in Run(Free(r.start, a).start, Free(r.start, a).size)
        BY <1>0, <1>1, <1>2 DEF Free, Run
    <2> QED
        BY <2>1, <2>2, Zenon
<1>3. CASE b <= x
    <2>1. Free(b, Top(r)) \in Carve(r, a, b)
        BY <1>0, <1>1, <1>3 DEF Carve
    <2>2. x \in Run(Free(b, Top(r)).start, Free(b, Top(r)).size)
        BY <1>0, <1>1, <1>3 DEF Free, Run
    <2> QED
        BY <2>1, <2>2, Zenon
<1>4. CASE a <= x /\ x < b
    <2>1. Used(a, b) \in Carve(r, a, b) \/ Used(a, Top(r)) \in Carve(r, a, b)
        BY Zenon DEF Carve
    <2>2. /\ x \in Run(Used(a, b).start, Used(a, b).size)
          /\ x \in Run(Used(a, Top(r)).start, Used(a, Top(r)).size)
        BY <1>0, <1>1, <1>4 DEF Used, Run
    <2> QED
        BY <2>1, <2>2, Zenon
<1> QED
    BY <1>1, <1>2, <1>3, <1>4

LEMMA ConservedStep ==
    ASSUME Inv, Inv', PagesConserved, [Next]_vars
    PROVE  PagesConserved'
<1> SUFFICES ASSUME ~exhausted'
             PROVE  Managed \subseteq Pages(regions')
    <2>1. Pages(regions') \subseteq Managed
        BY DEF Inv, ListMatchesBlocks, Pages, Run
    <2> QED
        BY <2>1, Zenon DEF PagesConserved, Pages, Run
<1>1. ASSUME NEW n \in Counts, NEW align \in Alignments, NEW limit \in Limits,
             AllocatePages(n, align, limit)
      PROVE  Managed \subseteq Pages(regions')
    <2>1. PICK r \in regions :
            LET a == AlignUp(r.start, align)
            IN  /\ Eligible(r, n, align, limit)
                /\ regions' = (regions \ {r}) \cup Carve(r, a, a + n)
                /\ ~exhausted
                /\ a + n < Top(r) => Nodes(IF a = r.start THEN 1 ELSE 2)
        BY <1>1, Zenon DEF AllocatePages
    <2> DEFINE a == AlignUp(r.start, align)
    <2>2. /\ a \in Nat /\ n \in Nat \ {0} /\ a + n \in Nat
          /\ r.start <= a /\ a < a + n /\ a + n <= Top(r)
          /\ r \in Region
        BY <1>1, <2>1, FitFacts, Zenon DEF Inv, TypeOK, AllocatePages
    <2>3. Run(r.start, r.size) \subseteq Pages(Carve(r, a, a + n))
        BY <2>1, <2>2, CarvePages, Zenon
    <2>4. Managed = Pages(regions)
        BY <2>1, Zenon DEF PagesConserved
    <2> QED
        BY <2>1, <2>3, <2>4, Zenon DEF Pages
<1>2. ASSUME NEW b \in blocks, FreePages(b)
      PROVE  Managed \subseteq Pages(regions')
    <2>1. PICK r \in regions :
            regions' = (regions \ ({r} \cup FreeAfter(r) \cup FreeBefore(r))) \cup {Merged(r)}
        BY <1>2, Zenon DEF FreePages
    <2>2. Run(Merged(r).start, Merged(r).size) = Pages({r} \cup FreeAfter(r) \cup FreeBefore(r))
        BY MergeFacts, Zenon
    <2>3. Managed = Pages(regions)
        BY <1>2, Zenon DEF PagesConserved, FreePages
    <2> QED
        BY <2>1, <2>2, <2>3, Zenon DEF Pages
<1>3. ASSUME regions' = regions, ~exhausted
      PROVE  Managed \subseteq Pages(regions')
    BY <1>3, Zenon DEF PagesConserved
<1>4. ASSUME NEW n \in Counts, NEW align \in Alignments, NEW limit \in Limits,
             AllocateFails(n, align, limit)
      PROVE  Managed \subseteq Pages(regions')
    <2>1. regions' = regions /\ ~exhausted
        BY <1>4, Zenon DEF AllocateFails
    <2> QED
        BY <1>3, <2>1, Zenon
<1>5. CASE UNCHANGED vars
    <2>1. regions' = regions /\ ~exhausted
        BY <1>5, Zenon DEF vars
    <2> QED
        BY <1>3, <2>1, Zenon
<1> QED
    BY <1>1, <1>2, <1>4, <1>5, Zenon DEF Next

(* Splitting and merging lose no page while the pool of nodes lasts        *)
(* (memory.cpp:262-297, 322-338).                                          *)
THEOREM Conservation == Spec => []PagesConserved
<1>1. Init => PagesConserved
    BY Zenon DEF Init, PagesConserved, Managed
<1>2. Inv /\ Inv' /\ PagesConserved /\ [Next]_vars => PagesConserved'
    BY ConservedStep, Zenon
<1>3. Spec => []Inv
    BY ListCorrect, PTL DEF Inv
<1> QED
    BY <1>1, <1>2, <1>3, PTL DEF Spec

(* The list, its holders, the counters and the pages agree: allocate_pages *)
(* and free_pages keep all four together (memory.cpp:239-345).             *)
THEOREM PagesCorrect == Spec => []PagesSound
BY ListCorrect, HoldersApart, CountersCorrect, Conservation, PTL DEF PagesSound

-----------------------------------------------------------------------------
(* The free regions that are left of a free region r have its start, or    *)
(* its end, and border on the run taken out of it on the other side.       *)
LEMMA CarveEnds ==
    ASSUME NEW r \in Region, NEW a \in Nat, NEW b \in Nat,
           r.start <= a, a < b, b <= Top(r),
           NEW q \in Carve(r, a, b), ~q.used
    PROVE  \/ q.start = r.start /\ Top(q) = a /\ r.start < a
           \/ q.start = b /\ Top(q) = Top(r) /\ b < Top(r)
<1>0. r.start \in Nat \ {0} /\ r.size \in Nat \ {0} /\ Top(r) = r.start + r.size
    BY Zenon DEF Region, Top
<1>1. /\ q = Used(a, b) \/ q = Used(a, Top(r))
           \/ (q = Free(r.start, a) /\ a # r.start)
           \/ (q = Free(b, Top(r)) /\ b < Top(r))
    BY Zenon DEF Carve
<1>2. q # Used(a, b) /\ q # Used(a, Top(r))
    BY DEF Used
<1> QED
    BY <1>0, <1>1, <1>2 DEF Free, Top

LEMMA CoalescedStep ==
    ASSUME Inv, Coalesced, [Next]_vars
    PROVE  Coalesced'
<1> USE DEF Inv
<1>0. \A q \in regions : /\ q \in Region /\ q.start \in Nat \ {0} /\ q.size \in Nat \ {0}
                         /\ Top(q) = q.start + q.size /\ Top(q) \in Nat
    BY DEF TypeOK, Region, Top
<1>1. \A q, p \in regions : q # p => Top(q) <= p.start \/ Top(p) <= q.start
    BY Zenon DEF ListMatchesBlocks
<1>2. \A q, p \in regions :
        ~q.used /\ ~p.used /\ Top(q) = p.start => \E e \in Map : e.start = p.start
    BY Zenon DEF Coalesced
<1>3. ASSUME NEW n \in Counts, NEW align \in Alignments, NEW limit \in Limits,
             AllocatePages(n, align, limit)
      PROVE  Coalesced'
    <2>1. PICK r \in regions :
            LET a == AlignUp(r.start, align)
            IN  /\ Eligible(r, n, align, limit)
                /\ regions' = (regions \ {r}) \cup Carve(r, a, a + n)
        BY <1>3, Zenon DEF AllocatePages
    <2> DEFINE a == AlignUp(r.start, align)
               b == a + n
    <2>2. /\ a \in Nat /\ n \in Nat \ {0} /\ a + n \in Nat
          /\ r.start <= a /\ a < a + n /\ a + n <= Top(r)
          /\ r \in Region
        BY <1>3, <2>1, FitFacts, Zenon DEF Inv, TypeOK, AllocatePages
    <2>3. ~r.used
        BY <2>1, Zenon DEF Eligible, Fits
    <2>4. \A q \in regions' : ~q.used =>
            \/ q \in regions /\ q # r
            \/ q.start = r.start /\ Top(q) = a /\ r.start < a
            \/ q.start = b /\ Top(q) = Top(r) /\ b < Top(r)
        <3> SUFFICES ASSUME NEW q \in Carve(r, a, b), ~q.used
                     PROVE  \/ q.start = r.start /\ Top(q) = a /\ r.start < a
                            \/ q.start = b /\ Top(q) = Top(r) /\ b < Top(r)
            BY <2>1, Zenon
        <3> QED
            BY <2>2, CarveEnds
    <2>5. b \in Nat /\ a < b /\ b <= Top(r)
        BY <2>2, Zenon
    <2> HIDE DEF a, b
    <2> SUFFICES ASSUME NEW q \in regions', NEW p \in regions',
                        ~q.used, ~p.used, Top(q) = p.start
                 PROVE  \E e \in Map : e.start = p.start
        BY Zenon DEF Coalesced, Top
    <2>6. CASE p \in regions /\ p # r
        <3>1. (q \in regions /\ q # r) \/ Top(q) = Top(r)
            BY <1>0, <1>1, <2>2, <2>4, <2>5, <2>6
        <3> QED
            BY <1>2, <2>3, <2>6, <3>1, Zenon
    <2>7. CASE p.start = r.start
        <3>1. q \in regions /\ q # r
            BY <1>0, <2>2, <2>4, <2>7
        <3> QED
            BY <1>2, <2>3, <2>7, <3>1
    <2>8. CASE p.start = b /\ b < Top(r)
        BY <1>0, <1>1, <2>2, <2>4, <2>5, <2>8
    <2> QED
        BY <2>4, <2>6, <2>7, <2>8, Zenon
<1>4. ASSUME NEW b \in blocks, FreePages(b)
      PROVE  Coalesced'
    <2>1. PICK r \in regions :
            regions' = (regions \ ({r} \cup FreeAfter(r) \cup FreeBefore(r))) \cup {Merged(r)}
        BY <1>4, Zenon DEF FreePages
    <2> DEFINE m == Merged(r)
    <2>2. \/ FreeBefore(r) = {} /\ m.start = r.start
          \/ \E p \in regions : ~p.used /\ p.start = m.start
        BY Zenon DEF Merged, FreeBefore, Free
    <2>3. \/ FreeAfter(r) = {} /\ Top(m) = Top(r)
          \/ \E s \in regions : ~s.used /\ Top(s) = Top(m)
        <3> DEFINE s == IF FreeAfter(r) = {} THEN r ELSE CHOOSE x \in FreeAfter(r) : TRUE
                   f == IF FreeBefore(r) = {} THEN r ELSE CHOOSE x \in FreeBefore(r) : TRUE
        <3>1. s \in regions /\ ((s = r /\ FreeAfter(r) = {}) \/ ~s.used)
            BY Zenon DEF FreeAfter
        <3>2. f \in regions
            BY Zenon DEF FreeBefore
        <3>3. m = Free(f.start, Top(s))
            BY DEF Merged
        <3> HIDE DEF s, f, m
        <3>4. Top(m) = Top(s)
            BY <1>0, <3>1, <3>2, <3>3 DEF Free, Top
        <3> QED
            BY <3>1, <3>4, Zenon
    <2>4. m \in Region
        BY MergeFacts, Zenon
    <2> HIDE DEF m
    <2> SUFFICES ASSUME NEW q \in regions', NEW p \in regions',
                        ~q.used, ~p.used, Top(q) = p.start
                 PROVE  \E e \in Map : e.start = p.start
        BY Zenon DEF Coalesced, Top
    <2>5. q # m \/ p # m
        BY <2>4 DEF Region, Top
    <2>6. CASE p = m
        <3>1. q \in regions /\ q \notin FreeBefore(r)
            BY <2>1, <2>5, <2>6, Zenon DEF m
        <3>2. FreeBefore(r) # {} \/ m.start # r.start
            BY <2>6, <3>1, Zenon DEF FreeBefore
        <3> QED
            BY <1>2, <2>2, <2>6, <3>1, <3>2, Zenon
    <2>7. CASE q = m
        <3>1. p \in regions /\ p \notin FreeAfter(r)
            BY <2>1, <2>5, <2>7, Zenon DEF m
        <3>2. FreeAfter(r) # {} \/ Top(m) # Top(r)
            BY <2>7, <3>1, Zenon DEF FreeAfter
        <3> QED
            BY <1>2, <2>3, <2>7, <3>1, <3>2, Zenon
    <2>8. CASE q \in regions /\ p \in regions
        BY <1>2, <2>8, Zenon
    <2> QED
        BY <2>1, <2>6, <2>7, <2>8, Zenon DEF m
<1>5. CASE regions' = regions
    BY <1>5, Zenon DEF Coalesced, Top
<1> QED
    BY <1>3, <1>4, <1>5, Zenon DEF Next, vars, AllocateFails

(* Where the list has no border, a run of usable pages is in one region:   *)
(* past the end of a region the next page would start another one.         *)
LEMMA WholeAgain == Inv /\ Coalesced /\ PagesConserved => FullyRecovers
<1> SUFFICES ASSUME Inv, Coalesced, PagesConserved, blocks = {}, ~exhausted,
                    NEW q \in InitRegions
             PROVE  \E r \in regions :
                        ~r.used /\ Run(q.start, q.size) \subseteq Run(r.start, r.size)
    BY Zenon DEF FullyRecovers
<1>0. \A r \in regions : /\ r.start \in Nat \ {0} /\ r.size \in Nat \ {0}
                         /\ Top(r) = r.start + r.size /\ Top(r) \in Nat
    BY DEF Inv, TypeOK, Region, Top
<1>1. \A r \in regions : ~r.used
    BY Zenon DEF Inv, ListMatchesBlocks
<1>2. \A r, s \in regions : r # s => Top(r) <= s.start \/ Top(s) <= r.start
    BY Zenon DEF Inv, ListMatchesBlocks
<1>3. PICK e \in Included : q = InitRegion(e)
    BY Zenon DEF InitRegions
<1>4. /\ q.start \in Nat /\ q.size \in Nat \ {0} /\ q.start >= e.start
      /\ q.start + q.size = e.start + e.pages
      /\ e \in Map /\ e.start \in Nat /\ e.pages \in Nat
    BY <1>3, InitRegionFacts, MapAssumption DEF Region, Top
<1>5. \A x \in Run(q.start, q.size) : \E r \in regions : x \in Run(r.start, r.size)
    BY Zenon DEF PagesConserved, Managed, Pages
<1>6. PICK r \in regions : q.start \in Run(r.start, r.size)
    BY <1>4, <1>5 DEF Run
<1>7. r.start <= q.start /\ q.start < Top(r)
    BY <1>0, <1>4, <1>6 DEF Run
<1>8. q.start + q.size <= Top(r)
    <2> SUFFICES ASSUME Top(r) < q.start + q.size
                 PROVE  FALSE
        BY <1>0, <1>4
    <2>1. PICK s \in regions : Top(r) \in Run(s.start, s.size)
        BY <1>0, <1>4, <1>5, <1>7 DEF Run
    <2>2. s.start = Top(r)
        BY <1>0, <1>2, <2>1 DEF Run
    <2>3. PICK f \in Map : f.start = Top(r)
        BY <1>1, <2>2, Zenon DEF Coalesced
    <2>4. f.start \in Nat /\ f.pages \in Nat
        BY MapAssumption
    <2>5. e # f
        BY <1>4, <1>7, <2>3, <1>0
    <2>6. e.start + e.pages <= f.start \/ f.start + f.pages <= e.start
        BY <1>4, <2>5, MapAssumption, Zenon
    <2> QED
        BY <1>0, <1>4, <1>7, <2>3, <2>4, <2>6
<1>9. Run(q.start, q.size) \subseteq Run(r.start, r.size)
    BY <1>0, <1>4, <1>7, <1>8 DEF Run
<1> QED
    BY <1>1, <1>9, Zenon

(* free_pages merges a region with its free neighbours, so that the list   *)
(* fragments no further than the memory map, and with everything freed     *)
(* each range of the map is in one free region again, as long as the pool  *)
(* of nodes never ran out (memory.cpp:309-345).                            *)
THEOREM Recovery == Spec => []Recovers
<1>1. Init => Coalesced
    <2> SUFFICES ASSUME Init, NEW q \in regions, NEW r \in regions, Top(q) = r.start
                 PROVE  \E e \in Map : e.start = r.start
        BY Zenon DEF Coalesced
    <2>1. PICK e \in Included : r = InitRegion(e)
        BY Zenon DEF Init, InitRegions
    <2>2. q \in Region
        BY InitInv, Zenon DEF Inv, TypeOK
    <2>3. r.start # 1
        BY <2>2 DEF Region, Top
    <2> QED
        BY <2>1, <2>3, InitRegionFacts DEF InitRegion, Free
<1>2. Inv /\ Coalesced /\ [Next]_vars => Coalesced'
    BY CoalescedStep, Zenon
<1>3. Inv /\ Coalesced /\ PagesConserved => Recovers
    BY WholeAgain, Zenon DEF Recovers, Inv
<1>4. Spec => []Inv
    BY ListCorrect, PTL DEF Inv
<1> QED
    BY <1>1, <1>2, <1>3, <1>4, Conservation, PTL DEF Spec

=============================================================================
