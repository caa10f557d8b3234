---------------------------- MODULE GeometryProofs ----------------------------
(***************************************************************************)
(* Proofs about Geometry.                                                  *)
(***************************************************************************)
EXTENDS Geometry, SequenceTheorems, TLAPS

-------------------------------------------------------------------------------
(* Layouts, entries and actions *)

LEMMA LayoutTypes ==
    ASSUME NEW l \in Layout
    PROVE  /\ l = [float |-> l.float, size |-> l.size, pos |-> l.pos]
           /\ l.float \in BOOLEAN /\ l.size \in AllSizes
           /\ l.float => l.pos \in AllSpots
           /\ ~l.float => l.pos = None
  BY DEF Layout

LEMMA LayoutMade ==
    /\ \A s \in AllSizes, p \in AllSpots : [float |-> TRUE, size |-> s, pos |-> p] \in Layout
    /\ \A s \in AllSizes : [float |-> FALSE, size |-> s, pos |-> None] \in Layout
  BY DEF Layout

LEMMA ConstantTypes ==
    /\ {PeekSize, OverlaySize, PipSize} \subseteq AllSizes /\ Sizes \subseteq AllSizes
    /\ {PeekSpot, OverlaySpot, PipSpot, FloatSpot} \subseteq AllSpots /\ Spots \subseteq AllSpots
    /\ \A p \in AllSpots : Shifted[p] \in AllSpots /\ Placed[p] \in AllSpots
    /\ None \notin AllSizes /\ None \notin AllSpots /\ None \notin Geom /\ None \notin Layout
    /\ None \notin Peek
  BY GeometryAssumption DEF GeometryAssumption, AllSizes, AllSpots

LEMMA GeomTypes ==
    ASSUME NEW l \in Layout
    PROVE  /\ l.float => GeomOf(l) = [size |-> l.size, pos |-> l.pos] /\ GeomOf(l) \in Geom
           /\ ~l.float => GeomOf(l) = None
           /\ \A p \in AllSpots :
                 /\ GeomOr(l, p) \in Geom /\ GeomOr(l, p).size = l.size
                 /\ l.float => GeomOr(l, p) = [size |-> l.size, pos |-> l.pos]
  BY LayoutTypes, ConstantTypes DEF GeomOf, GeomOr, Geom

\* An entry by its fields.
E(d, c, m, k, p, o) ==
    [mode |-> d, corner |-> c, managed |-> m, lock |-> k, peek |-> p, origin |-> o]

LEMMA EntryTypes ==
    ASSUME NEW e \in Tracked
    PROVE  /\ e = E(e.mode, e.corner, e.managed, e.lock, e.peek, e.origin)
           /\ e.mode \in {"none", "auto", "pin", "overlay"}
           /\ e.mode = "none" => e = Untracked
           /\ e.mode # "none" => e.corner \in AllSpots
           /\ e.managed \in AllSizes \cup {None} /\ e.lock \in Geom \cup {None}
           /\ e.peek \in Peek \cup {None}
           /\ e.mode \in {"pin", "overlay"} => e.origin \in Layout
           /\ e.mode \in {"none", "auto"} => e.origin = None
  BY DEF Tracked, Entry, Untracked, E

LEMMA EntryMade ==
    ASSUME NEW c \in AllSpots, NEW m \in AllSizes \cup {None}, NEW k \in Geom \cup {None},
           NEW p \in Peek \cup {None}
    PROVE  /\ E("auto", c, m, k, p, None) \in Tracked
           /\ \A o \in Layout, d \in {"pin", "overlay"} : E(d, c, m, k, p, o) \in Tracked
  BY DEF Tracked, Entry, E

LEMMA ActTypes ==
    /\ Float \in Act /\ Tile \in Act /\ Shift \in Act
    /\ \A s \in AllSizes : Size(s) \in Act
    /\ \A p \in AllSpots : Place(p) \in Act
    /\ \A g \in Geom : Show(g) \in Seq(Act)
    /\ \A l : FloatIf(l) \in Seq(Act)
<1>1. Float \in Act /\ Tile \in Act /\ Shift \in Act
  BY DEF Act, Float, Tile, Shift
<1>2. (\A s \in AllSizes : Size(s) \in Act) /\ (\A p \in AllSpots : Place(p) \in Act)
  BY DEF Act, Size, Place
<1>3. \A g \in Geom : Show(g) \in Seq(Act)
  <2> SUFFICES ASSUME NEW g \in Geom PROVE Show(g) \in Seq(Act)
    OBVIOUS
  <2>1. Size(g.size) \in Act /\ Place(g.pos) \in Act
    BY <1>2 DEF Geom
  <2> QED  BY <2>1 DEF Show
<1>4. \A l : FloatIf(l) \in Seq(Act)
  BY <1>1 DEF FloatIf
<1> QED  BY <1>1, <1>2, <1>3, <1>4

LEMMA LayoutExcept ==
    ASSUME NEW l, l = [float |-> l.float, size |-> l.size, pos |-> l.pos]
    PROVE  /\ \A c, q : [l EXCEPT !.float = c, !.pos = q]
                          = [float |-> c, size |-> l.size, pos |-> q]
           /\ \A q : [l EXCEPT !.pos = q] = [float |-> l.float, size |-> l.size, pos |-> q]
           /\ \A s : [l EXCEPT !.size = s] = [float |-> l.float, size |-> s, pos |-> l.pos]
<1>0. PICK b, n, p : b = l.float /\ n = l.size /\ p = l.pos
                     /\ l = [float |-> b, size |-> n, pos |-> p]
  OBVIOUS
<1>1. ASSUME NEW c, NEW q
      PROVE  [l EXCEPT !.float = c, !.pos = q] = [float |-> c, size |-> n, pos |-> q]
  <2>1. PICK m : m = [l EXCEPT !.float = c]
    OBVIOUS
  <2>2. m = [float |-> c, size |-> n, pos |-> p]
    BY <1>0, <2>1
  <2>3. [m EXCEPT !.pos = q] = [float |-> c, size |-> n, pos |-> q]
    BY <2>2
  <2> QED  BY <2>1, <2>3
<1>2. ASSUME NEW q PROVE [l EXCEPT !.pos = q] = [float |-> b, size |-> n, pos |-> q]
  BY <1>0
<1>3. ASSUME NEW s PROVE [l EXCEPT !.size = s] = [float |-> b, size |-> s, pos |-> p]
  BY <1>0
<1> QED  BY <1>0, <1>1, <1>2, <1>3

\* Short sequences of actions.
LEMMA Concats ==
    ASSUME NEW a \in Act, NEW b \in Act
    PROVE  /\ \A s \in Seq(Act) : <<>> \o s = s /\ s \o <<>> = s
           /\ <<a>> \o <<b>> = <<a, b>>
           /\ \A c \in Act : <<a>> \o <<b, c>> = <<a, b, c>>
<1>1. \A s \in Seq(Act) : <<>> \o s = s /\ s \o <<>> = s
  OBVIOUS
<1>2. <<a>> \o <<b>> = <<a, b>>
  <2>1. <<a>> \in Seq(Act) /\ <<b>> \in Seq(Act) /\ <<a, b>> \in Seq(Act)
    OBVIOUS
  <2>2. Len(<<a>> \o <<b>>) = 2 /\ <<a>> \o <<b>> \in Seq(Act)
    BY <2>1
  <2>3. \A i \in 1..2 : (<<a>> \o <<b>>)[i] = <<a, b>>[i]
    BY <2>1
  <2> QED  BY <2>1, <2>2, <2>3, SeqEqual
<1>3. ASSUME NEW c \in Act PROVE <<a>> \o <<b, c>> = <<a, b, c>>
  <2>1. <<a>> \in Seq(Act) /\ <<b, c>> \in Seq(Act) /\ <<a, b, c>> \in Seq(Act)
    OBVIOUS
  <2>2. Len(<<a>> \o <<b, c>>) = 3 /\ <<a>> \o <<b, c>> \in Seq(Act)
    BY <2>1
  <2>3. \A i \in 1..3 : (<<a>> \o <<b, c>>)[i] = <<a, b, c>>[i]
    BY <2>1
  <2> QED  BY <2>1, <2>2, <2>3, SeqEqual
<1> QED  BY <1>1, <1>2, <1>3

\* The engine cannot tell the spot it asked for from the one where the window is.
LEMMA PlacedStays ==
    ASSUME NEW p \in AllSpots
    PROVE  Placed[p] \in AllSpots /\ Region(Placed[p]) = Region(p)
<1>1. Placed[p] \in AllSpots
  BY ConstantTypes
<1>2. \A S \in Unmoved : Placed[p] \in S <=> p \in S
  BY DEF Unmoved
<1> QED  BY <1>1, <1>2 DEF Region

\* A spot can be told from no spot, and where nothing takes space, from any other.
LEMMA RegionIs ==
    /\ \A p \in AllSpots : p \in Region(p)
    /\ Region(None) = {}
    /\ (\A p \in AllSpots : Placed[p] = p) => \A p \in AllSpots : Region(p) = {p}
<1>1. \A p \in AllSpots : p \in Region(p)
  BY DEF Region
<1>2. Region(None) = {}
  <2>1. AllSpots \in Unmoved /\ None \notin AllSpots
    BY ConstantTypes DEF Unmoved
  <2> QED  BY <2>1 DEF Region
<1>3. ASSUME \A p \in AllSpots : Placed[p] = p, NEW p \in AllSpots
      PROVE  Region(p) = {p}
  <2>1. {p} \in Unmoved
    BY <1>3 DEF Unmoved
  <2> QED  BY <1>1, <2>1 DEF Region
<1> QED  BY <1>1, <1>2, <1>3

\* What the actions do to a layout.
LEMMA AfterDoes ==
    ASSUME NEW l \in Layout
    PROVE  /\ \A a \in Act : After(l, a) \in Layout
           /\ After(l, Float) = IF l.float THEN l
                                ELSE [float |-> TRUE, size |-> l.size, pos |-> FloatSpot]
           /\ After(l, Tile) = [float |-> FALSE, size |-> l.size, pos |-> None]
           /\ \A s : After(l, Size(s)) = [float |-> l.float, size |-> s, pos |-> l.pos]
           /\ \A p : After(l, Place(p)) =
                        IF l.float THEN [float |-> l.float, size |-> l.size, pos |-> Placed[p]]
                        ELSE l
           /\ After(l, Shift) =
                IF l.float THEN [float |-> l.float, size |-> l.size, pos |-> Shifted[l.pos]]
                ELSE l
<1>0. l = [float |-> l.float, size |-> l.size, pos |-> l.pos]
  BY LayoutTypes
<1>e. /\ \A c, q : [l EXCEPT !.float = c, !.pos = q]
                     = [float |-> c, size |-> l.size, pos |-> q]
      /\ \A q : [l EXCEPT !.pos = q] = [float |-> l.float, size |-> l.size, pos |-> q]
      /\ \A s : [l EXCEPT !.size = s] = [float |-> l.float, size |-> s, pos |-> l.pos]
  BY <1>0, LayoutExcept, Zenon
<1>1. After(l, Float) = IF l.float THEN l
                        ELSE [float |-> TRUE, size |-> l.size, pos |-> FloatSpot]
  <2>1. [l EXCEPT !.float = TRUE, !.pos = FloatSpot]
          = [float |-> TRUE, size |-> l.size, pos |-> FloatSpot]
    BY <1>e, Zenon
  <2>2. ~l.float => After(l, Float) = [l EXCEPT !.float = TRUE, !.pos = FloatSpot]
    BY DEF After, Float
  <2>3. l.float => After(l, Float) = l
    BY DEF After, Float
  <2> QED  BY <2>1, <2>2, <2>3, Zenon
<1>2. After(l, Tile) = [float |-> FALSE, size |-> l.size, pos |-> None]
  <2>1. [l EXCEPT !.float = FALSE, !.pos = None]
          = [float |-> FALSE, size |-> l.size, pos |-> None]
    BY <1>e, Zenon
  <2>2. l.float => After(l, Tile) = [l EXCEPT !.float = FALSE, !.pos = None]
    BY DEF After, Tile
  <2>3. ~l.float => After(l, Tile) = l
    BY DEF After, Tile
  <2>4. ~l.float => l = [float |-> FALSE, size |-> l.size, pos |-> None]
    BY DEF Layout
  <2> QED  BY <2>1, <2>2, <2>3, <2>4, Zenon
<1>3. \A s : After(l, Size(s)) = [float |-> l.float, size |-> s, pos |-> l.pos]
  BY <1>e DEF After, Size
<1>4. \A q : After(l, Place(q)) =
               IF l.float THEN [float |-> l.float, size |-> l.size, pos |-> Placed[q]]
               ELSE l
  BY <1>e DEF After, Place
<1>5. After(l, Shift) =
        IF l.float THEN [float |-> l.float, size |-> l.size, pos |-> Shifted[l.pos]] ELSE l
  BY <1>e DEF After, Shift
<1>6. ASSUME NEW a \in Act PROVE After(l, a) \in Layout
  <2>1. \/ a \in {Float, Tile, Shift}
        \/ \E s \in AllSizes : a = Size(s)
        \/ \E p \in AllSpots : a = Place(p)
    BY DEF Act, Float, Tile, Shift, Size, Place
  <2>2. CASE a \in {Float, Tile, Shift}
    BY <1>1, <1>2, <1>5, <2>2, LayoutTypes, LayoutMade, ConstantTypes
  <2>3. CASE \E s \in AllSizes : a = Size(s)
    BY <1>3, <2>3, LayoutTypes, LayoutMade
  <2>4. CASE \E p \in AllSpots : a = Place(p)
    BY <1>4, <2>4, LayoutTypes, LayoutMade, ConstantTypes
  <2> QED  BY <2>1, <2>2, <2>3, <2>4
<1> QED  BY <1>1, <1>2, <1>3, <1>4, <1>5, <1>6

Fields(e, d, c, m, k, p, o) ==
    /\ e.mode = d /\ e.corner = c /\ e.managed = m /\ e.lock = k /\ e.peek = p /\ e.origin = o

LEMMA EntryFields ==
    \A d, c, m, k, p, o : Fields(E(d, c, m, k, p, o), d, c, m, k, p, o)
  BY DEF Fields, E

LEMMA UntrackedFields ==
    /\ Untracked = E("none", None, None, None, None, None) /\ Untracked \in Tracked
    /\ Fields(Untracked, "none", None, None, None, None, None)
    /\ Untracked = E(Untracked.mode, Untracked.corner, Untracked.managed, Untracked.lock,
                     Untracked.peek, Untracked.origin)
  BY DEF Untracked, E, Fields, Tracked

\* The entries the engine makes.
LEMMA NewEntries ==
    /\ \A x, y, z : Manual(x, y, z) = E(x, y, z, None, None, seen)
    /\ \A x, y, z, w : [Untracked EXCEPT !.mode = x, !.corner = y, !.managed = z, !.lock = w]
         = E(x, y, z, w, None, None)
    /\ \A x, y, z : [Untracked EXCEPT !.mode = x, !.corner = y, !.managed = z]
         = E(x, y, z, None, None, None)
<1>1. ASSUME NEW x, NEW y, NEW z
      PROVE  [Untracked EXCEPT !.mode = x, !.corner = y, !.managed = z]
               = E(x, y, z, None, None, None)
  <2>1. PICK a : a = [Untracked EXCEPT !.mode = x]
    OBVIOUS
  <2>2. a = E(x, None, None, None, None, None)
    BY <2>1 DEF E, Untracked
  <2>3. PICK b : b = [a EXCEPT !.corner = y]
    OBVIOUS
  <2>4. b = E(x, y, None, None, None, None)
    BY <2>2, <2>3 DEF E
  <2>5. [b EXCEPT !.managed = z] = E(x, y, z, None, None, None)
    BY <2>4 DEF E
  <2> QED  BY <2>1, <2>3, <2>5
<1>2. ASSUME NEW x, NEW y, NEW z, NEW w
      PROVE  [Untracked EXCEPT !.mode = x, !.corner = y, !.managed = z, !.lock = w]
               = E(x, y, z, w, None, None)
  <2>1. PICK a : a = [Untracked EXCEPT !.mode = x, !.corner = y, !.managed = z]
    OBVIOUS
  <2>2. a = E(x, y, z, None, None, None)
    BY <1>1, <2>1
  <2>3. [a EXCEPT !.lock = w] = E(x, y, z, w, None, None)
    BY <2>2 DEF E
  <2> QED  BY <2>1, <2>3
<1>3. ASSUME NEW x, NEW y, NEW z PROVE Manual(x, y, z) = E(x, y, z, None, None, seen)
  <2>1. PICK a : a = [Untracked EXCEPT !.mode = x, !.corner = y, !.managed = z]
    OBVIOUS
  <2>2. a = E(x, y, z, None, None, None)
    BY <1>1, <2>1
  <2>3. [a EXCEPT !.origin = seen] = E(x, y, z, None, None, seen)
    BY <2>2 DEF E
  <2> QED  BY <2>1, <2>3 DEF Manual
<1> QED  BY <1>1, <1>2, <1>3

\* An entry that is tracked, and what the changes of the actions make of it.
LEMMA TrackedExcept ==
    ASSUME NEW e \in Tracked, e.mode # "none"
    PROVE  /\ \A m \in AllSizes \cup {None} :
                /\ [e EXCEPT !.managed = m] \in Tracked
                /\ Fields([e EXCEPT !.managed = m],
                          e.mode, e.corner, m, e.lock, e.peek, e.origin)
           /\ \A k \in Geom \cup {None} :
                /\ [e EXCEPT !.lock = k] \in Tracked
                /\ Fields([e EXCEPT !.lock = k],
                          e.mode, e.corner, e.managed, k, e.peek, e.origin)
           /\ \A m \in AllSizes \cup {None}, k \in Geom \cup {None} :
                /\ [e EXCEPT !.managed = m, !.lock = k] \in Tracked
                /\ Fields([e EXCEPT !.managed = m, !.lock = k],
                          e.mode, e.corner, m, k, e.peek, e.origin)
           /\ \A c \in AllSpots, k \in Geom \cup {None} :
                /\ [e EXCEPT !.corner = c, !.lock = k] \in Tracked
                /\ Fields([e EXCEPT !.corner = c, !.lock = k],
                          e.mode, c, e.managed, k, e.peek, e.origin)
           /\ \A p \in Peek \cup {None}, m \in AllSizes \cup {None} :
                /\ [e EXCEPT !.peek = p, !.managed = m] \in Tracked
                /\ Fields([e EXCEPT !.peek = p, !.managed = m],
                          e.mode, e.corner, m, e.lock, p, e.origin)
           /\ \A c \in AllSpots, k \in Geom \cup {None}, m \in AllSizes \cup {None} :
                /\ [e EXCEPT !.corner = c, !.lock = k, !.managed = m] \in Tracked
                /\ Fields([e EXCEPT !.corner = c, !.lock = k, !.managed = m],
                          e.mode, c, m, k, e.peek, e.origin)
           /\ e.mode \in {"pin", "overlay"} =>
             \A c \in AllSpots, m \in AllSizes \cup {None}, k \in Geom \cup {None} :
                /\ [e EXCEPT !.mode = "overlay", !.corner = c, !.managed = m, !.lock = k]
                     \in Tracked
                /\ Fields([e EXCEPT !.mode = "overlay", !.corner = c, !.managed = m, !.lock = k],
                          "overlay", c, m, k, e.peek, e.origin)
<1>0. PICK m0, c0, m1, l0, p0, o0 :
         /\ m0 = e.mode /\ c0 = e.corner /\ m1 = e.managed /\ l0 = e.lock /\ p0 = e.peek
         /\ o0 = e.origin /\ e = E(m0, c0, m1, l0, p0, o0)
         /\ c0 \in AllSpots /\ m1 \in AllSizes \cup {None}
         /\ l0 \in Geom \cup {None} /\ p0 \in Peek \cup {None}
  BY EntryTypes
<1>m. ASSUME NEW c \in AllSpots, NEW m \in AllSizes \cup {None}, NEW k \in Geom \cup {None},
             NEW p \in Peek \cup {None}
      PROVE  E(m0, c, m, k, p, o0) \in Tracked
  <2>1. CASE e.mode = "auto"
    BY <1>0, <2>1, EntryTypes, EntryMade
  <2>2. CASE e.mode \in {"pin", "overlay"}
    BY <1>0, <2>2, EntryTypes, EntryMade
  <2> QED  BY <2>1, <2>2, EntryTypes
<1>o. ASSUME e.mode \in {"pin", "overlay"}, NEW c \in AllSpots, NEW m \in AllSizes \cup {None},
             NEW k \in Geom \cup {None}, NEW p \in Peek \cup {None}
      PROVE  E("overlay", c, m, k, p, o0) \in Tracked
  BY <1>0, <1>o, EntryTypes, EntryMade
<1>1. ASSUME NEW m \in AllSizes \cup {None}
      PROVE  /\ [e EXCEPT !.managed = m] \in Tracked
             /\ Fields([e EXCEPT !.managed = m],
                       e.mode, e.corner, m, e.lock, e.peek, e.origin)
  <2>1. PICK z : z = [e EXCEPT !.managed = m]
    OBVIOUS
  <2>2. z = E(m0, c0, m, l0, p0, o0)
    BY <1>0, <2>1 DEF E
  <2>3. E(m0, c0, m, l0, p0, o0) \in Tracked
    BY <1>0, <1>m
  <2>4. Fields(z, m0, c0, m, l0, p0, o0)
    BY <2>2, EntryFields
  <2>5. Fields(z, e.mode, e.corner, m, e.lock, e.peek, e.origin)
    BY <1>0, <2>4
  <2> QED  BY <2>1, <2>2, <2>3, <2>5
<1>2. ASSUME NEW k \in Geom \cup {None}
      PROVE  /\ [e EXCEPT !.lock = k] \in Tracked
             /\ Fields([e EXCEPT !.lock = k],
                       e.mode, e.corner, e.managed, k, e.peek, e.origin)
  <2>1. PICK z : z = [e EXCEPT !.lock = k]
    OBVIOUS
  <2>2. z = E(m0, c0, m1, k, p0, o0)
    BY <1>0, <2>1 DEF E
  <2>3. E(m0, c0, m1, k, p0, o0) \in Tracked
    BY <1>0, <1>m
  <2>4. Fields(z, m0, c0, m1, k, p0, o0)
    BY <2>2, EntryFields
  <2>5. Fields(z, e.mode, e.corner, e.managed, k, e.peek, e.origin)
    BY <1>0, <2>4
  <2> QED  BY <2>1, <2>2, <2>3, <2>5
<1>3. ASSUME NEW m \in AllSizes \cup {None}, NEW k \in Geom \cup {None}
      PROVE  /\ [e EXCEPT !.managed = m, !.lock = k] \in Tracked
             /\ Fields([e EXCEPT !.managed = m, !.lock = k],
                       e.mode, e.corner, m, k, e.peek, e.origin)
  <2>1. PICK r1 : r1 = [e EXCEPT !.managed = m]
    OBVIOUS
  <2>2. r1 = E(m0, c0, m, l0, p0, o0)
    BY <1>0, <2>1 DEF E
  <2>3. [r1 EXCEPT !.lock = k] = E(m0, c0, m, k, p0, o0)
    BY <2>2 DEF E
  <2>4. [e EXCEPT !.managed = m, !.lock = k] = E(m0, c0, m, k, p0, o0)
    BY <2>1, <2>3
  <2>5. E(m0, c0, m, k, p0, o0) \in Tracked
    BY <1>0, <1>m
  <2>p. PICK z : z = [e EXCEPT !.managed = m, !.lock = k]
    OBVIOUS
  <2>q. Fields(z, m0, c0, m, k, p0, o0)
    BY <2>4, <2>p, EntryFields
  <2>r. Fields(z, e.mode, e.corner, m, k, e.peek, e.origin)
    BY <1>0, <2>q
  <2> QED  BY <2>4, <2>5, <2>p, <2>r
<1>4. ASSUME NEW c \in AllSpots, NEW k \in Geom \cup {None}
      PROVE  /\ [e EXCEPT !.corner = c, !.lock = k] \in Tracked
             /\ Fields([e EXCEPT !.corner = c, !.lock = k],
                       e.mode, c, e.managed, k, e.peek, e.origin)
  <2>1. PICK r1 : r1 = [e EXCEPT !.corner = c]
    OBVIOUS
  <2>2. r1 = E(m0, c, m1, l0, p0, o0)
    BY <1>0, <2>1 DEF E
  <2>3. [r1 EXCEPT !.lock = k] = E(m0, c, m1, k, p0, o0)
    BY <2>2 DEF E
  <2>4. [e EXCEPT !.corner = c, !.lock = k] = E(m0, c, m1, k, p0, o0)
    BY <2>1, <2>3
  <2>5. E(m0, c, m1, k, p0, o0) \in Tracked
    BY <1>0, <1>m
  <2>p. PICK z : z = [e EXCEPT !.corner = c, !.lock = k]
    OBVIOUS
  <2>q. Fields(z, m0, c, m1, k, p0, o0)
    BY <2>4, <2>p, EntryFields
  <2>r. Fields(z, e.mode, c, e.managed, k, e.peek, e.origin)
    BY <1>0, <2>q
  <2> QED  BY <2>4, <2>5, <2>p, <2>r
<1>5. ASSUME NEW p \in Peek \cup {None}, NEW m \in AllSizes \cup {None}
      PROVE  /\ [e EXCEPT !.peek = p, !.managed = m] \in Tracked
             /\ Fields([e EXCEPT !.peek = p, !.managed = m],
                       e.mode, e.corner, m, e.lock, p, e.origin)
  <2>1. PICK r1 : r1 = [e EXCEPT !.peek = p]
    OBVIOUS
  <2>2. r1 = E(m0, c0, m1, l0, p, o0)
    BY <1>0, <2>1 DEF E
  <2>3. [r1 EXCEPT !.managed = m] = E(m0, c0, m, l0, p, o0)
    BY <2>2 DEF E
  <2>4. [e EXCEPT !.peek = p, !.managed = m] = E(m0, c0, m, l0, p, o0)
    BY <2>1, <2>3
  <2>5. E(m0, c0, m, l0, p, o0) \in Tracked
    BY <1>0, <1>m
  <2>p. PICK z : z = [e EXCEPT !.peek = p, !.managed = m]
    OBVIOUS
  <2>q. Fields(z, m0, c0, m, l0, p, o0)
    BY <2>4, <2>p, EntryFields
  <2>r. Fields(z, e.mode, e.corner, m, e.lock, p, e.origin)
    BY <1>0, <2>q
  <2> QED  BY <2>4, <2>5, <2>p, <2>r
<1>6. ASSUME NEW c \in AllSpots,
             NEW k \in Geom \cup {None}, NEW m \in AllSizes \cup {None}
      PROVE  /\ [e EXCEPT !.corner = c, !.lock = k, !.managed = m] \in Tracked
             /\ Fields([e EXCEPT !.corner = c, !.lock = k, !.managed = m],
                       e.mode, c, m, k, e.peek, e.origin)
  <2>1. PICK r1 : r1 = [e EXCEPT !.corner = c]
    OBVIOUS
  <2>2. r1 = E(m0, c, m1, l0, p0, o0)
    BY <1>0, <2>1 DEF E
  <2>3. PICK r2 : r2 = [r1 EXCEPT !.lock = k]
    OBVIOUS
  <2>4. r2 = E(m0, c, m1, k, p0, o0)
    BY <2>2, <2>3 DEF E
  <2>5. [r2 EXCEPT !.managed = m] = E(m0, c, m, k, p0, o0)
    BY <2>4 DEF E
  <2>6. [e EXCEPT !.corner = c, !.lock = k, !.managed = m] = E(m0, c, m, k, p0, o0)
    BY <2>1, <2>3, <2>5
  <2>7. E(m0, c, m, k, p0, o0) \in Tracked
    BY <1>0, <1>m
  <2>p. PICK z : z = [e EXCEPT !.corner = c, !.lock = k, !.managed = m]
    OBVIOUS
  <2>q. Fields(z, m0, c, m, k, p0, o0)
    BY <2>6, <2>p, EntryFields
  <2>r. Fields(z, e.mode, c, m, k, e.peek, e.origin)
    BY <1>0, <2>q
  <2> QED  BY <2>6, <2>7, <2>p, <2>r
<1>7. ASSUME e.mode \in {"pin", "overlay"},
             NEW c \in AllSpots, NEW m \in AllSizes \cup {None},
             NEW k \in Geom \cup {None}
      PROVE  /\ [e EXCEPT !.mode = "overlay", !.corner = c, !.managed = m, !.lock = k] \in Tracked
             /\ Fields([e EXCEPT !.mode = "overlay", !.corner = c, !.managed = m, !.lock = k],
                       "overlay", c, m, k, e.peek, e.origin)
  <2>1. PICK r1 : r1 = [e EXCEPT !.mode = "overlay"]
    OBVIOUS
  <2>2. r1 = E("overlay", c0, m1, l0, p0, o0)
    BY <1>0, <2>1 DEF E
  <2>3. PICK r2 : r2 = [r1 EXCEPT !.corner = c]
    OBVIOUS
  <2>4. r2 = E("overlay", c, m1, l0, p0, o0)
    BY <2>2, <2>3 DEF E
  <2>5. PICK r3 : r3 = [r2 EXCEPT !.managed = m]
    OBVIOUS
  <2>6. r3 = E("overlay", c, m, l0, p0, o0)
    BY <2>4, <2>5 DEF E
  <2>7. [r3 EXCEPT !.lock = k]
         = E("overlay", c, m, k, p0, o0)
    BY <2>6 DEF E
  <2>8. [e EXCEPT !.mode = "overlay", !.corner = c, !.managed = m, !.lock = k]
         = E("overlay", c, m, k, p0, o0)
    BY <2>1, <2>3, <2>5, <2>7
  <2>9. E("overlay", c, m, k, p0, o0) \in Tracked
    BY <1>0, <1>o, <1>7
  <2>p. PICK z : z = [e EXCEPT !.mode = "overlay", !.corner = c, !.managed = m, !.lock = k]
    OBVIOUS
  <2>q. Fields(z, "overlay", c, m, k, p0, o0)
    BY <2>8, <2>p, EntryFields
  <2>r. Fields(z, "overlay", c, m, k, e.peek, e.origin)
    BY <1>0, <2>q
  <2> QED  BY <2>8, <2>9, <2>p, <2>r
<1> QED  BY <1>1, <1>2, <1>3, <1>4, <1>5, <1>6, <1>7

-------------------------------------------------------------------------------
(* Types *)

Msg == [type : {"layout", "changed", "snapshot"}, layout : Layout]

\* TypeOK of what the engine does not keep, and of what it keeps.
OutOK ==
    /\ real \in Layout /\ queue \in Seq(Msg) /\ link \in {"off", "on"}
    /\ work \in Seq(Act) /\ loop \in Seq(Act)
    /\ requests \in Nat /\ user \in Nat /\ breaks \in Nat
EngineOK ==
    /\ seen \in Layout \cup {None} /\ t \in Tracked
    /\ ignored \in BOOLEAN /\ suppressed \in BOOLEAN
    /\ profile \in Geom \cup {None}
    /\ controls \in [corner : AllSpots, locked : BOOLEAN]
    /\ base \in Layout \cup {None}

LEMMA TypeParts == TypeOK <=> OutOK /\ EngineOK
  BY DEF TypeOK, OutOK, EngineOK, Msg

LEMMA TypePartsNext == TypeOK' <=> OutOK' /\ EngineOK'
  BY DEF TypeOK, OutOK, EngineOK, Msg

LEMMA BecomesTypes ==
    ASSUME OutOK, NEW l \in Layout, LayoutBecomes(l)
    PROVE  real' \in Layout /\ queue' \in Seq(Msg)
<1>1. ASSUME NEW d \in {"layout", "changed"} PROVE [type |-> d, layout |-> l] \in Msg
  BY DEF Msg
<1>2. (IF l.float = real.float THEN "layout" ELSE "changed") \in {"layout", "changed"}
  OBVIOUS
<1>3. [type |-> IF l.float = real.float THEN "layout" ELSE "changed", layout |-> l] \in Msg
  BY <1>1, <1>2
<1> QED  BY <1>3 DEF OutOK, LayoutBecomes

LEMMA RequestTypes ==
    ASSUME OutOK, NEW acts \in Seq(Act), Request(acts)
    PROVE  OutOK'
  BY DEF OutOK, Request

LEMMA ReceiveTypes ==
    ASSUME OutOK, NEW type, Receive(type)
    PROVE  /\ Head(queue) \in Msg /\ Head(queue).layout \in Layout
           /\ loop' \in Seq(Act) => OutOK'
<1>1. Head(queue) \in Msg /\ queue' \in Seq(Msg)
  BY DEF OutOK, Receive
<1>2. Head(queue).layout \in Layout
  BY <1>1 DEF Msg
<1> QED  BY <1>1, <1>2 DEF OutOK, Receive, bounds

LEMMA PinDoes ==
    ASSUME TypeOK, Pin
    PROVE  /\ TypeOK' /\ seen \in Layout
           /\ Fields(t', "pin", PipSpot, None, None, None, seen)
<1>1. seen \in Layout
  BY DEF TypeOK, Pin, Request
<1>2. t' = E("pin", PipSpot, None, None, None, seen)
  BY NewEntries, Zenon DEF Pin
<1>3. t' \in Tracked
  BY <1>1, <1>2, EntryMade, ConstantTypes
<1>4. Fields(t', "pin", PipSpot, None, None, None, seen)
  BY <1>2, EntryFields
<1>5. OutOK'
  BY RequestTypes, TypeParts, ActTypes DEF Pin
<1>6. EngineOK'
  BY <1>3, TypeParts DEF Pin, EngineOK
<1> QED  BY <1>1, <1>4, <1>5, <1>6, TypePartsNext

\* The cached layout with another size.
LEMMA SeenSized ==
    ASSUME NEW l \in Layout, NEW s \in AllSizes
    PROVE  /\ [l EXCEPT !.size = s] \in Layout
           /\ [l EXCEPT !.size = s] = [float |-> l.float, size |-> s, pos |-> l.pos]
           /\ [l EXCEPT !.size = s].float = l.float /\ [l EXCEPT !.size = s].size = s
           /\ [l EXCEPT !.size = s].pos = l.pos
<1>1. [l EXCEPT !.size = s] = [float |-> l.float, size |-> s, pos |-> l.pos]
  BY LayoutTypes, LayoutExcept, Zenon
<1>2. [float |-> l.float, size |-> s, pos |-> l.pos] \in Layout
  BY LayoutTypes, LayoutMade
<1> QED  BY <1>1, <1>2

LEMMA GeomMade ==
    \A s \in AllSizes, p \in AllSpots :
       /\ [size |-> s, pos |-> p] \in Geom
       /\ [size |-> s, pos |-> p].size = s /\ [size |-> s, pos |-> p].pos = p
  BY DEF Geom

LEMMA OverlayDoes ==
    ASSUME TypeOK, Overlay
    PROVE  /\ TypeOK' /\ seen \in Layout
           /\ t'.mode = "overlay" /\ t'.corner = OverlaySpot /\ t'.managed = OverlaySize
           /\ t'.peek = None /\ t'.origin = (IF t.mode = "none" THEN seen ELSE t.origin)
           /\ t'.lock = (IF Locked THEN [size |-> OverlaySize, pos |-> OverlaySpot] ELSE None)
           /\ seen' = [seen EXCEPT !.size = OverlaySize]
<1>1. seen \in Layout /\ t.peek = None
  BY DEF TypeOK, Overlay, Request, Peeking
<1>2. PICK g : g = [size |-> OverlaySize, pos |-> OverlaySpot] /\ g \in Geom
  BY GeomMade, ConstantTypes
<1>3. PICK k \in Geom \cup {None} : k = IF Locked THEN g ELSE None
  BY <1>2
<1>4. /\ t' \in Tracked /\ t'.mode = "overlay" /\ t'.corner = OverlaySpot
      /\ t'.managed = OverlaySize /\ t'.peek = None
      /\ t'.origin = (IF t.mode = "none" THEN seen ELSE t.origin)
      /\ t'.lock = k
  <2>1. CASE t.mode = "none"
    <3>1. t' = E("overlay", OverlaySpot, OverlaySize, None, None, seen)
      BY <2>1, NewEntries DEF Overlay
    <3>2. t' \in Tracked
      BY <1>1, <3>1, EntryMade, ConstantTypes
    <3>3. t.lock = None
      BY <2>1, EntryTypes, UntrackedFields DEF TypeOK, Fields
    <3> QED  BY <1>3, <2>1, <3>1, <3>2, <3>3, EntryFields DEF Fields, Locked
  <2>2. CASE t.mode # "none"
    <3>1. t.mode \in {"pin", "overlay"} /\ t \in Tracked
      BY <2>2, EntryTypes DEF TypeOK, Overlay, IsAuto
    <3>2. t' = [t EXCEPT !.mode = "overlay", !.corner = OverlaySpot, !.managed = OverlaySize,
                         !.lock = k]
      BY <1>2, <1>3, <2>2 DEF Overlay
    <3>3. /\ t' \in Tracked
          /\ Fields(t', "overlay", OverlaySpot, OverlaySize, k, t.peek, t.origin)
      BY <3>1, <3>2, TrackedExcept, ConstantTypes
    <3> QED  BY <1>1, <2>2, <3>3 DEF Fields
  <2> QED  BY <2>1, <2>2
<1>5. seen' = [seen EXCEPT !.size = OverlaySize] /\ seen' \in Layout
  BY <1>1, SeenSized, ConstantTypes DEF Overlay
<1>6. FloatIf(seen) \o <<Size(OverlaySize), Place(OverlaySpot)>> \in Seq(Act)
  <2>1. Size(OverlaySize) \in Act /\ Place(OverlaySpot) \in Act /\ FloatIf(seen) \in Seq(Act)
    BY ActTypes, ConstantTypes
  <2> QED  BY <2>1
<1>7. OutOK'
  BY <1>6, RequestTypes, TypeParts DEF Overlay
<1>8. EngineOK'
  BY <1>4, <1>5, TypeParts DEF Overlay, EngineOK
<1> QED  BY <1>1, <1>2, <1>3, <1>4, <1>5, <1>7, <1>8, TypePartsNext

LEMMA UnpinDoes ==
    ASSUME TypeOK, Unpin
    PROVE  /\ TypeOK' /\ seen \in Layout /\ t' = Untracked /\ t \in Tracked
<1>1. seen \in Layout /\ t \in Tracked
  BY DEF TypeOK, Unpin, Request
<1>2. UnpinActs \in Seq(Act)
  <2>1. CASE IsAuto /\ Peeking
    <3>1. t.peek.geom \in Geom
      BY <1>1, <2>1, EntryTypes DEF Peeking, Peek
    <3> QED  BY <2>1, <3>1, ActTypes DEF UnpinActs
  <2>2. CASE ~IsAuto /\ RestoreLayout
    <3>1. t.origin \in Layout
      BY <1>1, <2>2, EntryTypes DEF Unpin, IsAuto
    <3>2. GeomOf(t.origin) # None => Show(GeomOf(t.origin)) \in Seq(Act)
      <4>1. GeomOf(t.origin) # None => GeomOf(t.origin) \in Geom
        BY <3>1, GeomTypes, LayoutTypes
      <4> QED  BY <4>1, ActTypes
    <3>3. FloatIf(seen) \in Seq(Act)
      BY ActTypes
    <3>4. <<Tile, Size(t.origin.size)>> \in Seq(Act)
      <4>1. Tile \in Act /\ Size(t.origin.size) \in Act
        BY <3>1, LayoutTypes, ActTypes
      <4> QED  BY <4>1
    <3> QED  BY <2>2, <3>2, <3>3, <3>4 DEF UnpinActs
  <2>3. CASE (IsAuto /\ ~Peeking) \/ (~IsAuto /\ ~RestoreLayout)
    BY <2>3 DEF UnpinActs
  <2> QED  BY <2>1, <2>2, <2>3
<1>3. OutOK'
  BY <1>2, RequestTypes, TypeParts DEF Unpin
<1>4. EngineOK'
  <2>1. ~IsAuto => t.origin \in Layout
    BY <1>1, EntryTypes DEF Unpin, IsAuto
  <2> QED  BY <2>1, TypeParts, UntrackedFields DEF Unpin, EngineOK
<1> QED  BY <1>1, <1>3, <1>4, TypePartsNext DEF Unpin

LEMMA PeekOnDoes ==
    ASSUME TypeOK, PeekOn
    PROVE  /\ TypeOK' /\ seen \in Layout /\ t.peek = None
           /\ t'.mode = t.mode /\ t'.corner = t.corner /\ t'.managed = PeekSize
           /\ t'.lock = t.lock /\ t'.origin = t.origin /\ t'.peek # None
           /\ t'.peek.geom = GeomOr(seen, t.corner) /\ t'.peek.managed = t.managed
           /\ seen' = [seen EXCEPT !.size = PeekSize]
<1>1. seen \in Layout /\ t \in Tracked /\ t.mode # "none" /\ t.peek = None
  BY DEF TypeOK, PeekOn, Request, Peeking
<1>2. PeekBase \in Geom /\ t.managed \in AllSizes \cup {None}
  BY <1>1, EntryTypes, GeomTypes DEF PeekBase
<1>3. PICK p : p = [geom |-> PeekBase, managed |-> t.managed]
  OBVIOUS
<1>4. p \in Peek /\ p.geom = PeekBase /\ p.managed = t.managed /\ p # None
  <2>1. p \in Peek /\ p.geom = PeekBase /\ p.managed = t.managed
    BY <1>2, <1>3 DEF Peek
  <2>2. p # None
    BY <2>1, ConstantTypes
  <2> QED  BY <2>1, <2>2
<1>5. t' = [t EXCEPT !.peek = p, !.managed = PeekSize]
  BY <1>3 DEF PeekOn
<1>6. t' \in Tracked /\ Fields(t', t.mode, t.corner, PeekSize, t.lock, p, t.origin)
  BY <1>1, <1>4, <1>5, TrackedExcept, ConstantTypes
<1>7. seen' = [seen EXCEPT !.size = PeekSize] /\ seen' \in Layout
  BY <1>1, SeenSized, ConstantTypes DEF PeekOn
<1>8. OutOK'
  <2>1. Size(PeekSize) \in Act /\ Place(PeekSpot) \in Act
    BY ActTypes, ConstantTypes
  <2>2. <<Size(PeekSize), Place(PeekSpot)>> \in Seq(Act)
    BY <2>1
  <2> QED  BY <2>2, RequestTypes, TypeParts DEF PeekOn
<1>9. EngineOK'
  BY <1>6, <1>7, TypeParts DEF PeekOn, EngineOK, OutOK
<1> QED  BY <1>1, <1>4, <1>6, <1>7, <1>8, <1>9, TypePartsNext DEF Fields, PeekBase

LEMMA PeekOffDoes ==
    ASSUME TypeOK, PeekOff
    PROVE  /\ TypeOK' /\ seen \in Layout /\ t.mode # "none"
           /\ t.peek \in Peek /\ t.peek.geom \in Geom
           /\ t'.mode = t.mode /\ t'.corner = t.corner /\ t'.managed = t.peek.managed
           /\ t'.lock = t.lock /\ t'.origin = t.origin /\ t'.peek = None
           /\ seen' = [seen EXCEPT !.size = t.peek.geom.size]
<1>1. seen \in Layout /\ t \in Tracked /\ t.peek # None
  BY DEF TypeOK, PeekOff, Request, Peeking
<1>2. t.mode # "none"
  BY <1>1, EntryTypes, UntrackedFields DEF Fields
<1>3. /\ t.peek \in Peek /\ t.peek.geom \in Geom /\ t.peek.managed \in AllSizes \cup {None}
      /\ t.peek.geom.size \in AllSizes
  BY <1>1, EntryTypes DEF Peek, Geom
<1>4. PICK m : m = t.peek.managed
  OBVIOUS
<1>5. t' = [t EXCEPT !.peek = None, !.managed = m]
  BY <1>4 DEF PeekOff
<1>6. t' \in Tracked /\ Fields(t', t.mode, t.corner, m, t.lock, None, t.origin)
  BY <1>1, <1>2, <1>3, <1>4, <1>5, TrackedExcept
<1>7. seen' = [seen EXCEPT !.size = t.peek.geom.size] /\ seen' \in Layout
  BY <1>1, <1>3, SeenSized DEF PeekOff
<1>8. OutOK'
  BY <1>3, ActTypes, RequestTypes, TypeParts DEF PeekOff
<1>9. EngineOK'
  BY <1>6, <1>7, TypeParts DEF PeekOff, EngineOK
<1> QED  BY <1>1, <1>2, <1>3, <1>4, <1>6, <1>7, <1>8, <1>9, TypePartsNext DEF Fields

\* A geometry with another size.
LEMMA GeomSized ==
    ASSUME NEW g \in Geom, NEW s \in AllSizes
    PROVE  /\ [g EXCEPT !.size = s] \in Geom
           /\ [g EXCEPT !.size = s].size = s /\ [g EXCEPT !.size = s].pos = g.pos
  BY DEF Geom

LEMMA ResizeDoes ==
    ASSUME TypeOK, NEW s \in Sizes, Resize(s)
    PROVE  /\ TypeOK' /\ seen \in Layout /\ t.mode # "none" /\ t.peek = None
           /\ t'.mode = t.mode /\ t'.corner = t.corner /\ t'.managed = s
           /\ t'.peek = None /\ t'.origin = t.origin
           /\ t.lock = None => t'.lock = None
           /\ t.lock # None => /\ t.lock \in Geom /\ t'.lock \in Geom
                               /\ t'.lock.size = s /\ t'.lock.pos = t.lock.pos
           /\ ~IsAuto => profile' = profile
           /\ IsAuto => /\ profile' \in Geom /\ profile'.size = s
                        /\ profile # None => profile'.pos = profile.pos
                        /\ profile = None => profile'.pos = GeomOr(seen, t.corner).pos
           /\ seen' = [seen EXCEPT !.size = s]
<1>1. /\ seen \in Layout /\ t \in Tracked /\ t.mode # "none" /\ t.peek = None
      /\ s \in AllSizes /\ profile \in Geom \cup {None}
  BY ConstantTypes DEF TypeOK, Resize, Governed, Request, Peeking
<1>2. t.lock \in Geom \cup {None} /\ t.corner \in AllSpots
  BY <1>1, EntryTypes
<1>3. PICK k \in Geom \cup {None} :
         /\ k = LockSized(s)
         /\ t.lock = None => k = None
         /\ t.lock # None => k \in Geom /\ k.size = s /\ k.pos = t.lock.pos
  <2>1. CASE t.lock = None
    BY <2>1 DEF LockSized, Locked
  <2>2. CASE t.lock # None
    <3>1. t.lock \in Geom /\ LockSized(s) = [t.lock EXCEPT !.size = s]
      BY <1>2, <2>2 DEF LockSized, Locked
    <3>2. PICK k \in Geom : k = [t.lock EXCEPT !.size = s] /\ k.size = s /\ k.pos = t.lock.pos
      BY <1>1, <3>1, GeomSized
    <3> QED  BY <2>2, <3>1, <3>2
  <2> QED  BY <2>1, <2>2
<1>4. t' = [t EXCEPT !.managed = s, !.lock = k]
  BY <1>3 DEF Resize
<1>5. t' \in Tracked /\ Fields(t', t.mode, t.corner, s, k, t.peek, t.origin)
  BY <1>1, <1>3, <1>4, TrackedExcept
<1>6. GeomOr(seen, t.corner) \in Geom /\ GeomOr(seen, t.corner).pos \in AllSpots
  <2>1. GeomOr(seen, t.corner) \in Geom
    BY <1>1, <1>2, GeomTypes
  <2> QED  BY <2>1 DEF Geom
<1>7. /\ ~IsAuto => profile' = profile
      /\ IsAuto => /\ profile' \in Geom /\ profile'.size = s
                   /\ profile # None => profile'.pos = profile.pos
                   /\ profile = None => profile'.pos = GeomOr(seen, t.corner).pos
  <2>1. CASE ~IsAuto
    BY <2>1 DEF Resize, SizedProfile
  <2>2. CASE IsAuto /\ profile # None
    <3>1. profile.pos \in AllSpots
      BY <1>1, <2>2 DEF Geom
    <3>2. profile' = [size |-> s, pos |-> profile.pos]
      BY <2>2 DEF Resize, SizedProfile
    <3> QED  BY <1>1, <2>2, <3>1, <3>2, GeomMade
  <2>3. CASE IsAuto /\ profile = None
    <3>1. profile' = [size |-> s, pos |-> GeomOr(seen, t.corner).pos]
      BY <2>3 DEF Resize, SizedProfile
    <3> QED  BY <1>1, <1>6, <2>3, <3>1, GeomMade
  <2> QED  BY <2>1, <2>2, <2>3
<1>8. seen' = [seen EXCEPT !.size = s] /\ seen' \in Layout
  BY <1>1, SeenSized DEF Resize
<1>9. OutOK'
  <2>1. <<Size(s)>> \in Seq(Act)
    BY <1>1, ActTypes
  <2> QED  BY <2>1, RequestTypes, TypeParts DEF Resize
<1>10. EngineOK'
  BY <1>1, <1>5, <1>7, <1>8, TypeParts DEF Resize, EngineOK
<1> QED  BY <1>1, <1>2, <1>3, <1>5, <1>7, <1>8, <1>9, <1>10, TypePartsNext DEF Fields

LEMMA ControlsMade ==
    ASSUME NEW c \in [corner : AllSpots, locked : BOOLEAN]
    PROVE  /\ c.corner \in AllSpots /\ c.locked \in BOOLEAN
           /\ \A p \in AllSpots : /\ [c EXCEPT !.corner = p]
                                       \in [corner : AllSpots, locked : BOOLEAN]
                                  /\ [c EXCEPT !.corner = p].corner = p
           /\ \A b \in BOOLEAN : /\ [c EXCEPT !.locked = b]
                                       \in [corner : AllSpots, locked : BOOLEAN]
                                 /\ [c EXCEPT !.locked = b].corner = c.corner
           /\ DefaultControls \in [corner : AllSpots, locked : BOOLEAN]
           /\ DefaultControls.corner = PipSpot
  BY ConstantTypes DEF DefaultControls

LEMMA SetPositionDoes ==
    ASSUME TypeOK, NEW p \in Spots, SetPosition(p)
    PROVE  /\ TypeOK' /\ seen \in Layout /\ t.mode # "none" /\ t.peek = None
           /\ t'.mode = t.mode /\ t'.corner = p /\ t'.managed = t.managed
           /\ t'.peek = None /\ t'.origin = t.origin
           /\ t.lock = None => t'.lock = None
           /\ t.lock # None => t'.lock \in Geom /\ t'.lock.size = seen.size /\ t'.lock.pos = p
           /\ ~IsAuto => profile' = profile /\ controls' = controls
           /\ IsAuto => /\ profile' \in Geom /\ profile'.size = seen.size /\ profile'.pos = p
                        /\ controls'.corner = p
<1>1. /\ seen \in Layout /\ t \in Tracked /\ t.mode # "none" /\ t.peek = None
      /\ p \in AllSpots /\ controls \in [corner : AllSpots, locked : BOOLEAN]
  BY ConstantTypes DEF TypeOK, SetPosition, Governed, Request, Peeking
<1>a. PICK s \in AllSizes : s = seen.size
  BY <1>1, LayoutTypes
<1>b. PICK g : g = [size |-> s, pos |-> p]
  OBVIOUS
<1>2. g \in Geom /\ g = [size |-> seen.size, pos |-> p] /\ g.size = seen.size /\ g.pos = p
  BY <1>1, <1>a, <1>b, GeomMade
<1>3. PICK k \in Geom \cup {None} : k = IF Locked THEN g ELSE None
  BY <1>2
<1>4. t' = [t EXCEPT !.corner = p, !.lock = k]
  BY <1>2, <1>3 DEF SetPosition
<1>5. t' \in Tracked /\ Fields(t', t.mode, p, t.managed, k, t.peek, t.origin)
  BY <1>1, <1>3, <1>4, TrackedExcept
<1>6. profile' = (IF IsAuto THEN g ELSE profile)
  BY <1>2 DEF SetPosition
<1>7. /\ ~IsAuto => controls' = controls
      /\ IsAuto => controls'.corner = p
      /\ controls' \in [corner : AllSpots, locked : BOOLEAN]
  BY <1>1, ControlsMade DEF SetPosition
<1>8. OutOK'
  <2>1. <<Place(p)>> \in Seq(Act)
    BY <1>1, ActTypes
  <2> QED  BY <2>1, RequestTypes, TypeParts DEF SetPosition
<1>9. EngineOK'
  BY <1>2, <1>5, <1>6, <1>7, TypeParts DEF SetPosition, EngineOK
<1> QED  BY <1>1, <1>2, <1>3, <1>5, <1>6, <1>7, <1>8, <1>9, TypePartsNext, ConstantTypes
             DEF Fields, Locked

LEMMA NudgeDoes ==
    ASSUME TypeOK, Nudge
    PROVE  /\ TypeOK' /\ seen \in Layout /\ t.mode # "none" /\ t.peek = None
           /\ t'.mode = t.mode /\ t'.corner = t.corner /\ t'.managed = t.managed
           /\ t'.peek = None /\ t'.origin = t.origin
           /\ t.lock = None \/ ~seen.float => t'.lock = t.lock
           /\ t.lock # None /\ seen.float =>
                t'.lock \in Geom /\ t'.lock.size = seen.size /\ t'.lock.pos = Shifted[seen.pos]
           /\ ~IsAuto \/ ~seen.float => profile' = profile
           /\ IsAuto /\ seen.float =>
                profile' \in Geom /\ profile'.size = seen.size /\ profile'.pos = Shifted[seen.pos]
<1>1. /\ seen \in Layout /\ t \in Tracked /\ t.mode # "none" /\ t.peek = None
      /\ t.lock \in Geom \cup {None} /\ profile \in Geom \cup {None}
  BY EntryTypes DEF TypeOK, Nudge, Governed, Request, Peeking
<1>2. PICK g \in Geom \cup {None} :
         /\ g = IF seen.pos = None THEN None ELSE [size |-> seen.size, pos |-> Shifted[seen.pos]]
         /\ ~seen.float => g = None
         /\ seen.float => g \in Geom /\ g.size = seen.size /\ g.pos = Shifted[seen.pos]
  <2>1. CASE seen.float
    <3>1. seen.size \in AllSizes /\ Shifted[seen.pos] \in AllSpots /\ seen.pos # None
      BY <1>1, <2>1, LayoutTypes, ConstantTypes
    <3>2. [size |-> seen.size, pos |-> Shifted[seen.pos]] \in Geom
      BY <3>1, GeomMade
    <3> QED  BY <2>1, <3>1, <3>2
  <2>2. CASE ~seen.float
    <3>1. seen.pos = None
      BY <1>1, <2>2, LayoutTypes
    <3> QED  BY <2>2, <3>1
  <2> QED  BY <2>1, <2>2, <1>1, LayoutTypes
<1>3. PICK k \in Geom \cup {None} : k = IF Locked /\ g # None THEN g ELSE t.lock
  BY <1>1
<1>4. t' = [t EXCEPT !.lock = k]
  BY <1>2, <1>3 DEF Nudge
<1>5. t' \in Tracked /\ Fields(t', t.mode, t.corner, t.managed, k, t.peek, t.origin)
  BY <1>1, <1>3, <1>4, TrackedExcept
<1>6. profile' = (IF IsAuto /\ g # None THEN g ELSE profile)
  BY <1>2 DEF Nudge
<1>7. OutOK'
  <2>1. <<Shift>> \in Seq(Act)
    BY ActTypes
  <2> QED  BY <2>1, RequestTypes, TypeParts DEF Nudge
<1>8. EngineOK'
  BY <1>1, <1>2, <1>5, <1>6, TypeParts DEF Nudge, EngineOK
<1> QED  BY <1>1, <1>2, <1>3, <1>5, <1>6, <1>7, <1>8, TypePartsNext, ConstantTypes
             DEF Fields, Locked

LEMMA LockDoes ==
    ASSUME TypeOK, Lock
    PROVE  /\ TypeOK' /\ seen \in Layout /\ t.mode # "none" /\ t.peek = None
           /\ t'.mode = t.mode /\ t'.corner = t.corner /\ t'.managed = t.managed
           /\ t'.peek = None /\ t'.origin = t.origin /\ t'.lock = GeomOr(seen, t.corner)
           /\ profile' = (IF IsAuto THEN GeomOr(seen, t.corner) ELSE profile)
           /\ controls'.corner = controls.corner
<1>1. /\ seen \in Layout /\ t \in Tracked /\ t.mode # "none" /\ t.peek = None
      /\ controls \in [corner : AllSpots, locked : BOOLEAN] /\ t.corner \in AllSpots
  BY EntryTypes DEF TypeOK, Lock, Governed, Request, Peeking
<1>2. PICK g \in Geom : g = GeomOr(seen, t.corner)
  BY <1>1, GeomTypes
<1>3. t' = [t EXCEPT !.lock = g]
  BY <1>2 DEF Lock
<1>4. t' \in Tracked /\ Fields(t', t.mode, t.corner, t.managed, g, t.peek, t.origin)
  BY <1>1, <1>3, TrackedExcept
<1>5. profile' = (IF IsAuto THEN g ELSE profile)
  BY <1>2 DEF Lock
<1>6. controls'.corner = controls.corner /\ controls' \in [corner : AllSpots, locked : BOOLEAN]
  BY <1>1, ControlsMade DEF Lock
<1>7. OutOK'
  <2>1. <<>> \in Seq(Act)
    OBVIOUS
  <2> QED  BY <2>1, RequestTypes, TypeParts DEF Lock
<1>8. EngineOK'
  BY <1>2, <1>4, <1>5, <1>6, TypeParts DEF Lock, EngineOK
<1> QED  BY <1>1, <1>2, <1>4, <1>5, <1>6, <1>7, <1>8, TypePartsNext DEF Fields

LEMMA UnlockDoes ==
    ASSUME TypeOK, Unlock
    PROVE  /\ TypeOK' /\ seen \in Layout /\ t.mode # "none" /\ t.peek = None
           /\ t'.mode = t.mode /\ t'.corner = t.corner /\ t'.managed = t.managed
           /\ t'.peek = None /\ t'.origin = t.origin /\ t'.lock = None
           /\ controls'.corner = controls.corner
<1>1. /\ seen \in Layout /\ t \in Tracked /\ t.mode # "none" /\ t.peek = None
      /\ controls \in [corner : AllSpots, locked : BOOLEAN]
  BY DEF TypeOK, Unlock, Governed, Request, Peeking
<1>2. t' = [t EXCEPT !.lock = None]
  BY DEF Unlock
<1>3. t' \in Tracked /\ Fields(t', t.mode, t.corner, t.managed, None, t.peek, t.origin)
  BY <1>1, <1>2, TrackedExcept
<1>4. controls'.corner = controls.corner /\ controls' \in [corner : AllSpots, locked : BOOLEAN]
  BY <1>1, ControlsMade DEF Unlock
<1>5. OutOK'
  <2>1. <<>> \in Seq(Act)
    OBVIOUS
  <2> QED  BY <2>1, RequestTypes, TypeParts DEF Unlock
<1>6. EngineOK'
  BY <1>3, <1>4, TypeParts DEF Unlock, EngineOK
<1> QED  BY <1>1, <1>3, <1>4, <1>5, <1>6, TypePartsNext DEF Fields

LEMMA ResetGeometryDoes ==
    ASSUME TypeOK, ResetGeometry
    PROVE  /\ TypeOK' /\ seen \in Layout /\ t.mode # "none" /\ t.peek = None
           /\ t'.mode = t.mode /\ t'.corner = PipSpot
           /\ t'.managed = (IF IsAuto THEN PipSize ELSE t.managed)
           /\ t'.peek = None /\ t'.origin = t.origin /\ t'.lock = None
           /\ IF IsAuto
              THEN /\ seen' = [seen EXCEPT !.size = PipSize]
                   /\ profile' \in Geom /\ profile'.size = PipSize /\ profile'.pos = PipSpot
                   /\ controls'.corner = PipSpot /\ suppressed'
              ELSE UNCHANGED <<seen, profile, controls, suppressed, base>>
<1>1. /\ seen \in Layout /\ t \in Tracked /\ t.mode # "none" /\ t.peek = None
      /\ controls \in [corner : AllSpots, locked : BOOLEAN]
      /\ t.managed \in AllSizes \cup {None}
  BY EntryTypes DEF TypeOK, ResetGeometry, Governed, Request, Peeking
<1>2. PICK m \in AllSizes \cup {None} : m = IF IsAuto THEN PipSize ELSE t.managed
  BY <1>1, ConstantTypes
<1>3. t' = [t EXCEPT !.corner = PipSpot, !.lock = None, !.managed = m]
  BY <1>2 DEF ResetGeometry
<1>4. t' \in Tracked /\ Fields(t', t.mode, PipSpot, m, None, t.peek, t.origin)
  BY <1>1, <1>3, TrackedExcept, ConstantTypes
<1>5. [seen EXCEPT !.size = PipSize] \in Layout
  BY <1>1, SeenSized, ConstantTypes
<1>6. [size |-> PipSize, pos |-> PipSpot] \in Geom
  BY GeomMade, ConstantTypes
<1>7. OutOK'
  <2>1. <<Size(PipSize), Place(PipSpot)>> \in Seq(Act)
    BY ActTypes, ConstantTypes
  <2>2. (IF IsAuto THEN <<Size(PipSize), Place(PipSpot)>> ELSE <<>>) \in Seq(Act)
    BY <2>1
  <2> QED  BY <2>2, RequestTypes, TypeParts DEF ResetGeometry
<1>8. EngineOK'
  <2>1. seen' \in Layout /\ profile' \in Geom \cup {None} /\ suppressed' \in BOOLEAN
        /\ base' \in Layout \cup {None}
    BY <1>1, <1>5, <1>6, TypeParts DEF ResetGeometry, EngineOK
  <2>2. controls' \in [corner : AllSpots, locked : BOOLEAN]
    BY <1>1, ControlsMade DEF ResetGeometry
  <2> QED  BY <1>4, <2>1, <2>2, TypeParts DEF ResetGeometry, EngineOK
<1> QED  BY <1>1, <1>2, <1>4, <1>6, <1>7, <1>8, ControlsMade, GeomMade, ConstantTypes, TypePartsNext
            DEF Fields, ResetGeometry

LEMMA ResetLearnedDoes ==
    ASSUME TypeOK, ResetLearned
    PROVE  TypeOK' /\ seen \in Layout /\ controls'.corner = PipSpot
<1>1. OutOK'
  <2>1. <<>> \in Seq(Act)
    OBVIOUS
  <2> QED  BY <2>1, RequestTypes, TypeParts DEF ResetLearned
<1>2. EngineOK'
  BY TypeParts, ControlsMade DEF ResetLearned, EngineOK
<1> QED  BY <1>1, <1>2, ControlsMade, TypePartsNext DEF ResetLearned, TypeOK, Request

LEMMA DesiredTypes ==
    ASSUME TypeOK, t.mode # "none"
    PROVE  DesiredSize \in AllSizes /\ DesiredSpot \in AllSpots
<1>1. t \in Tracked /\ profile \in Geom \cup {None}
  BY DEF TypeOK
<1>2. /\ t.corner \in AllSpots /\ t.managed \in AllSizes \cup {None}
      /\ t.lock \in Geom \cup {None}
  BY <1>1, EntryTypes
<1>3. t.lock # None => t.lock.pos \in AllSpots
  BY <1>2 DEF Geom
<1>4. profile # None => profile.pos \in AllSpots
  BY <1>1 DEF Geom
<1> QED  BY <1>2, <1>3, <1>4, ConstantTypes DEF DesiredSize, DesiredSpot, Locked

\* The actions that bring a floating window back to its lock.
LEMMA DeviationIs ==
    ASSUME NEW g \in Geom, NEW l \in Layout
    PROVE  /\ l.size = g.size /\ l.pos \in {None, g.pos} => Deviation(g, l) = <<>>
           /\ l.size # g.size /\ l.pos \in {None, g.pos} => Deviation(g, l) = <<Size(g.size)>>
           /\ l.size = g.size /\ l.pos \notin {None, g.pos} =>
                Deviation(g, l) = <<Place(g.pos)>>
           /\ l.size # g.size /\ l.pos \notin {None, g.pos} =>
                Deviation(g, l) = <<Size(g.size), Place(g.pos)>>
           /\ Deviation(g, l) \in Seq(Act)
<1>1. Size(g.size) \in Act /\ Place(g.pos) \in Act
  BY ActTypes DEF Geom
<1>2. PICK a \in Act, b \in Act : a = Size(g.size) /\ b = Place(g.pos)
  BY <1>1
<1>3. /\ <<a>> \in Seq(Act) /\ <<b>> \in Seq(Act) /\ <<>> \in Seq(Act)
      /\ <<a, b>> \in Seq(Act)
      /\ <<>> \o <<>> = <<>> /\ <<a>> \o <<>> = <<a>> /\ <<>> \o <<b>> = <<b>>
      /\ <<a>> \o <<b>> = <<a, b>>
  BY Concats
<1>4. Deviation(g, l) = (IF l.size = g.size THEN <<>> ELSE <<a>>)
                          \o IF l.pos \in {None, g.pos} THEN <<>> ELSE <<b>>
  BY <1>2 DEF Deviation, SizeOnly
<1>5. CASE l.size = g.size /\ l.pos \in {None, g.pos}
  BY <1>2, <1>3, <1>4, <1>5
<1>6. CASE l.size = g.size /\ l.pos \notin {None, g.pos}
  BY <1>2, <1>3, <1>4, <1>6
<1>7. CASE l.size # g.size /\ l.pos \in {None, g.pos}
  BY <1>2, <1>3, <1>4, <1>7
<1>8. CASE l.size # g.size /\ l.pos \notin {None, g.pos}
  BY <1>2, <1>3, <1>4, <1>8
<1> QED  BY <1>5, <1>6, <1>7, <1>8

LEMMA HandleLayoutDoes ==
    ASSUME TypeOK, HandleLayout
    PROVE  /\ TypeOK' /\ seen' = Head(queue).layout /\ seen' \in Layout /\ t \in Tracked
           /\ t'.mode = t.mode /\ t'.corner = t.corner
           /\ t'.peek = t.peek /\ t'.origin = t.origin /\ t'.lock = t.lock
           /\ \/ /\ Counts /\ Locked /\ UNCHANGED <<t, profile>> /\ t.lock \in Geom
                 /\ loop' = Deviation(t.lock, seen') /\ suppressed' = (loop' # <<>>)
              \/ /\ Counts /\ ~Locked /\ IsAuto /\ seen'.float /\ UNCHANGED <<loop, suppressed>>
                 /\ profile' \in Geom /\ profile'.size = seen'.size /\ profile'.pos = seen'.pos
                 /\ t'.managed = seen'.size
              \/ /\ Counts => ~Locked /\ (IsAuto => ~seen'.float)
                 /\ UNCHANGED <<t, profile, loop, suppressed>>
<1>1. t \in Tracked /\ profile \in Geom \cup {None} /\ OutOK /\ EngineOK /\ loop \in Seq(Act)
  BY TypeParts DEF TypeOK
<1>2. /\ seen' = Head(queue).layout /\ seen' \in Layout
      /\ loop' \in Seq(Act) => OutOK'
  BY <1>1, ReceiveTypes DEF HandleLayout
<1>3. UNCHANGED <<ignored, controls, base>>
  BY DEF HandleLayout
<1>4. seen'.size \in AllSizes /\ (seen'.float <=> GeomOf(seen') # None)
  BY <1>2, LayoutTypes, GeomTypes, ConstantTypes
<1>5. CASE Counts /\ Locked
  <2>1. /\ UNCHANGED <<t, profile>> /\ loop' = Deviation(t.lock, seen')
        /\ suppressed' = (loop' # <<>>)
    BY <1>5, <1>2 DEF HandleLayout
  <2>2. t.lock \in Geom
    BY <1>1, <1>5, EntryTypes DEF Locked
  <2>3. loop' \in Seq(Act)
    BY <1>2, <2>1, <2>2, DeviationIs
  <2>4. EngineOK'
    BY <1>1, <1>2, <1>3, <2>1 DEF EngineOK
  <2> QED  BY <1>1, <1>2, <1>5, <2>1, <2>2, <2>3, <2>4, TypePartsNext
<1>6. CASE Counts /\ ~Locked /\ IsAuto /\ GeomOf(seen') # None
  <2>1. /\ profile' = GeomOf(seen') /\ t' = [t EXCEPT !.managed = seen'.size]
        /\ UNCHANGED <<loop, suppressed>>
    BY <1>2, <1>6 DEF HandleLayout, Learned
  <2>2. profile' \in Geom /\ profile'.size = seen'.size /\ profile'.pos = seen'.pos
    BY <1>2, <1>4, <1>6, <2>1, GeomTypes
  <2>3. t.mode # "none"
    BY <1>6 DEF Counts
  <2>4. PICK m \in AllSizes \cup {None} : m = seen'.size
    BY <1>4
  <2>5. t' \in Tracked /\ Fields(t', t.mode, t.corner, m, t.lock, t.peek, t.origin)
    BY <1>1, <2>1, <2>3, <2>4, TrackedExcept
  <2>6. EngineOK'
    BY <1>1, <1>2, <1>3, <2>1, <2>2, <2>5 DEF EngineOK
  <2>7. OutOK'
    BY <1>1, <1>2, <2>1
  <2> QED  BY <1>1, <1>2, <1>4, <1>6, <2>1, <2>2, <2>4, <2>5, <2>6, <2>7, TypePartsNext DEF Fields
<1>7. CASE ~(Counts /\ Locked) /\ ~(Counts /\ IsAuto /\ GeomOf(seen') # None)
  <2>1. UNCHANGED <<t, profile, loop, suppressed>>
    BY <1>2, <1>7 DEF HandleLayout
  <2>2. EngineOK'
    BY <1>1, <1>2, <1>3, <2>1 DEF EngineOK
  <2>3. OutOK'
    BY <1>1, <1>2, <2>1
  <2> QED  BY <1>1, <1>2, <1>4, <1>7, <2>1, <2>2, <2>3, TypePartsNext
<1> QED  BY <1>5, <1>6, <1>7

LEMMA RefloatDoes ==
    ASSUME TypeOK, t.mode # "none", NEW l \in Layout, Refloat(l)
    PROVE  /\ loop' \in Seq(Act) /\ suppressed' \in BOOLEAN
           /\ l.float => UNCHANGED <<loop, suppressed>>
           /\ ~l.float =>
                /\ suppressed'
                /\ t.mode = "pin" /\ ~Peeking => loop' = <<Float>>
                /\ ~(t.mode = "pin" /\ ~Peeking) =>
                     loop' = <<Float, Size(DesiredSize), Place(DesiredSpot)>>
<1>1. Float \in Act /\ Size(DesiredSize) \in Act /\ Place(DesiredSpot) \in Act
  BY DesiredTypes, ActTypes
<1>2. PICK a \in Act, b \in Act, c \in Act :
         a = Float /\ b = Size(DesiredSize) /\ c = Place(DesiredSpot)
  BY <1>1
<1>3. /\ <<a>> \in Seq(Act) /\ <<a, b, c>> \in Seq(Act)
      /\ <<a>> \o <<b, c>> = <<a, b, c>> /\ <<a>> \o <<>> = <<a>>
  <2>1. <<a>> \in Seq(Act) /\ <<a, b, c>> \in Seq(Act)
    OBVIOUS
  <2>2. <<a>> \o <<b, c>> = <<a, b, c>>
    BY Concats, Zenon
  <2>3. <<a>> \o <<>> = <<a>>
    BY <2>1, Concats, Zenon
  <2> QED  BY <2>1, <2>2, <2>3
<1>4. CASE l.float
  BY <1>4 DEF Refloat, TypeOK
<1>5. CASE ~l.float
  <2>1. /\ suppressed' = TRUE
        /\ loop' = <<a>> \o IF t.mode = "pin" /\ ~Peeking THEN <<>> ELSE <<b, c>>
    BY <1>2, <1>5 DEF Refloat
  <2>2. CASE t.mode = "pin" /\ ~Peeking
    BY <1>2, <1>3, <1>5, <2>1, <2>2
  <2>3. CASE ~(t.mode = "pin" /\ ~Peeking)
    BY <1>2, <1>3, <1>5, <2>1, <2>3
  <2> QED  BY <2>2, <2>3
<1> QED  BY <1>4, <1>5

LEMMA FloatFirst ==
    ASSUME NEW l \in Layout, NEW s \in AllSizes, NEW p \in AllSpots
    PROVE  /\ FloatIf(l) \o <<Size(s), Place(p)>>
                = IF l.float THEN <<Size(s), Place(p)>> ELSE <<Float, Size(s), Place(p)>>
           /\ FloatIf(l) = (IF l.float THEN <<>> ELSE <<Float>>)
           /\ <<Size(s), Place(p)>> \in Seq(Act) /\ <<Float, Size(s), Place(p)>> \in Seq(Act)
<1>1. PICK a \in Act, b \in Act, c \in Act : a = Float /\ b = Size(s) /\ c = Place(p)
  BY ActTypes
<1>2. <<b, c>> \in Seq(Act) /\ <<a, b, c>> \in Seq(Act)
  OBVIOUS
<1>3. <<a>> \o <<b, c>> = <<a, b, c>>
  BY Concats, Zenon
<1>4. <<>> \o <<b, c>> = <<b, c>>
  BY <1>2, Concats, Zenon
<1> QED  BY <1>1, <1>2, <1>3, <1>4 DEF FloatIf

\* A window becomes an automatic PiP of its own size at its own place, or of the
\* remembered ones.
Anew(l) ==
    \E s \in AllSizes, p \in AllSpots :
       /\ s = (IF profile # None THEN profile.size ELSE PipSize)
       /\ p = (IF profile # None THEN profile.pos ELSE controls.corner)
       /\ t'.managed = s
       /\ IF controls.locked THEN t'.lock \in Geom /\ t'.lock.size = s /\ t'.lock.pos = p
          ELSE t'.lock = None
       /\ loop' = (IF l.float THEN <<Size(s), Place(p)>> ELSE <<Float, Size(s), Place(p)>>)
       /\ profile' = profile
Adopted(l) ==
    /\ t'.managed = l.size /\ t'.lock = None
    /\ loop' = (IF l.float THEN <<>> ELSE <<Float>>)
    /\ l.float => profile' \in Geom /\ profile'.size = l.size /\ profile'.pos = l.pos
    /\ ~l.float /\ profile # None =>
         profile' \in Geom /\ profile'.size = l.size /\ profile'.pos = profile.pos
    /\ ~l.float /\ profile = None => profile' = None

\* What classify_or_reconcile does with a layout.
Classified(l) ==
    \/ t.mode # "none" /\ UNCHANGED <<t, profile, base>> /\ Refloat(l)
    \/ /\ t.mode = "none" /\ ~(IsPip /\ ~ignored)
       /\ UNCHANGED <<t, profile, loop, suppressed, base>>
    \/ /\ t.mode = "none" /\ IsPip /\ ~ignored /\ suppressed' /\ base' = None
       /\ t'.mode = "auto" /\ t'.corner = controls.corner
       /\ t'.peek = None /\ t'.origin = None
       /\ Anew(l) \/ Adopted(l)

LEMMA ClassifyDoes ==
    ASSUME TypeOK, NEW l \in Layout, NEW adopt \in BOOLEAN, Classify(l, adopt)
    PROVE  /\ t' \in Tracked /\ profile' \in Geom \cup {None} /\ loop' \in Seq(Act)
           /\ suppressed' \in BOOLEAN /\ base' \in Layout \cup {None}
           /\ Classified(l)
<1>0. /\ t \in Tracked /\ profile \in Geom \cup {None} /\ loop \in Seq(Act)
      /\ suppressed \in BOOLEAN /\ base \in Layout \cup {None}
      /\ controls \in [corner : AllSpots, locked : BOOLEAN]
      /\ controls.corner \in AllSpots /\ l.size \in AllSizes
  BY ControlsMade, LayoutTypes DEF TypeOK
<1>1. CASE t.mode # "none"
  <2>1. Refloat(l) /\ UNCHANGED <<t, profile, base>>
    BY <1>1 DEF Classify
  <2> QED  BY <1>0, <1>1, <2>1, RefloatDoes DEF Classified
<1>2. CASE t.mode = "none" /\ ~(IsPip /\ ~ignored)
  BY <1>0, <1>2 DEF Classify, Classified
<1>3. CASE t.mode = "none" /\ IsPip /\ ~ignored /\ ~(adopt /\ ~controls.locked)
  <2>1. ManageAnew(l) /\ suppressed' = TRUE /\ base' = None
    BY <1>3 DEF Classify
  <2>2. profile # None => profile.size \in AllSizes /\ profile.pos \in AllSpots
    BY <1>0 DEF Geom
  <2>3. PICK s \in AllSizes, p \in AllSpots :
           /\ s = (IF profile # None THEN profile.size ELSE PipSize)
           /\ p = (IF profile # None THEN profile.pos ELSE controls.corner)
    BY <1>0, <2>2, ConstantTypes
  <2>4. PICK g \in Geom : g = [size |-> s, pos |-> p] /\ g.size = s /\ g.pos = p
    BY GeomMade
  <2>5. PICK k \in Geom \cup {None} : k = IF controls.locked THEN g ELSE None
    OBVIOUS
  <2>6. /\ t' = [Untracked EXCEPT !.mode = "auto", !.corner = controls.corner, !.managed = s,
                                  !.lock = k]
        /\ loop' = FloatIf(l) \o <<Size(s), Place(p)>>
        /\ profile' = profile
    BY <2>1, <2>3, <2>4, <2>5 DEF ManageAnew
  <2>7. t' = E("auto", controls.corner, s, k, None, None)
    BY <2>6, NewEntries
  <2>8. t' \in Tracked /\ Fields(t', "auto", controls.corner, s, k, None, None)
    BY <1>0, <2>7, EntryMade, EntryFields
  <2>9. /\ loop' = (IF l.float THEN <<Size(s), Place(p)>> ELSE <<Float, Size(s), Place(p)>>)
        /\ loop' \in Seq(Act)
    BY <2>6, FloatFirst
  <2>10. Anew(l)
    <3>1. /\ t'.managed = s
          /\ IF controls.locked THEN t'.lock \in Geom /\ t'.lock.size = s /\ t'.lock.pos = p
             ELSE t'.lock = None
      BY <2>4, <2>5, <2>8 DEF Fields
    <3> QED  BY <2>3, <2>6, <2>9, <3>1 DEF Anew
  <2> QED  BY <1>0, <1>3, <2>1, <2>6, <2>8, <2>9, <2>10
               DEF Fields, Classified
<1>4. CASE t.mode = "none" /\ IsPip /\ ~ignored /\ adopt /\ ~controls.locked
  <2>1. Adopt(l) /\ suppressed' = TRUE /\ base' = None
    BY <1>4 DEF Classify
  <2>2. t' = E("auto", controls.corner, l.size, None, None, None)
    BY <2>1, NewEntries DEF Adopt
  <2>3. t' \in Tracked /\ Fields(t', "auto", controls.corner, l.size, None, None, None)
    BY <1>0, <2>2, EntryMade, EntryFields
  <2>4. loop' = (IF l.float THEN <<>> ELSE <<Float>>) /\ loop' \in Seq(Act)
    BY <2>1, ActTypes DEF Adopt, FloatIf
  <2>5. CASE l.float
    <3>1. /\ GeomOf(l) \in Geom /\ GeomOf(l).size = l.size /\ GeomOf(l).pos = l.pos
          /\ GeomOf(l) # None
      BY <2>5, GeomTypes, ConstantTypes
    <3>2. profile' = GeomOf(l)
      BY <2>1, <3>1 DEF Adopt
    <3>3. Adopted(l)
      BY <2>3, <2>4, <2>5, <3>1, <3>2 DEF Adopted, Fields
    <3> QED  BY <1>0, <1>4, <2>1, <2>3, <2>4, <3>1, <3>2, <3>3
               DEF Fields, Classified
  <2>6. CASE ~l.float /\ profile # None
    <3>1. GeomOf(l) = None /\ profile \in Geom
      BY <1>0, <2>6, GeomTypes
    <3>2. PICK g \in Geom : /\ g = [profile EXCEPT !.size = l.size]
                            /\ g.size = l.size /\ g.pos = profile.pos
      BY <1>0, <3>1, GeomSized
    <3>3. profile' = g
      BY <2>1, <2>6, <3>1, <3>2 DEF Adopt
    <3>4. Adopted(l)
      BY <2>3, <2>4, <2>6, <3>2, <3>3 DEF Adopted, Fields
    <3> QED  BY <1>0, <1>4, <2>1, <2>3, <2>4, <3>2, <3>3, <3>4
               DEF Fields, Classified
  <2>7. CASE ~l.float /\ profile = None
    <3>1. GeomOf(l) = None
      BY <2>7, GeomTypes
    <3>2. profile' = None
      BY <2>1, <2>7, <3>1 DEF Adopt
    <3>3. Adopted(l)
      BY <2>3, <2>4, <2>7, <3>2 DEF Adopted, Fields
    <3> QED  BY <1>0, <1>4, <2>1, <2>3, <2>4, <3>2, <3>3
               DEF Fields, Classified
  <2> QED  BY <2>5, <2>6, <2>7
<1> QED  BY <1>1, <1>2, <1>3, <1>4

\* An event that brings the layout and classifies the window.
LEMMA ClassifyingTypes ==
    ASSUME TypeOK, NEW type, NEW adopt \in BOOLEAN, Receive(type), NEW l, l = Head(queue).layout,
           seen' = l, Classify(l, adopt), UNCHANGED <<ignored, controls>>
    PROVE  TypeOK' /\ l \in Layout /\ Classified(l)
<1>1. OutOK /\ EngineOK
  BY TypeParts
<1>2. l \in Layout /\ (loop' \in Seq(Act) => OutOK')
  BY <1>1, ReceiveTypes
<1>3. /\ t' \in Tracked /\ profile' \in Geom \cup {None} /\ loop' \in Seq(Act)
      /\ suppressed' \in BOOLEAN /\ base' \in Layout \cup {None}
      /\ Classified(l)
  BY <1>2, ClassifyDoes
<1>4. EngineOK'
  BY <1>1, <1>2, <1>3 DEF EngineOK
<1> QED  BY <1>2, <1>3, <1>4, TypePartsNext

LEMMA ClassifyingDoes ==
    ASSUME TypeOK, HandleChanged \/ HandleSnapshot
    PROVE  \E l \in Layout : /\ TypeOK' /\ l = Head(queue).layout /\ seen' = l /\ Classified(l)
                             /\ UNCHANGED <<ignored, controls>>
<1>1. PICK l : l = Head(queue).layout
  OBVIOUS
<1>2. seen' = l /\ UNCHANGED <<ignored, controls>>
  BY <1>1 DEF HandleChanged, HandleSnapshot
<1>3. CASE HandleChanged
  <2>1. Receive("changed") /\ Classify(l, FALSE)
    BY <1>2, <1>3 DEF HandleChanged
  <2> QED  BY <1>1, <1>2, <2>1, ClassifyingTypes
<1>4. CASE HandleSnapshot
  <2>1. Receive("snapshot") /\ Classify(l, TRUE)
    BY <1>2, <1>4 DEF HandleSnapshot
  <2> QED  BY <1>1, <1>2, <2>1, ClassifyingTypes
<1> QED  BY <1>3, <1>4

LEMMA OutputsChangedDoes ==
    ASSUME TypeOK, OutputsChanged
    PROVE  /\ TypeOK'
           /\ loop' = (IF IsAuto \/ t.mode = "overlay" \/ Peeking THEN <<Place(DesiredSpot)>>
                       ELSE <<>>)
<1>1. loop' = (IF IsAuto \/ t.mode = "overlay" \/ Peeking THEN <<Place(DesiredSpot)>>
               ELSE <<>>)
  BY DEF OutputsChanged
<1>2. t.mode # "none" => Place(DesiredSpot) \in Act
  BY DesiredTypes, ActTypes
<1>3. t.mode = "none" => ~Peeking
  BY EntryTypes, UntrackedFields DEF TypeOK, Peeking, Fields
<1>4. loop' \in Seq(Act)
  BY <1>1, <1>2, <1>3 DEF IsAuto
<1>5. OutOK'
  BY <1>4, TypeParts DEF OutputsChanged, OutOK
<1>6. EngineOK'
  BY TypeParts DEF OutputsChanged, EngineOK
<1> QED  BY <1>1, <1>5, <1>6, TypePartsNext

LEMMA UserActsTypes ==
    ASSUME TypeOK, NEW l \in Layout, UserActs(l)
    PROVE  TypeOK'
<1>1. real' \in Layout /\ queue' \in Seq(Msg)
  BY BecomesTypes, TypeParts DEF UserActs
<1>2. OutOK'
  BY <1>1, TypeParts DEF UserActs, OutOK
<1>3. EngineOK'
  BY TypeParts DEF UserActs, EngineOK
<1> QED  BY <1>2, <1>3, TypePartsNext

LEMMA ActTypesStep ==
    ASSUME TypeOK, Work \/ LoopAct
    PROVE  TypeOK'
<1>1. CASE Work
  <2>1. work # <<>> /\ work \in Seq(Act) /\ real \in Layout
    BY <1>1 DEF TypeOK, Work
  <2>2. Head(work) \in Act /\ Tail(work) \in Seq(Act)
    BY <2>1
  <2>3. After(real, Head(work)) \in Layout
    BY <2>1, <2>2, AfterDoes
  <2>4. real' \in Layout /\ queue' \in Seq(Msg)
    BY <1>1, <2>3, BecomesTypes, TypeParts DEF Work
  <2>5. OutOK'
    BY <1>1, <2>2, <2>4, TypeParts DEF Work, OutOK, bounds
  <2>6. EngineOK'
    BY <1>1, TypeParts DEF Work, EngineOK
  <2> QED  BY <2>5, <2>6, TypePartsNext
<1>2. CASE LoopAct
  <2>1. loop # <<>> /\ loop \in Seq(Act) /\ real \in Layout
    BY <1>2 DEF TypeOK, LoopAct
  <2>2. Head(loop) \in Act /\ Tail(loop) \in Seq(Act)
    BY <2>1
  <2>3. After(real, Head(loop)) \in Layout
    BY <2>1, <2>2, AfterDoes
  <2>4. real' \in Layout /\ queue' \in Seq(Msg)
    BY <1>2, <2>3, BecomesTypes, TypeParts DEF LoopAct
  <2>5. OutOK'
    BY <1>2, <2>2, <2>4, TypeParts DEF LoopAct, OutOK, bounds
  <2>6. EngineOK'
    BY <1>2, TypeParts DEF LoopAct, EngineOK
  <2> QED  BY <2>5, <2>6, TypePartsNext
<1> QED  BY <1>1, <1>2

\* What the user makes of the layout.
LEMMA UserMoves ==
    ASSUME TypeOK, (\E p \in Spots : UserDrags(p)) \/ (\E s \in Sizes : UserResizes(s)) \/ UserTiles
    PROVE  \E l \in Layout :
              /\ UserActs(l)
              /\ \/ \E p \in Spots : UserDrags(p) /\ real.float
                      /\ l = [float |-> TRUE, size |-> real.size, pos |-> p]
                 \/ \E s \in Sizes : UserResizes(s)
                      /\ l = [float |-> real.float, size |-> s, pos |-> real.pos]
                 \/ /\ UserTiles /\ real.float
                    /\ l = [float |-> FALSE, size |-> real.size, pos |-> None]
<1>0. real \in Layout /\ real = [float |-> real.float, size |-> real.size, pos |-> real.pos]
  BY LayoutTypes DEF TypeOK
<1>1. ASSUME NEW p \in Spots, UserDrags(p)
      PROVE  /\ [float |-> TRUE, size |-> real.size, pos |-> p] \in Layout /\ real.float
             /\ UserActs([float |-> TRUE, size |-> real.size, pos |-> p])
  <2>1. real.float /\ UserActs([real EXCEPT !.pos = p])
    BY <1>1 DEF UserDrags
  <2>2. [real EXCEPT !.pos = p] = [float |-> real.float, size |-> real.size, pos |-> p]
    BY <1>0, LayoutExcept, Zenon
  <2>3. real.float = TRUE
    BY <1>0, <2>1, LayoutTypes
  <2>4. p \in AllSpots /\ real.size \in AllSizes
    BY <1>0, ConstantTypes, LayoutTypes
  <2> QED  BY <2>1, <2>2, <2>3, <2>4, LayoutMade
<1>2. ASSUME NEW s \in Sizes, UserResizes(s)
      PROVE  /\ [float |-> real.float, size |-> s, pos |-> real.pos] \in Layout
             /\ UserActs([float |-> real.float, size |-> s, pos |-> real.pos])
  BY <1>0, <1>2, SeenSized, ConstantTypes DEF UserResizes
<1>3. ASSUME UserTiles
      PROVE  /\ [float |-> FALSE, size |-> real.size, pos |-> None] \in Layout /\ real.float
             /\ UserActs([float |-> FALSE, size |-> real.size, pos |-> None])
  BY <1>0, <1>3, AfterDoes, LayoutMade, LayoutTypes DEF UserTiles
<1> QED  BY <1>1, <1>2, <1>3, Zenon

LEMMA InitTypes == Init => TypeOK
<1> SUFFICES ASSUME Init PROVE TypeOK
  OBVIOUS
<1>1. real \in Layout
  BY GeometryAssumption DEF Init, GeometryAssumption
<1>2. queue \in Seq(Msg)
  <2>1. [type |-> "changed", layout |-> real] \in Msg
    BY <1>1 DEF Msg
  <2>2. PICK m \in Msg : m = [type |-> "changed", layout |-> real]
    BY <2>1
  <2>3. queue = <<>> \/ queue = <<m>>
    BY <2>2 DEF Init
  <2>4. <<>> \in Seq(Msg) /\ <<m>> \in Seq(Msg)
    BY <2>2
  <2> QED  BY <2>3, <2>4
<1>3. DefaultControls \in [corner : AllSpots, locked : BOOLEAN]
  BY ConstantTypes DEF DefaultControls
<1>4. OutOK
  BY <1>1, <1>2 DEF Init, OutOK
<1>5. EngineOK
  BY <1>3, UntrackedFields DEF Init, EngineOK
<1> QED  BY <1>4, <1>5, TypeParts

LEMMA TypeStep == TypeOK /\ [Next]_vars => TypeOK'
<1> SUFFICES ASSUME TypeOK, [Next]_vars PROVE TypeOK'
  OBVIOUS
<1>1. CASE Client
  BY <1>1, PinDoes, OverlayDoes, UnpinDoes, PeekOnDoes, PeekOffDoes, ResizeDoes, SetPositionDoes,
     NudgeDoes, LockDoes, UnlockDoes, ResetGeometryDoes, ResetLearnedDoes, Zenon DEF Client
<1>2. CASE Work \/ LoopAct
  BY <1>2, ActTypesStep
<1>3. CASE HandleLayout \/ HandleChanged \/ HandleSnapshot \/ OutputsChanged
  BY <1>3, HandleLayoutDoes, ClassifyingDoes, OutputsChangedDoes
<1>4. CASE SuppressionEnds
  BY <1>4 DEF SuppressionEnds, TypeOK, bounds
<1>5. CASE Connect
  <2>1. queue' \in Seq(Msg)
    BY <1>5 DEF Connect, TypeOK, Msg
  <2>2. OutOK'
    BY <1>5, <2>1, TypeParts DEF Connect, OutOK, bounds
  <2>3. EngineOK'
    BY <1>5, TypeParts DEF Connect, EngineOK
  <2> QED  BY <2>2, <2>3, TypePartsNext
<1>6. CASE CutStream
  <2>1. OutOK'
    BY <1>6, TypeParts DEF CutStream, OutOK
  <2>2. EngineOK'
    BY <1>6, TypeParts DEF CutStream, EngineOK
  <2> QED  BY <2>1, <2>2, TypePartsNext
<1>7. CASE RestartDaemon
  <2>1. OutOK'
    BY <1>7, TypeParts DEF RestartDaemon, OutOK
  <2>2. EngineOK'
    BY <1>7, TypeParts, UntrackedFields DEF RestartDaemon, EngineOK
  <2> QED  BY <2>1, <2>2, TypePartsNext
<1>8. CASE (\E p \in Spots : UserDrags(p)) \/ (\E s \in Sizes : UserResizes(s)) \/ UserTiles
  BY <1>8, UserMoves, UserActsTypes
<1>9. CASE UNCHANGED vars
  BY <1>9 DEF vars, bounds, TypeOK
<1> QED  BY <1>1, <1>2, <1>3, <1>4, <1>5, <1>6, <1>7, <1>8, <1>9 DEF Next, Daemon, World

\* Every variable has its type, whatever the engine, the clients and the user do.
THEOREM TypeCorrect == Spec => []TypeOK
<1>1. TypeOK /\ [Next]_vars => TypeOK'
  BY TypeStep
<1> QED  BY <1>1, InitTypes, PTL DEF Spec

-------------------------------------------------------------------------------
(* The cache *)

\* The newest layout the engine has heard of or will hear of is the window's, or
\* the cache is ahead of a resize that is under way.
Newest == IF queue = <<>> THEN seen ELSE queue[Len(queue)].layout
CacheInv ==
    link = "on" =>
      \/ Newest = real
      \/ /\ queue = <<>> /\ seen \in Layout
         /\ seen.float = real.float /\ seen.pos = real.pos
         /\ \E i \in 1..Len(work) : work[i] = Size(seen.size)

\* A request finds no other under way; a size that it puts into the cache is one
\* that it sets.
LEMMA ClientDoes ==
    ASSUME TypeOK, Client
    PROVE  /\ work = <<>> /\ seen \in Layout /\ UNCHANGED <<real, queue, link, loop>>
           /\ Patient => Settled /\ ~suppressed
           /\ \/ seen' = seen
              \/ \E s \in AllSizes, i \in 1..Len(work') :
                    seen' = [seen EXCEPT !.size = s] /\ work'[i] = Size(s)
<1>1. PICK acts : Request(acts)
  BY Zenon DEF Client, Pin, Overlay, Unpin, PeekOn, PeekOff, Resize, SetPosition, Nudge, Lock,
               Unlock, ResetGeometry, ResetLearned
<1>2. /\ work = <<>> /\ seen \in Layout /\ UNCHANGED <<real, queue, link, loop>>
      /\ Patient => Settled /\ ~suppressed
  BY <1>1 DEF Request, TypeOK
<1>3. CASE Pin \/ Unpin \/ (\E p \in Spots : SetPosition(p)) \/ Nudge \/ Lock \/ Unlock
           \/ ResetLearned
  BY <1>2, <1>3 DEF Pin, Unpin, SetPosition, Nudge, Lock, Unlock, ResetLearned
<1>4. CASE Overlay
  <2>1. work' = FloatIf(seen) \o <<Size(OverlaySize), Place(OverlaySpot)>>
    BY <1>4 DEF Overlay, Request
  <2>2. work' = IF seen.float THEN <<Size(OverlaySize), Place(OverlaySpot)>>
                ELSE <<Float, Size(OverlaySize), Place(OverlaySpot)>>
    BY <1>2, <2>1, FloatFirst, ConstantTypes
  <2>3. seen' = [seen EXCEPT !.size = OverlaySize]
    BY <1>4 DEF Overlay
  <2>4. \E i \in 1..Len(work') : work'[i] = Size(OverlaySize)
    <3>1. CASE seen.float
      <4>1. 1 \in 1..Len(work') /\ work'[1] = Size(OverlaySize)
        BY <2>2, <3>1
      <4> QED  BY <4>1
    <3>2. CASE ~seen.float
      <4>1. 2 \in 1..Len(work') /\ work'[2] = Size(OverlaySize)
        BY <2>2, <3>2
      <4> QED  BY <4>1
    <3> QED  BY <3>1, <3>2
  <2> QED  BY <1>2, <2>3, <2>4, ConstantTypes
<1>5. CASE PeekOn
  <2>1. seen' = [seen EXCEPT !.size = PeekSize] /\ work' = <<Size(PeekSize), Place(PeekSpot)>>
    BY <1>5 DEF PeekOn, Request
  <2>2. 1 \in 1..Len(work') /\ work'[1] = Size(PeekSize)
    BY <2>1
  <2> QED  BY <1>2, <2>1, <2>2, ConstantTypes
<1>6. CASE PeekOff
  <2>1. /\ seen' = [seen EXCEPT !.size = t.peek.geom.size]
        /\ work' = <<Size(t.peek.geom.size), Place(t.peek.geom.pos)>>
    BY <1>6 DEF PeekOff, Request, Show
  <2>2. 1 \in 1..Len(work') /\ work'[1] = Size(t.peek.geom.size)
    BY <2>1
  <2>3. t.peek.geom.size \in AllSizes
    BY <1>6, PeekOffDoes DEF Geom
  <2> QED  BY <1>2, <2>1, <2>2, <2>3
<1>7. CASE \E s \in Sizes : Resize(s)
  <2>1. PICK s \in Sizes : Resize(s)
    BY <1>7
  <2>2. seen' = [seen EXCEPT !.size = s] /\ work' = <<Size(s)>>
    BY <2>1 DEF Resize, Request
  <2>3. 1 \in 1..Len(work') /\ work'[1] = Size(s) /\ s \in AllSizes
    BY <2>2, ConstantTypes
  <2> QED  BY <1>2, <2>2, <2>3
<1>8. CASE ResetGeometry /\ ~IsAuto
  BY <1>2, <1>8 DEF ResetGeometry
<1>9. CASE ResetGeometry /\ IsAuto
  <2>1. seen' = [seen EXCEPT !.size = PipSize] /\ work' = <<Size(PipSize), Place(PipSpot)>>
    BY <1>9 DEF ResetGeometry, Request
  <2>2. 1 \in 1..Len(work') /\ work'[1] = Size(PipSize)
    BY <2>1
  <2> QED  BY <1>2, <2>1, <2>2, ConstantTypes
<1> QED  BY <1>3, <1>4, <1>5, <1>6, <1>7, <1>8, <1>9 DEF Client

\* What a changed layout leaves in the queue.
LEMMA BecomesDoes ==
    ASSUME OutOK, NEW l \in Layout, LayoutBecomes(l)
    PROVE  /\ real' = l
           /\ link = "off" \/ l = real => queue' = queue
           /\ link = "on" /\ l # real =>
                /\ Len(queue') = Len(queue) + 1 /\ queue' # <<>>
                /\ queue'[Len(queue')].layout = l
                /\ queue'[Len(queue')].type =
                     (IF l.float = real.float THEN "layout" ELSE "changed")
                /\ \A i \in 1..Len(queue) : queue'[i] = queue[i]
<1>1. CASE link = "off" \/ l = real
  BY <1>1 DEF LayoutBecomes, OutOK
<1>2. CASE link = "on" /\ l # real
  <2>0. PICK d : d = IF l.float = real.float THEN "layout" ELSE "changed"
    OBVIOUS
  <2>1. PICK m : m = [type |-> d, layout |-> l]
    OBVIOUS
  <2>a. m.layout = l /\ m.type = d
    BY <2>1
  <2>2. real' = l /\ queue' = Append(queue, m)
    BY <1>2, <2>0, <2>1 DEF LayoutBecomes
  <2>3. queue \in Seq(Msg)
    BY DEF OutOK
  <2> QED  BY <1>2, <2>0, <2>a, <2>2, <2>3
<1> QED  BY <1>1, <1>2 DEF OutOK

LEMMA CacheStep ==
    ASSUME TypeOK, CacheInv, [Next]_vars
    PROVE  CacheInv'
<1>0. /\ queue \in Seq(Msg) /\ real \in Layout /\ work \in Seq(Act) /\ loop \in Seq(Act)
      /\ link \in {"off", "on"} /\ OutOK
  BY TypeParts DEF OutOK
<1>1. CASE Client
  <2>1. CASE seen' = seen \/ queue # <<>> \/ link = "off"
    BY <1>0, <1>1, <2>1, ClientDoes DEF CacheInv, Newest
  <2>2. CASE seen' # seen /\ queue = <<>> /\ link = "on"
    <3>1. PICK s \in AllSizes, i \in 1..Len(work') :
             seen' = [seen EXCEPT !.size = s] /\ work'[i] = Size(s)
      BY <1>1, <2>2, ClientDoes
    <3>2. seen = real /\ seen \in Layout
      BY <1>1, <2>2, ClientDoes DEF CacheInv, Newest
    <3>3. seen' \in Layout /\ seen'.float = real.float /\ seen'.size = s /\ seen'.pos = real.pos
      <4>1. PICK m : m = seen'
        OBVIOUS
      <4>2. m = [seen EXCEPT !.size = s]
        BY <3>1, <4>1
      <4>3. m \in Layout /\ m.float = seen.float /\ m.size = s /\ m.pos = seen.pos
        BY <3>2, <4>2, SeenSized, ZenonT(30)
      <4> QED  BY <3>2, <4>1, <4>3
    <3> QED  BY <1>1, <2>2, <3>1, <3>3, ClientDoes DEF CacheInv
  <2> QED  BY <1>0, <2>1, <2>2
<1>2. CASE Work
  <2>1. PICK a \in Act : a = Head(work) /\ work # <<>>
    BY <1>0, <1>2 DEF Work
  <2>2. PICK l \in Layout : l = After(real, a)
    BY <1>0, AfterDoes
  <2>3. LayoutBecomes(l) /\ work' = Tail(work) /\ UNCHANGED <<link, seen>>
    BY <1>2, <2>1, <2>2 DEF Work
  <2>4. CASE link = "off"
    BY <2>3, <2>4 DEF CacheInv
  <2>5. CASE link = "on" /\ l # real
    BY <1>0, <2>3, <2>5, BecomesDoes DEF CacheInv, Newest
  <2>6. CASE link = "on" /\ l = real
    <3>1. real' = real /\ queue' = queue
      BY <1>0, <2>3, <2>6, BecomesDoes
    <3>2. CASE Newest = real
      BY <2>3, <3>1, <3>2 DEF CacheInv, Newest
    <3>3. CASE Newest # real
      <4>1. PICK i \in 1..Len(work) : work[i] = Size(seen.size)
        BY <2>6, <3>3 DEF CacheInv
      <4>2. /\ queue = <<>> /\ seen \in Layout /\ seen.float = real.float
            /\ seen.pos = real.pos
        BY <2>6, <3>3 DEF CacheInv
      <4>3. i # 1
        <5> SUFFICES ASSUME i = 1 PROVE FALSE
          OBVIOUS
        <5>1. real = [float |-> real.float, size |-> seen.size, pos |-> real.pos]
          BY <1>0, <2>1, <2>2, <2>6, <4>1, AfterDoes
        <5>2. seen = real
          BY <4>2, <5>1, LayoutTypes
        <5> QED  BY <3>3, <4>2, <5>2 DEF Newest
      <4>4. i - 1 \in 1..Len(work') /\ work'[i - 1] = Size(seen.size)
        BY <1>0, <2>1, <2>3, <4>1, <4>3
      <4> QED  BY <2>3, <3>1, <4>2, <4>4 DEF CacheInv
    <3> QED  BY <3>2, <3>3
  <2> QED  BY <1>0, <2>4, <2>5, <2>6
<1>3. CASE LoopAct
  <2>1. PICK a \in Act : a = Head(loop) /\ loop # <<>>
    BY <1>0, <1>3 DEF LoopAct
  <2>2. PICK l \in Layout : l = After(real, a)
    BY <1>0, AfterDoes
  <2>3. LayoutBecomes(l) /\ UNCHANGED <<link, seen, work>>
    BY <1>3, <2>1, <2>2 DEF LoopAct
  <2>4. CASE link = "off"
    BY <2>3, <2>4 DEF CacheInv
  <2>5. CASE link = "on" /\ l # real
    BY <1>0, <2>3, <2>5, BecomesDoes DEF CacheInv, Newest
  <2>6. CASE link = "on" /\ l = real
    BY <1>0, <2>3, <2>6, BecomesDoes DEF CacheInv, Newest
  <2> QED  BY <1>0, <2>4, <2>5, <2>6
<1>4. CASE HandleLayout \/ HandleChanged \/ HandleSnapshot
  <2>1. PICK type : Receive(type)
    BY <1>4 DEF HandleLayout, HandleChanged, HandleSnapshot
  <2>2. seen' = Head(queue).layout
    BY <1>4 DEF HandleLayout, HandleChanged, HandleSnapshot
  <2>3. queue # <<>> /\ queue' = Tail(queue) /\ UNCHANGED <<link, real>>
    BY <2>1 DEF Receive
  <2>4. link = "on" => Newest' = Newest
    <3>0. Len(queue) \in Nat \ {0}
      BY <1>0, <2>3
    <3>1. CASE Len(queue) = 1
      <4>1. queue' = <<>> /\ Head(queue) = queue[Len(queue)]
        BY <1>0, <2>3, <3>1
      <4> QED  BY <2>2, <2>3, <4>1 DEF Newest
    <3>2. CASE Len(queue) > 1
      <4>1. queue' \in Seq(Msg) /\ Len(queue') = Len(queue) - 1
        BY <1>0, <2>3
      <4>2. Len(queue') \in 1..Len(queue')
        BY <3>0, <3>2, <4>1
      <4>3. queue'[Len(queue')] = queue[Len(queue') + 1]
        BY <1>0, <2>3, <4>2
      <4>4. queue' # <<>> /\ queue'[Len(queue')] = queue[Len(queue)]
        BY <3>0, <3>2, <4>1, <4>3
      <4> QED  BY <2>3, <4>4 DEF Newest
    <3>3. Len(queue) = 1 \/ Len(queue) > 1
      BY <3>0
    <3> QED  BY <3>1, <3>2, <3>3
  <2> QED  BY <2>3, <2>4 DEF CacheInv
<1>5. CASE SuppressionEnds \/ OutputsChanged
  BY <1>5 DEF SuppressionEnds, OutputsChanged, CacheInv, Newest
<1>6. CASE Connect
  BY <1>6 DEF Connect, CacheInv, Newest
<1>7. CASE CutStream \/ RestartDaemon
  BY <1>7 DEF CutStream, RestartDaemon, CacheInv
<1>8. CASE (\E p \in Spots : UserDrags(p)) \/ (\E s \in Sizes : UserResizes(s)) \/ UserTiles
  <2>1. PICK l \in Layout : UserActs(l)
    BY <1>8, UserMoves
  <2>2. LayoutBecomes(l) /\ l # real /\ UNCHANGED <<link, seen, work>>
    BY <2>1 DEF UserActs
  <2> QED  BY <1>0, <2>2, BecomesDoes DEF CacheInv, Newest
<1>9. CASE UNCHANGED vars
  BY <1>9 DEF vars, CacheInv, Newest
<1> QED  BY <1>1, <1>2, <1>3, <1>4, <1>5, <1>6, <1>7, <1>8, <1>9 DEF Next, Daemon, World

\* Whatever happens, the cached layout is the window's as soon as every action has
\* come back as an event.
THEOREM CacheCatchesUp == Spec => [](Settled => seen = real)
<1>1. Init => CacheInv
  BY DEF Init, CacheInv, Newest
<1>2. TypeOK /\ CacheInv /\ [Next]_vars => CacheInv'
  BY CacheStep
<1>3. CacheInv => (Settled => seen = real)
  BY DEF CacheInv, Newest, Settled, Quiet
<1> QED  BY <1>1, <1>2, <1>3, TypeCorrect, PTL DEF Spec

-------------------------------------------------------------------------------
(* Where the actions that are under way lead *)

\* Where the actions s lead from layout l.
Final(l, s) ==
    LET a == IF Len(s) < 1 THEN l ELSE After(l, s[1])
        b == IF Len(s) < 2 THEN a ELSE After(a, s[2])
    IN  IF Len(s) < 3 THEN b ELSE After(b, s[3])
Acts == IF work = <<>> THEN loop ELSE work
End == Final(real, Acts)
NoTile(s) == \A i \in 1..Len(s) : s[i] # Tile
Is(l, g) == l.size = g.size /\ l.pos = g.pos

LEMMA LayoutEq ==
    ASSUME NEW l \in Layout, NEW m \in Layout,
           l.float = m.float, l.size = m.size, l.pos = m.pos
    PROVE  l = m
  BY LayoutTypes

LEMMA FinalOf ==
    ASSUME NEW l
    PROVE  /\ Final(l, <<>>) = l
           /\ \A a : Final(l, <<a>>) = After(l, a)
           /\ \A a, b : Final(l, <<a, b>>) = After(After(l, a), b)
           /\ \A a, b, c : Final(l, <<a, b, c>>) = After(After(After(l, a), b), c)
<1>1. Final(l, <<>>) = l
  BY DEF Final
<1>2. ASSUME NEW a PROVE Final(l, <<a>>) = After(l, a)
  BY DEF Final
<1>3. ASSUME NEW a, NEW b PROVE Final(l, <<a, b>>) = After(After(l, a), b)
  BY DEF Final
<1>4. ASSUME NEW a, NEW b, NEW c
      PROVE  Final(l, <<a, b, c>>) = After(After(After(l, a), b), c)
  BY DEF Final
<1> QED  BY <1>1, <1>2, <1>3, <1>4

\* Executing the first of up to three actions does not change where they lead.
LEMMA FinalStep ==
    ASSUME NEW l \in Layout, NEW s \in Seq(Act), s # <<>>, Len(s) <= 3
    PROVE  Final(After(l, Head(s)), Tail(s)) = Final(l, s)
<1>1. PICK r \in Seq(Act), a \in Act :
         /\ r = Tail(s) /\ a = Head(s) /\ a = s[1] /\ Len(r) = Len(s) - 1
         /\ \A i \in 1..(Len(s) - 1) : r[i] = s[i + 1]
  <2>1. Tail(s) \in Seq(Act) /\ Len(Tail(s)) = Len(s) - 1
    OBVIOUS
  <2>2. Head(s) \in Act /\ Head(s) = s[1]
    OBVIOUS
  <2>3. \A i \in 1..(Len(s) - 1) : Tail(s)[i] = s[i + 1]
    OBVIOUS
  <2> QED  BY <2>1, <2>2, <2>3
<1>2. Len(s) = 1 \/ Len(s) = 2 \/ Len(s) = 3
  <2>1. PICK n \in Nat : n = Len(s) /\ n # 0 /\ n <= 3
    OBVIOUS
  <2>2. n = 1 \/ n = 2 \/ n = 3
    BY <2>1
  <2> QED  BY <2>1, <2>2
<1>3. PICK k : k = After(l, a)
  OBVIOUS
<1>4. CASE Len(s) = 1
  <2>1. Len(r) = 0
    BY <1>1, <1>4
  <2>2. Final(l, s) = k
    BY <1>1, <1>3, <1>4 DEF Final
  <2>3. Final(k, r) = k
    BY <2>1 DEF Final
  <2> QED  BY <1>1, <1>3, <2>2, <2>3
<1>5. CASE Len(s) = 2
  <2>0. 1 \in 1..(Len(s) - 1)
    BY <1>5
  <2>1. Len(r) = 1 /\ r[1] = s[2]
    <3>1. r[1] = s[1 + 1]
      BY <1>1, <2>0
    <3>2. Len(r) = 1
      BY <1>1, <1>5
    <3> QED  BY <3>1, <3>2
  <2>2. Final(l, s) = After(k, s[2])
    BY <1>1, <1>3, <1>5 DEF Final
  <2>3. Final(k, r) = After(k, s[2])
    BY <2>1 DEF Final
  <2> QED  BY <1>1, <1>3, <2>2, <2>3
<1>6. CASE Len(s) = 3
  <2>0. 1 \in 1..(Len(s) - 1) /\ 2 \in 1..(Len(s) - 1)
    BY <1>6
  <2>1. Len(r) = 2 /\ r[1] = s[2] /\ r[2] = s[3]
    <3>1. r[1] = s[1 + 1] /\ r[2] = s[2 + 1]
      BY <1>1, <2>0
    <3>2. Len(r) = 2
      BY <1>1, <1>6
    <3> QED  BY <3>1, <3>2
  <2>2. Final(l, s) = After(After(k, s[2]), s[3])
    BY <1>1, <1>3, <1>6 DEF Final
  <2>3. Final(k, r) = After(After(k, s[2]), s[3])
    BY <2>1 DEF Final
  <2> QED  BY <1>1, <1>3, <2>2, <2>3
<1> QED  BY <1>2, <1>4, <1>5, <1>6

LEMMA FinalTypes ==
    ASSUME NEW l \in Layout, NEW s \in Seq(Act)
    PROVE  Final(l, s) \in Layout
<1>1. \A i \in 1..Len(s) : s[i] \in Act
  OBVIOUS
<1>2. Len(s) \in Nat
  OBVIOUS
<1>3. CASE Len(s) = 0
  BY <1>3 DEF Final
<1>4. CASE Len(s) = 1
  BY <1>1, <1>4, AfterDoes DEF Final
<1>5. CASE Len(s) = 2
  <2>1. s[1] \in Act /\ s[2] \in Act
    BY <1>1, <1>5
  <2>2. After(l, s[1]) \in Layout
    BY <2>1, AfterDoes
  <2>3. After(After(l, s[1]), s[2]) \in Layout
    BY <2>1, <2>2, AfterDoes
  <2> QED  BY <1>5, <2>3 DEF Final
<1>6. CASE Len(s) >= 3
  <2>1. s[1] \in Act /\ s[2] \in Act /\ s[3] \in Act
    BY <1>1, <1>2, <1>6
  <2>2. After(l, s[1]) \in Layout
    BY <2>1, AfterDoes
  <2>3. After(After(l, s[1]), s[2]) \in Layout
    BY <2>1, <2>2, AfterDoes
  <2>4. After(After(After(l, s[1]), s[2]), s[3]) \in Layout
    BY <2>1, <2>3, AfterDoes
  <2> QED  BY <1>2, <1>6, <2>4 DEF Final
<1>7. Len(s) = 0 \/ Len(s) = 1 \/ Len(s) = 2 \/ Len(s) >= 3
  <2>1. \A n \in Nat : n = 0 \/ n = 1 \/ n = 2 \/ n >= 3
    OBVIOUS
  <2> QED  BY <1>2, <2>1
<1> QED  BY <1>3, <1>4, <1>5, <1>6, <1>7

\* The fields after an action.
LEMMA AfterFields ==
    ASSUME NEW l \in Layout
    PROVE  /\ After(l, Float).float /\ After(l, Float).size = l.size
           /\ l.float => After(l, Float).pos = l.pos
           /\ ~l.float => After(l, Float).pos = FloatSpot
           /\ ~After(l, Tile).float /\ After(l, Tile).size = l.size /\ After(l, Tile).pos = None
           /\ \A s : /\ After(l, Size(s)).float = l.float /\ After(l, Size(s)).size = s
                     /\ After(l, Size(s)).pos = l.pos
           /\ \A p : /\ After(l, Place(p)).float = l.float /\ After(l, Place(p)).size = l.size
                     /\ l.float => After(l, Place(p)).pos = Placed[p]
           /\ After(l, Shift).float = l.float /\ After(l, Shift).size = l.size
           /\ l.float => After(l, Shift).pos = Shifted[l.pos]
<1>1. /\ After(l, Float).float /\ After(l, Float).size = l.size
      /\ l.float => After(l, Float).pos = l.pos
      /\ ~l.float => After(l, Float).pos = FloatSpot
  <2>1. CASE l.float
    BY <2>1, AfterDoes
  <2>2. CASE ~l.float
    <3>1. PICK m : m = After(l, Float)
      OBVIOUS
    <3>2. m = [float |-> TRUE, size |-> l.size, pos |-> FloatSpot]
      BY <2>2, <3>1, AfterDoes
    <3>3. m.float /\ m.size = l.size /\ m.pos = FloatSpot
      BY <3>2
    <3> QED  BY <2>2, <3>1, <3>3
  <2> QED  BY <2>1, <2>2
<1>2. ~After(l, Tile).float /\ After(l, Tile).size = l.size /\ After(l, Tile).pos = None
  <2>1. PICK m : m = After(l, Tile)
    OBVIOUS
  <2>2. m = [float |-> FALSE, size |-> l.size, pos |-> None]
    BY <2>1, AfterDoes
  <2> QED  BY <2>1, <2>2
<1>3. ASSUME NEW s
      PROVE  /\ After(l, Size(s)).float = l.float /\ After(l, Size(s)).size = s
             /\ After(l, Size(s)).pos = l.pos
  BY AfterDoes
<1>4. ASSUME NEW p
      PROVE  /\ After(l, Place(p)).float = l.float /\ After(l, Place(p)).size = l.size
             /\ l.float => After(l, Place(p)).pos = Placed[p]
  BY AfterDoes
<1>5. /\ After(l, Shift).float = l.float /\ After(l, Shift).size = l.size
      /\ l.float => After(l, Shift).pos = Shifted[l.pos]
  BY AfterDoes
<1> QED  BY <1>1, <1>2, <1>3, <1>4, <1>5

\* Layout l floats with size n where the engine cannot tell it from p, or is tiled with
\* size n.
Afloat(l, n, p) == l \in Layout /\ l.float /\ l.size = n /\ Region(l.pos) = Region(p)
Tiled(l, n) == l \in Layout /\ ~l.float /\ l.size = n /\ l.pos = None

\* Where the sequences of actions that the engine asks for lead.
LEMMA Shapes ==
    ASSUME NEW l \in Layout, NEW s \in AllSizes, NEW p \in AllSpots
    PROVE  /\ Final(l, <<>>) = l
           /\ l.float => Final(l, <<Float>>) = l
           /\ ~l.float => Afloat(Final(l, <<Float>>), l.size, FloatSpot)
           /\ l.float => Afloat(Final(l, <<Size(s)>>), s, l.pos)
           /\ l.float => Afloat(Final(l, <<Place(p)>>), l.size, p)
           /\ l.float => Afloat(Final(l, <<Shift>>), l.size, Shifted[l.pos])
           /\ l.float => Afloat(Final(l, <<Size(s), Place(p)>>), s, p)
           /\ Afloat(Final(l, <<Float, Size(s), Place(p)>>), s, p)
           /\ Tiled(Final(l, <<Tile, Size(s)>>), s)
<1>1. Final(l, <<>>) = l
  BY FinalOf
<1>2. /\ \A k \in Layout, a \in Act : After(k, a) \in Layout
      /\ Float \in Act /\ Tile \in Act /\ Shift \in Act /\ Size(s) \in Act /\ Place(p) \in Act
  BY AfterDoes, ActTypes
<1>3. /\ l.float => After(l, Float) = l
      /\ ~l.float => Afloat(After(l, Float), l.size, FloatSpot)
  BY <1>2, AfterFields, AfterDoes DEF Afloat
<1>4. l.float => Afloat(After(l, Size(s)), s, l.pos)
  <2>1. PICK m \in Layout : /\ m = After(l, Size(s)) /\ m.float = l.float
                            /\ m.size = s /\ m.pos = l.pos
    BY <1>2, AfterFields
  <2>2. l.float => m.float
    BY <2>1
  <2> QED  BY <2>1, <2>2 DEF Afloat
<1>5. ASSUME NEW k \in Layout, k.float
      PROVE  /\ Afloat(After(k, Place(p)), k.size, p)
             /\ Afloat(After(k, Shift), k.size, Shifted[k.pos])
  <2>1. PICK m : m = After(k, Place(p)) /\ m \in Layout
    BY <1>2
  <2>2. m = [float |-> k.float, size |-> k.size, pos |-> Placed[p]]
    BY <1>5, <2>1, AfterDoes
  <2>3. m.float /\ m.size = k.size /\ Region(m.pos) = Region(p)
    BY <1>5, <2>2, PlacedStays
  <2>4. PICK n : n = After(k, Shift) /\ n \in Layout
    BY <1>2
  <2>5. n = [float |-> k.float, size |-> k.size, pos |-> Shifted[k.pos]]
    BY <1>5, <2>4, AfterDoes
  <2>6. n.float /\ n.size = k.size /\ n.pos = Shifted[k.pos]
    BY <1>5, <2>5
  <2> QED  BY <2>1, <2>3, <2>4, <2>6 DEF Afloat
<1>6. /\ l.float => Afloat(After(l, Place(p)), l.size, p)
      /\ l.float => Afloat(After(l, Shift), l.size, Shifted[l.pos])
  BY <1>5
<1>7. ASSUME NEW k \in Layout, k.float PROVE Afloat(After(After(k, Size(s)), Place(p)), s, p)
  <2>1. PICK m \in Layout : m = After(k, Size(s)) /\ m.float = k.float /\ m.size = s
    BY <1>2, AfterFields
  <2>2. m.float
    BY <1>7, <2>1
  <2>3. Afloat(After(m, Place(p)), m.size, p)
    BY <1>5, <2>2
  <2> QED  BY <2>1, <2>3
<1>8. PICK k \in Layout : k = After(l, Float) /\ k.float
  BY <1>2, AfterFields
<1>9. Afloat(After(After(After(l, Float), Size(s)), Place(p)), s, p)
  BY <1>7, <1>8
<1>10. Tiled(After(After(l, Tile), Size(s)), s)
  <2>1. PICK q \in Layout : q = After(l, Tile) /\ ~q.float /\ q.pos = None
    BY <1>2, AfterFields
  <2>2. PICK m \in Layout :
           m = After(q, Size(s)) /\ m.float = q.float /\ m.size = s /\ m.pos = q.pos
    BY <1>2, AfterFields
  <2>3. ~m.float /\ m.pos = None
    BY <2>1, <2>2
  <2> QED  BY <2>1, <2>2, <2>3 DEF Tiled
<1>11. /\ l.float => Afloat(Final(l, <<Size(s), Place(p)>>), s, p)
       /\ Afloat(Final(l, <<Float, Size(s), Place(p)>>), s, p)
       /\ Tiled(Final(l, <<Tile, Size(s)>>), s)
  <2>1. PICK a, b, c, d : a = Float /\ b = Size(s) /\ c = Place(p) /\ d = Tile
    OBVIOUS
  <2>2. /\ Final(l, <<b, c>>) = After(After(l, b), c)
        /\ Final(l, <<d, b>>) = After(After(l, d), b)
        /\ Final(l, <<a, b, c>>) = After(After(After(l, a), b), c)
    BY DEF Final
  <2>3. /\ Final(l, <<Size(s), Place(p)>>) = After(After(l, Size(s)), Place(p))
        /\ Final(l, <<Tile, Size(s)>>) = After(After(l, Tile), Size(s))
        /\ Final(l, <<Float, Size(s), Place(p)>>)
             = After(After(After(l, Float), Size(s)), Place(p))
    BY <2>1, <2>2
  <2> QED  BY <1>7, <1>9, <1>10, <2>1, <2>2, <2>3
<1>12. /\ Final(l, <<Float>>) = After(l, Float) /\ Final(l, <<Size(s)>>) = After(l, Size(s))
       /\ Final(l, <<Place(p)>>) = After(l, Place(p)) /\ Final(l, <<Shift>>) = After(l, Shift)
  BY FinalOf
<1> QED  BY <1>1, <1>3, <1>4, <1>6, <1>11, <1>12

\* What resizing and placing a floating window as another one leads to.
LEMMA LandedIs ==
    ASSUME NEW l \in Layout, l.float, NEW b \in Layout
    PROVE  /\ b.float => Final(l, <<Size(b.size), Place(b.pos)>>) = Landed(b)
           /\ ~b.float => Landed(b) = b
<1>1. CASE b.float
  <2>1. PICK s \in AllSizes, p \in AllSpots :
           s = b.size /\ p = b.pos /\ b = [float |-> b.float, size |-> s, pos |-> p]
    BY <1>1, LayoutTypes
  <2>2. Landed(b) = [float |-> b.float, size |-> s, pos |-> Placed[p]]
    BY <1>1, <2>1, AfterDoes DEF Landed
  <2>3. PICK m \in Layout : m = After(l, Size(s)) /\ m.float /\ m.size = s
    <3>1. (\A k \in Layout, a \in Act : After(k, a) \in Layout) /\ Size(s) \in Act
      BY AfterDoes, ActTypes
    <3> QED  BY <3>1, AfterFields
  <2>4. After(m, Place(p)) = [float |-> m.float, size |-> s, pos |-> Placed[p]]
    BY <2>3, AfterDoes
  <2>5. m.float = TRUE /\ b.float = TRUE
    BY <1>1, <2>3, LayoutTypes
  <2>6. Final(l, <<Size(s), Place(p)>>) = After(m, Place(p))
    <3>1. Final(l, <<Size(s), Place(p)>>) = After(After(l, Size(s)), Place(p))
      <4>1. PICK a, b1 : a = Size(s) /\ b1 = Place(p)
        OBVIOUS
      <4>2. Final(l, <<a, b1>>) = After(After(l, a), b1)
        BY DEF Final
      <4> QED  BY <4>1, <4>2
    <3> QED  BY <2>3, <3>1
  <2> QED  BY <1>1, <2>1, <2>2, <2>3, <2>4, <2>5, <2>6
<1>2. CASE ~b.float
  BY <1>2, AfterDoes DEF Landed
<1> QED  BY <1>1, <1>2

LEMMA NoTiles ==
    ASSUME NEW s, NEW p
    PROVE  /\ NoTile(<<>>) /\ NoTile(<<Float>>) /\ NoTile(<<Size(s)>>) /\ NoTile(<<Place(p)>>)
           /\ NoTile(<<Shift>>) /\ NoTile(<<Size(s), Place(p)>>)
           /\ NoTile(<<Float, Size(s), Place(p)>>)
<1>1. Float # Tile /\ Size(s) # Tile /\ Place(p) # Tile /\ Shift # Tile
  BY DEF Float, Size, Place, Shift, Tile
<1>2. PICK a, b, c, d, e : a = Float /\ b = Size(s) /\ c = Place(p) /\ d = Shift /\ e = Tile
  OBVIOUS
<1> QED  BY <1>1, <1>2 DEF NoTile

-------------------------------------------------------------------------------
(* What holds when everyone waits for the last action to come back *)

\* One event is under way and it tells of the layout as it is.
Fresh == work = <<>> /\ loop = <<>> /\ Len(queue) = 1 /\ queue[1].layout = real
\* It will make the engine learn or act.
Moved == Fresh /\ ~suppressed /\ (queue[1].type = "layout" \/ ~real.float)

\* One at a time: a request, the reaction to an event, an event of the world.
TurnInv ==
    /\ Len(work) <= 3 /\ Len(loop) <= 3
    /\ work = <<>> \/ loop = <<>>
    /\ link = "off" => work = <<>> /\ loop = <<>> /\ queue = <<>>
    /\ seen = None => t = Untracked /\ ~ignored /\ work = <<>> /\ loop = <<>> /\ ~suppressed
    /\ link = "on" /\ seen = None => Fresh /\ queue[1].type # "layout"
    /\ work # <<>> => suppressed \/ t.mode = "none"
    /\ ~suppressed /\ t.mode # "none" => Fresh \/ (queue = <<>> /\ Len(loop) <= 1)
    /\ t.mode = "none" => loop = <<>>

\* What is tracked floats, or the engine is about to hear that it does not.
QueueFloats == \A i \in 1..Len(queue) : queue[i].layout.float
Floats ==
    /\ real.float \/ (Acts # <<>> /\ Acts[1] = Float)
    /\ NoTile(Acts)
FloatInv ==
    /\ t.mode # "none" => \/ Floats /\ QueueFloats
                          \/ IsAuto /\ Moved /\ queue[1].type = "changed" /\ ~real.float
    /\ IsPip /\ t.mode = "none" /\ seen # None =>
         /\ real.float /\ QueueFloats /\ NoTile(work)
         /\ \A i \in 1..Len(queue) : queue[i].type # "layout" => Fresh
    /\ IsPip /\ seen = None /\ ~real.float => profile = None
    /\ IsPip /\ t.origin # None => t.origin.float
    /\ ~IsPip => ~IsAuto /\ profile = None

\* What the engine remembers of an automatic PiP agrees with itself, and the window
\* is there or is being brought there.
Agreed ==
    IsAuto => /\ t.managed # None
              /\ Locked => t.lock.size = t.managed
              /\ profile # None => profile.size = t.managed
              /\ Locked /\ profile # None => Matches(profile, t.lock)
Reached ==
    /\ Locked => Matches(End, t.lock)
    /\ IsAuto => End.size = t.managed
    /\ IsAuto /\ ~Locked /\ profile # None => Matches(End, profile)
\* What a peek returns to is what is locked and learned.
Lent ==
    /\ Locked => Matches(t.peek.geom, t.lock)
    /\ IsAuto => t.peek.managed = t.peek.geom.size
    /\ IsAuto /\ profile # None => Matches(profile, t.peek.geom)
GoalInv ==
    /\ Governed => Agreed /\ (~Moved => Reached)
    /\ Peeking => Lent

\* What is to be restored is where the actions lead.
BaseInv ==
    base # None =>
      IF Peeking THEN base.float /\ Is(base, t.peek.geom)
      ELSE /\ End = Landed(base) /\ loop = <<>>
           /\ t.mode # "none" /\ ~suppressed /\ queue # <<>> => queue[1].type = "snapshot"

IInv == TurnInv /\ FloatInv /\ GoalInv /\ BaseInv

LEMMA ClientQuiet ==
    ASSUME TypeOK, TypeOK', CacheInv, IInv, Patient, Client
    PROVE  /\ link = "on" /\ queue = <<>> /\ work = <<>> /\ loop = <<>> /\ ~suppressed
           /\ real \in Layout /\ seen = real /\ UNCHANGED <<real, queue, link, loop>>
           /\ seen' # None /\ End = real /\ End' = Final(real, work') /\ End' \in Layout
           /\ ~Moved /\ ~Moved'
           /\ t.mode # "none" \/ IsPip => real.float
           /\ Governed => Agreed /\ Reached
<1>1. /\ Settled /\ ~suppressed /\ real \in Layout /\ seen \in Layout
      /\ UNCHANGED <<real, queue, link, loop>>
  BY ClientDoes DEF TypeOK
<1>2. link = "on" /\ queue = <<>> /\ work = <<>> /\ loop = <<>>
  BY <1>1 DEF Settled, Quiet
<1>3. seen = real
  BY <1>1, <1>2 DEF CacheInv, Newest
<1>4. seen' # None
  <2>1. seen' = seen \/ \E s \in AllSizes : seen' = [seen EXCEPT !.size = s]
    BY ClientDoes
  <2>2. \A s \in AllSizes : [seen EXCEPT !.size = s] \in Layout
    BY <1>1, SeenSized
  <2> QED  BY <1>1, <2>1, <2>2, ConstantTypes
<1>5. End = real
  BY <1>1, <1>2, FinalOf DEF End, Acts
<1>6. End' = Final(real, work')
  BY <1>1, <1>2 DEF End, Acts
<1>7. End' \in Layout
  <2>1. work' \in Seq(Act)
    BY DEF TypeOK
  <2> QED  BY <1>1, <1>6, <2>1, FinalTypes
<1>8. ~Moved /\ ~Moved'
  <2>1. Len(queue) = 0 /\ Len(queue') = 0
    BY <1>1, <1>2
  <2> QED  BY <2>1 DEF Moved, Fresh
<1>9. t.mode # "none" \/ IsPip => real.float
  <2>1. seen # None /\ Acts = <<>>
    BY <1>1, <1>2, ConstantTypes DEF Acts
  <2> QED  BY <1>8, <2>1 DEF IInv, FloatInv, Floats
<1>10. Governed => Agreed /\ Reached
  BY <1>8 DEF IInv, GoalInv
<1> QED  BY <1>1, <1>2, <1>3, <1>4, <1>5, <1>6, <1>7, <1>8, <1>9, <1>10

LEMMA ClientTurn ==
    ASSUME TypeOK, TypeOK', CacheInv, IInv, Patient, Client,
           Len(work') <= 3, work' = <<>> \/ suppressed' \/ t'.mode = "none"
    PROVE  TurnInv'
<1>1. /\ link' = "on" /\ queue' = <<>> /\ loop' = <<>> /\ seen' # None
  BY ClientQuiet
<1>2. Len(loop') = 0
  BY <1>1
<1> QED  BY <1>1, <1>2 DEF TurnInv

LEMMA ClientFloat ==
    ASSUME TypeOK, TypeOK', CacheInv, IInv, Patient, Client,
           t'.mode # "none" => /\ real.float \/ (work' # <<>> /\ work'[1] = Float)
                               /\ NoTile(work'),
           IsPip => NoTile(work') /\ (t'.origin # None => t'.origin.float),
           ~IsPip => t'.mode # "auto" /\ profile' = None
    PROVE  FloatInv'
<1>1. /\ queue' = <<>> /\ loop' = <<>> /\ loop = <<>> /\ seen' # None /\ real' = real
      /\ IsPip => real.float
  BY ClientQuiet
<1>2. Acts' = work' /\ Len(queue') = 0
  BY <1>1 DEF Acts
<1>3. QueueFloats' /\ \A i \in 1..Len(queue') : queue'[i].type # "layout" => Fresh'
  BY <1>2 DEF QueueFloats
<1>4. t'.mode # "none" => Floats'
  BY <1>1, <1>2 DEF Floats
<1> QED  BY <1>1, <1>3, <1>4 DEF FloatInv, IsAuto

LEMMA ClientGoal ==
    ASSUME TypeOK, TypeOK', CacheInv, IInv, Patient, Client,
           t'.mode # "none" /\ t'.peek = None => Agreed' /\ Reached',
           t'.peek # None => Lent'
    PROVE  GoalInv'
  BY DEF GoalInv, Governed, Peeking

LEMMA ClientBase ==
    ASSUME TypeOK, TypeOK', CacheInv, IInv, Patient, Client,
           base' # None => IF t'.peek # None THEN base'.float /\ Is(base', t'.peek.geom)
                           ELSE End' = Landed(base')
    PROVE  BaseInv'
<1>1. queue' = <<>> /\ loop' = <<>>
  BY ClientQuiet
<1> QED  BY <1>1 DEF BaseInv, Peeking

LEMMA PinKeeps ==
    ASSUME TypeOK, CacheInv, IInv, Patient, Pin
    PROVE  IInv'
<1>1. /\ TypeOK' /\ Client /\ t'.mode = "pin" /\ t'.lock = None /\ t'.peek = None
      /\ t'.origin = seen
  BY PinDoes DEF Client, Fields
<1>2. /\ work' = (IF real.float THEN <<>> ELSE <<Float>>) /\ suppressed' /\ base' = None
      /\ profile' = profile
  BY <1>1, ClientQuiet DEF Pin, Request, FloatIf
<1>3. TurnInv'
  BY <1>1, <1>2, ClientTurn
<1>4. NoTile(work') /\ (real.float \/ (work' # <<>> /\ work'[1] = Float))
  BY <1>2, NoTiles
<1>5. FloatInv'
  <2>1. ~IsPip => profile' = None
    BY <1>2 DEF IInv, FloatInv
  <2> QED  BY <1>1, <1>4, <2>1, ClientFloat, ClientQuiet
<1>6. GoalInv'
  <2>1. Agreed' /\ Reached'
    BY <1>1 DEF Agreed, Reached, IsAuto, Locked
  <2> QED  BY <1>1, <2>1, ClientGoal
<1>7. BaseInv'
  BY <1>1, <1>2, ClientBase
<1> QED  BY <1>3, <1>5, <1>6, <1>7 DEF IInv

LEMMA OverlayKeeps ==
    ASSUME TypeOK, CacheInv, IInv, Patient, Overlay
    PROVE  IInv' /\ Afloat(End', OverlaySize, OverlaySpot)
<1>1. /\ TypeOK' /\ Client /\ t'.mode = "overlay" /\ t'.peek = None
      /\ t'.origin = (IF t.mode = "none" THEN seen ELSE t.origin)
  BY OverlayDoes DEF Client
<1>2. t.lock = None => t'.lock = None
  BY OverlayDoes DEF Locked
<1>3. t.lock # None => t'.lock.size = OverlaySize /\ t'.lock.pos = OverlaySpot
  <2> SUFFICES ASSUME t.lock # None
               PROVE  t'.lock.size = OverlaySize /\ t'.lock.pos = OverlaySpot
    OBVIOUS
  <2>1. t'.lock = [size |-> OverlaySize, pos |-> OverlaySpot]
    BY OverlayDoes DEF Locked
  <2> QED  BY <2>1
<1>4. /\ work' = (IF real.float THEN <<Size(OverlaySize), Place(OverlaySpot)>>
                  ELSE <<Float, Size(OverlaySize), Place(OverlaySpot)>>)
      /\ suppressed' /\ base' = None /\ profile' = profile
  <2>1. work' = FloatIf(real) \o <<Size(OverlaySize), Place(OverlaySpot)>> /\ real \in Layout
    BY <1>1, ClientQuiet DEF Overlay, Request
  <2> QED  BY <2>1, FloatFirst, ConstantTypes DEF Overlay
<1>5. TurnInv'
  BY <1>1, <1>4, ClientTurn
<1>6. NoTile(work') /\ (real.float \/ (work' # <<>> /\ work'[1] = Float))
  BY <1>4, NoTiles
<1>7. FloatInv'
  <2>1. ~IsPip => profile' = None
    BY <1>4 DEF IInv, FloatInv
  <2>2. IsPip /\ t'.origin # None => t'.origin.float
    BY <1>1, ClientQuiet DEF IInv, FloatInv
  <2> QED  BY <1>1, <1>6, <2>1, <2>2, ClientFloat
<1>8. Afloat(End', OverlaySize, OverlaySpot)
  <2>1. real \in Layout /\ End' = Final(real, work')
    BY <1>1, ClientQuiet
  <2>2. CASE real.float
    BY <1>4, <2>1, <2>2, Shapes, ConstantTypes
  <2>3. CASE ~real.float
    BY <1>4, <2>1, <2>3, Shapes, ConstantTypes
  <2> QED  BY <2>2, <2>3
<1>9. GoalInv'
  <2>1. Agreed' /\ Reached'
    BY <1>1, <1>2, <1>3, <1>8 DEF Agreed, Reached, IsAuto, Locked, Matches, Afloat
  <2> QED  BY <1>1, <2>1, ClientGoal
<1>10. BaseInv'
  BY <1>1, <1>4, ClientBase
<1> QED  BY <1>5, <1>7, <1>8, <1>9, <1>10 DEF IInv

LEMMA UnpinKeeps ==
    ASSUME TypeOK, CacheInv, IInv, Patient, Unpin
    PROVE  IInv'
<1>1. /\ TypeOK' /\ Client /\ t' = Untracked /\ t \in Tracked /\ t.mode # "none"
      /\ profile' = profile
  BY UnpinDoes DEF Client, Unpin
<1>2. t'.mode = "none" /\ t'.peek = None /\ t'.origin = None
  BY <1>1, UntrackedFields DEF Fields
<1>3. /\ real.float /\ real \in Layout /\ seen = real /\ End = real
      /\ End' = Final(real, work') /\ End' \in Layout
  BY <1>1, ClientQuiet
<1>4. work' = UnpinActs
  BY DEF Unpin, Request
<1>5. /\ Len(work') <= 3 /\ (IsPip => NoTile(work'))
      /\ base' # None => End' = Landed(base')
  <2>1. CASE IsAuto /\ ~Peeking
    <3>1. work' = <<>> /\ base' = base
      BY <1>4, <2>1 DEF UnpinActs, Unpin
    <3>2. End' = real
      BY <1>3, <3>1, Shapes, FinalOf
    <3>3. base # None => End = Landed(base)
      BY <2>1 DEF IInv, BaseInv
    <3>4. NoTile(work')
      BY <3>1, NoTiles
    <3>5. Len(work') <= 3
      BY <3>1
    <3> QED  BY <1>3, <3>1, <3>2, <3>3, <3>4, <3>5
  <2>2. CASE IsAuto /\ Peeking
    <3>1. t.peek.geom \in Geom /\ t.peek.geom.size \in AllSizes /\ t.peek.geom.pos \in AllSpots
      BY <1>1, <2>2, EntryTypes DEF Peeking, Peek, Geom
    <3>2. work' = <<Size(t.peek.geom.size), Place(t.peek.geom.pos)>> /\ base' = base
      BY <1>4, <2>2 DEF UnpinActs, Unpin, Show
    <3>3. Afloat(End', t.peek.geom.size, t.peek.geom.pos)
      BY <1>3, <3>1, <3>2, Shapes
    <3>4. base # None => base \in Layout /\ base.float /\ Is(base, t.peek.geom)
      BY <2>2 DEF IInv, BaseInv, TypeOK
    <3>5. base # None => End' = Landed(base)
      BY <1>3, <3>2, <3>4, LandedIs DEF Is
    <3>6. NoTile(work')
      BY <3>2, NoTiles
    <3>7. Len(work') <= 3
      BY <3>2
    <3> QED  BY <3>2, <3>5, <3>6, <3>7
  <2>3. CASE ~IsAuto /\ ~RestoreLayout
    <3>1. work' = <<>> /\ base' = None
      BY <1>4, <2>3 DEF UnpinActs, Unpin
    <3>2. NoTile(work')
      BY <3>1, NoTiles
    <3>3. Len(work') <= 3
      BY <3>1
    <3> QED  BY <3>1, <3>2, <3>3
  <2>4. CASE ~IsAuto /\ RestoreLayout
    <3>1. t.origin \in Layout /\ t.origin.size \in AllSizes /\ base' = t.origin
      BY <1>1, <2>4, EntryTypes, LayoutTypes DEF IsAuto, Unpin
    <3>2. CASE t.origin.float
      <4>1. /\ t.origin.pos \in AllSpots /\ GeomOf(t.origin) # None
            /\ GeomOf(t.origin) = [size |-> t.origin.size, pos |-> t.origin.pos]
        BY <3>1, <3>2, LayoutTypes, GeomTypes, ConstantTypes
      <4>2. Show(GeomOf(t.origin)) = <<Size(t.origin.size), Place(t.origin.pos)>>
        BY <4>1 DEF Show
      <4>3. <<Size(t.origin.size), Place(t.origin.pos)>> \in Seq(Act)
        BY <1>3, <3>1, <4>1, FloatFirst
      <4>4. work' = <<Size(t.origin.size), Place(t.origin.pos)>>
        <5>1. work' = FloatIf(real) \o <<Size(t.origin.size), Place(t.origin.pos)>>
          BY <1>3, <1>4, <2>4, <3>2, <4>1, <4>2 DEF UnpinActs
        <5> QED  BY <1>3, <3>1, <4>1, <5>1, FloatFirst
      <4>5. Afloat(End', t.origin.size, t.origin.pos)
        BY <1>3, <3>1, <4>1, <4>4, Shapes
      <4>6. End' = Landed(t.origin)
        BY <1>3, <3>1, <3>2, <4>4, LandedIs
      <4>7. NoTile(work')
        BY <4>4, NoTiles
      <4>8. Len(work') <= 3
        BY <4>4
      <4> QED  BY <3>1, <4>6, <4>7, <4>8
    <3>3. CASE ~t.origin.float
      <4>1. work' = <<Tile, Size(t.origin.size)>>
        BY <1>4, <2>4, <3>3 DEF UnpinActs
      <4>2. Tiled(End', t.origin.size) /\ t.origin.pos = None
        BY <1>3, <3>1, <3>3, <4>1, Shapes, LayoutTypes, ConstantTypes
      <4>5. Landed(t.origin) = t.origin /\ End' = t.origin
        BY <1>3, <3>1, <3>3, <4>2, LandedIs, LayoutEq, LayoutTypes DEF Tiled
      <4>3. End' = Landed(t.origin)
        BY <1>3, <3>1, <3>3, <4>2, <4>5 DEF Tiled
      <4>4. ~IsPip
        BY <3>1, <3>3, ConstantTypes DEF IInv, FloatInv
      <4> QED  BY <3>1, <4>1, <4>3, <4>4
    <3> QED  BY <3>2, <3>3
  <2> QED  BY <2>1, <2>2, <2>3, <2>4
<1>6. TurnInv'
  BY <1>1, <1>2, <1>5, ClientTurn
<1>7. FloatInv'
  <2>1. ~IsPip => profile' = None
    BY <1>1 DEF IInv, FloatInv
  <2> QED  BY <1>1, <1>2, <1>5, <2>1, ClientFloat
<1>8. GoalInv'
  BY <1>1, <1>2, ClientGoal
<1>9. BaseInv'
  BY <1>1, <1>2, <1>5, ClientBase
<1> QED  BY <1>6, <1>7, <1>8, <1>9 DEF IInv

\* What a request with a tracked window finds.
LEMMA TrackedQuiet ==
    ASSUME TypeOK, TypeOK', CacheInv, IInv, Patient, Client, t.mode # "none"
    PROVE  /\ real \in Layout /\ real.float /\ real.size \in AllSizes /\ real.pos \in AllSpots
           /\ seen = real /\ End = real /\ End' = Final(real, work') /\ End' \in Layout
           /\ t.corner \in AllSpots /\ GeomOr(seen, t.corner).size = real.size
           /\ GeomOr(seen, t.corner).pos = real.pos
           /\ ~IsPip => ~IsAuto /\ profile = None
           /\ IsPip /\ t.origin # None => t.origin.float
           /\ t.peek = None => Agreed /\ Reached
           /\ t.peek # None => Lent
           /\ base # None => IF t.peek # None THEN base.float /\ Is(base, t.peek.geom)
                             ELSE End = Landed(base)
<1>1. /\ real \in Layout /\ real.float /\ seen = real /\ End = real
      /\ End' = Final(real, work') /\ End' \in Layout
      /\ t.peek = None => Agreed /\ Reached
  BY ClientQuiet DEF Governed, Peeking
<1>2. real.size \in AllSizes /\ real.pos \in AllSpots
  BY <1>1, LayoutTypes
<1>3. t.corner \in AllSpots
  BY EntryTypes DEF TypeOK
<1>4. GeomOr(seen, t.corner) = [size |-> real.size, pos |-> real.pos]
  BY <1>1, <1>3, GeomTypes
<1>5. /\ ~IsPip => ~IsAuto /\ profile = None
      /\ IsPip /\ t.origin # None => t.origin.float
      /\ t.peek # None => Lent
      /\ base # None => IF t.peek # None THEN base.float /\ Is(base, t.peek.geom)
                        ELSE End = Landed(base)
  BY DEF IInv, FloatInv, GoalInv, BaseInv, Peeking
<1> QED  BY <1>1, <1>2, <1>3, <1>4, <1>5

\* A request that moves and resizes a tracked window.
LEMMA TrackedKeeps ==
    ASSUME TypeOK, TypeOK', CacheInv, IInv, Patient, Client, t.mode # "none",
           t'.mode = t.mode, t'.origin = t.origin, ~IsAuto => profile' = profile,
           NoTile(work'), Len(work') <= 3, work' = <<>> \/ suppressed',
           t'.peek = None => Agreed' /\ Reached',
           t'.peek # None => Lent',
           base' # None => IF t'.peek # None THEN base'.float /\ Is(base', t'.peek.geom)
                           ELSE End' = Landed(base')
    PROVE  IInv'
<1>1. TurnInv'
  BY ClientTurn
<1>2. FloatInv'
  BY TrackedQuiet, ClientFloat DEF IsAuto
<1>3. GoalInv' /\ BaseInv'
  BY ClientGoal, ClientBase
<1> QED  BY <1>1, <1>2, <1>3 DEF IInv

LEMMA PeekOnKeeps ==
    ASSUME TypeOK, CacheInv, IInv, Patient, PeekOn
    PROVE  IInv'
<1>1. /\ TypeOK' /\ Client /\ t.mode # "none" /\ t.peek = None
      /\ t'.mode = t.mode /\ t'.lock = t.lock /\ t'.origin = t.origin /\ t'.peek # None
      /\ t'.peek.geom = GeomOr(seen, t.corner) /\ t'.peek.managed = t.managed
  BY PeekOnDoes DEF Client, PeekOn
<1>2. /\ work' = <<Size(PeekSize), Place(PeekSpot)>> /\ suppressed' /\ profile' = profile
      /\ base' = (IF real.float THEN real ELSE None)
  BY DEF PeekOn, Request
<1>3. NoTile(work')
  BY <1>2, NoTiles
<1>4. Len(work') <= 3
  BY <1>2
<1>5. /\ real.float /\ t'.peek.geom.size = real.size /\ t'.peek.geom.pos = real.pos
      /\ End = real /\ Agreed /\ Reached
  BY <1>1, TrackedQuiet
<1>6. Lent'
  BY <1>1, <1>2, <1>5 DEF Lent, Agreed, Reached, IsAuto, Locked, Matches
<1> QED  BY <1>1, <1>2, <1>3, <1>4, <1>5, <1>6, TrackedKeeps DEF Is

LEMMA PeekOffKeeps ==
    ASSUME TypeOK, CacheInv, IInv, Patient, PeekOff
    PROVE  IInv'
<1>1. /\ TypeOK' /\ Client /\ t.mode # "none" /\ t.peek # None
      /\ t.peek.geom.size \in AllSizes /\ t.peek.geom.pos \in AllSpots
      /\ t'.mode = t.mode /\ t'.lock = t.lock /\ t'.origin = t.origin /\ t'.peek = None
      /\ t'.managed = t.peek.managed
  BY PeekOffDoes DEF Client, PeekOff, Peeking, Geom
<1>2. /\ work' = <<Size(t.peek.geom.size), Place(t.peek.geom.pos)>>
      /\ suppressed' /\ profile' = profile /\ base' = base
  BY DEF PeekOff, Request, Show
<1>3. NoTile(work')
  BY <1>2, NoTiles
<1>4. Len(work') <= 3
  BY <1>2
<1>5. /\ real \in Layout /\ real.float /\ End' = Final(real, work') /\ End' \in Layout /\ Lent
      /\ base # None => base.float /\ Is(base, t.peek.geom)
  BY <1>1, TrackedQuiet
<1>6. Afloat(End', t.peek.geom.size, t.peek.geom.pos)
  BY <1>1, <1>2, <1>5, Shapes
<1>7. Agreed' /\ Reached'
  BY <1>1, <1>2, <1>5, <1>6, ConstantTypes
     DEF Lent, Agreed, Reached, IsAuto, Locked, Matches, Afloat
<1>8. base' # None => End' = Landed(base')
  <2>1. base # None => base \in Layout
    BY DEF TypeOK
  <2> QED  BY <1>2, <1>5, <2>1, LandedIs DEF Is
<1> QED  BY <1>1, <1>2, <1>3, <1>4, <1>7, <1>8, TrackedKeeps

LEMMA ResizeKeeps ==
    ASSUME TypeOK, CacheInv, IInv, Patient, NEW s \in Sizes, Resize(s)
    PROVE  IInv' /\ Afloat(End', s, real.pos)
<1>1. /\ TypeOK' /\ Client /\ t.mode # "none" /\ t.peek = None
      /\ t'.mode = t.mode /\ t'.managed = s /\ t'.peek = None /\ t'.origin = t.origin
      /\ t.lock = None => t'.lock = None
      /\ t.lock # None => t'.lock.size = s /\ t'.lock.pos = t.lock.pos
      /\ ~IsAuto => profile' = profile
      /\ IsAuto => /\ profile'.size = s
                   /\ profile # None => profile'.pos = profile.pos
                   /\ profile = None => profile'.pos = GeomOr(seen, t.corner).pos
  BY ResizeDoes DEF Client
<1>2. work' = <<Size(s)>> /\ suppressed' /\ base' = None /\ s \in AllSizes
  BY ConstantTypes DEF Resize, Request
<1>3. NoTile(work')
  BY <1>2, NoTiles
<1>4. Len(work') <= 3
  BY <1>2
<1>5. /\ real \in Layout /\ real.float /\ End' = Final(real, work') /\ End = real
      /\ GeomOr(seen, t.corner).pos = real.pos /\ Agreed /\ Reached
  BY <1>1, TrackedQuiet
<1>6. Afloat(End', s, real.pos)
  BY <1>2, <1>5, Shapes, ConstantTypes
<1>7. Agreed' /\ Reached'
  BY <1>1, <1>2, <1>5, <1>6, ConstantTypes DEF Agreed, Reached, IsAuto, Locked, Matches, Afloat
<1> QED  BY <1>1, <1>2, <1>3, <1>4, <1>6, <1>7, TrackedKeeps

LEMMA SetPositionKeeps ==
    ASSUME TypeOK, CacheInv, IInv, Patient, NEW p \in Spots, SetPosition(p)
    PROVE  IInv' /\ Afloat(End', real.size, p)
<1>1. /\ TypeOK' /\ Client /\ t.mode # "none" /\ t.peek = None
      /\ t'.mode = t.mode /\ t'.managed = t.managed /\ t'.peek = None /\ t'.origin = t.origin
      /\ t.lock = None => t'.lock = None
      /\ t.lock # None => t'.lock.size = seen.size /\ t'.lock.pos = p
      /\ ~IsAuto => profile' = profile
      /\ IsAuto => profile'.size = seen.size /\ profile'.pos = p
  BY SetPositionDoes DEF Client
<1>2. work' = <<Place(p)>> /\ suppressed' /\ base' = None /\ p \in AllSpots
  BY ConstantTypes DEF SetPosition, Request
<1>3. NoTile(work')
  BY <1>2, NoTiles
<1>4. Len(work') <= 3
  BY <1>2
<1>5. /\ real \in Layout /\ real.float /\ End' = Final(real, work') /\ End = real /\ seen = real
      /\ Agreed /\ Reached
  BY <1>1, TrackedQuiet
<1>6. Afloat(End', real.size, p)
  BY <1>2, <1>5, Shapes, ConstantTypes
<1>7. Agreed' /\ Reached'
  BY <1>1, <1>2, <1>5, <1>6 DEF Agreed, Reached, IsAuto, Locked, Matches, Afloat
<1> QED  BY <1>1, <1>2, <1>3, <1>4, <1>6, <1>7, TrackedKeeps

LEMMA NudgeKeeps ==
    ASSUME TypeOK, CacheInv, IInv, Patient, Nudge
    PROVE  IInv' /\ Afloat(End', real.size, Shifted[real.pos])
<1>1. TypeOK' /\ Client /\ t.mode # "none" /\ t.peek = None
  BY NudgeDoes DEF Client
<1>2. work' = <<Shift>> /\ suppressed' /\ base' = None
  BY DEF Nudge, Request
<1>3. NoTile(work')
  BY <1>2, NoTiles
<1>4. Len(work') <= 3
  BY <1>2
<1>5. /\ real \in Layout /\ real.float /\ End' = Final(real, work') /\ End = real /\ seen = real
      /\ Agreed /\ Reached
  BY <1>1, TrackedQuiet
<1>6. /\ t'.mode = t.mode /\ t'.managed = t.managed /\ t'.peek = None /\ t'.origin = t.origin
      /\ t.lock = None => t'.lock = None
      /\ t.lock # None => t'.lock.size = real.size /\ t'.lock.pos = Shifted[real.pos]
      /\ ~IsAuto => profile' = profile
      /\ IsAuto => profile'.size = real.size /\ profile'.pos = Shifted[real.pos]
  BY <1>5, NudgeDoes
<1>7. Afloat(End', real.size, Shifted[real.pos])
  BY <1>2, <1>5, Shapes, ConstantTypes
<1>8. Agreed' /\ Reached'
  BY <1>1, <1>2, <1>5, <1>6, <1>7 DEF Agreed, Reached, IsAuto, Locked, Matches, Afloat
<1> QED  BY <1>1, <1>2, <1>3, <1>4, <1>6, <1>7, <1>8, TrackedKeeps

LEMMA LockKeeps ==
    ASSUME TypeOK, CacheInv, IInv, Patient, Lock
    PROVE  IInv'
<1>1. /\ TypeOK' /\ Client /\ t.mode # "none" /\ t.peek = None
      /\ t'.mode = t.mode /\ t'.managed = t.managed /\ t'.peek = None /\ t'.origin = t.origin
      /\ t'.lock = GeomOr(seen, t.corner)
      /\ profile' = (IF IsAuto THEN GeomOr(seen, t.corner) ELSE profile)
  BY LockDoes DEF Client
<1>2. work' = <<>> /\ base' = base
  BY DEF Lock, Request
<1>3. NoTile(work')
  BY <1>2, NoTiles
<1>4. Len(work') <= 3
  BY <1>2
<1>5. /\ real \in Layout /\ real.float /\ End' = Final(real, work') /\ End = real
      /\ t'.lock.size = real.size /\ t'.lock.pos = real.pos
      /\ Agreed /\ Reached /\ (base # None => End = Landed(base))
  BY <1>1, TrackedQuiet
<1>6. End' = real
  BY <1>2, <1>5, FinalOf
<1>7. Agreed' /\ Reached'
  BY <1>1, <1>2, <1>5, <1>6 DEF Agreed, Reached, IsAuto, Locked, Matches
<1> QED  BY <1>1, <1>2, <1>3, <1>4, <1>5, <1>6, <1>7, TrackedKeeps

LEMMA UnlockKeeps ==
    ASSUME TypeOK, CacheInv, IInv, Patient, Unlock
    PROVE  IInv'
<1>1. /\ TypeOK' /\ Client /\ t.mode # "none" /\ t.peek = None
      /\ t'.mode = t.mode /\ t'.managed = t.managed /\ t'.peek = None /\ t'.origin = t.origin
      /\ t'.lock = None
  BY UnlockDoes DEF Client
<1>2. work' = <<>> /\ base' = base /\ profile' = profile
  BY DEF Unlock, Request
<1>3. NoTile(work')
  BY <1>2, NoTiles
<1>4. Len(work') <= 3
  BY <1>2
<1>5. /\ real \in Layout /\ End' = Final(real, work') /\ End = real
      /\ Agreed /\ Reached /\ (base # None => End = Landed(base))
  BY <1>1, TrackedQuiet
<1>6. End' = real
  BY <1>2, <1>5, FinalOf
<1>7. Agreed' /\ Reached'
  BY <1>1, <1>2, <1>5, <1>6 DEF Agreed, Reached, IsAuto, Locked, Matches
<1> QED  BY <1>1, <1>2, <1>3, <1>4, <1>5, <1>6, <1>7, TrackedKeeps

LEMMA ResetGeometryKeeps ==
    ASSUME TypeOK, CacheInv, IInv, Patient, ResetGeometry
    PROVE  IInv'
<1>1. /\ TypeOK' /\ Client /\ t.mode # "none" /\ t.peek = None
      /\ t'.mode = t.mode /\ t'.managed = (IF IsAuto THEN PipSize ELSE t.managed)
      /\ t'.peek = None /\ t'.origin = t.origin /\ t'.lock = None
  BY ResetGeometryDoes DEF Client
<1>2. /\ real \in Layout /\ real.float /\ End' = Final(real, work') /\ End = real
      /\ Agreed /\ Reached /\ (base # None => End = Landed(base))
  BY <1>1, TrackedQuiet
<1>3. CASE IsAuto
  <2>1. /\ work' = <<Size(PipSize), Place(PipSpot)>> /\ suppressed' /\ base' = None
        /\ profile'.size = PipSize /\ profile'.pos = PipSpot
    BY <1>3, ResetGeometryDoes DEF ResetGeometry, Request
  <2>2. NoTile(work')
    BY <2>1, NoTiles
  <2>3. Len(work') <= 3
    BY <2>1
  <2>4. Afloat(End', PipSize, PipSpot)
    BY <1>2, <2>1, Shapes, ConstantTypes
  <2>5. Agreed' /\ Reached'
    BY <1>1, <1>3, <2>1, <2>4, ConstantTypes DEF Agreed, Reached, IsAuto, Locked, Matches, Afloat
  <2> QED  BY <1>1, <1>3, <2>1, <2>2, <2>3, <2>5, TrackedKeeps
<1>4. CASE ~IsAuto
  <2>1. work' = <<>> /\ UNCHANGED <<seen, profile, controls, suppressed, base>>
    BY <1>4 DEF ResetGeometry, Request
  <2>2. NoTile(work')
    BY <2>1, NoTiles
  <2>3. Len(work') <= 3
    BY <2>1
  <2>4. End' = real
    BY <1>2, <2>1, FinalOf
  <2>5. Agreed' /\ Reached'
    BY <1>1, <1>4 DEF Agreed, Reached, IsAuto, Locked
  <2> QED  BY <1>1, <1>2, <2>1, <2>2, <2>3, <2>4, <2>5, TrackedKeeps
<1> QED  BY <1>3, <1>4

LEMMA ResetLearnedKeeps ==
    ASSUME TypeOK, CacheInv, IInv, Patient, ResetLearned
    PROVE  IInv'
<1>1. TypeOK' /\ Client
  BY ResetLearnedDoes DEF Client
<1>2. work' = <<>> /\ profile' = None /\ t' = t /\ base' = base
  BY DEF ResetLearned, Request
<1>3. NoTile(work')
  BY <1>2, NoTiles
<1>4. Len(work') <= 3
  BY <1>2
<1>5. /\ real \in Layout /\ End' = Final(real, work') /\ End = real
      /\ t.mode # "none" => real.float
      /\ Governed => Agreed /\ Reached
  BY <1>1, ClientQuiet
<1>6. End' = real
  BY <1>2, <1>5, FinalOf
<1>7. TurnInv'
  BY <1>1, <1>2, <1>4, ClientTurn
<1>8. FloatInv'
  <2>1. ~IsPip => t'.mode # "auto"
    BY <1>2 DEF IInv, FloatInv, IsAuto
  <2>2. IsPip /\ t'.origin # None => t'.origin.float
    BY <1>2 DEF IInv, FloatInv
  <2> QED  BY <1>1, <1>2, <1>3, <1>5, <2>1, <2>2, ClientFloat
<1>9. GoalInv'
  <2>1. t'.mode # "none" /\ t'.peek = None => Agreed' /\ Reached'
    BY <1>2, <1>5, <1>6 DEF Governed, Peeking, Agreed, Reached, IsAuto, Locked, Matches
  <2>2. t'.peek # None => Lent'
    BY <1>2 DEF IInv, GoalInv, Peeking, Lent, IsAuto, Locked
  <2> QED  BY <1>1, <2>1, <2>2, ClientGoal
<1>10. BaseInv'
  <2>1. base' # None => IF t'.peek # None THEN base'.float /\ Is(base', t'.peek.geom)
                        ELSE End' = Landed(base')
    BY <1>2, <1>5, <1>6 DEF IInv, BaseInv, Peeking
  <2> QED  BY <1>1, <2>1, ClientBase
<1> QED  BY <1>7, <1>8, <1>9, <1>10 DEF IInv

LEMMA StaysAfloat ==
    ASSUME NEW l \in Layout, NEW a \in Act, a = Float \/ (l.float /\ a # Tile)
    PROVE  After(l, a).float
<1>1. \/ a \in {Float, Shift}
      \/ \E s \in AllSizes : a = Size(s)
      \/ \E p \in AllSpots : a = Place(p)
      \/ a = Tile
  BY DEF Act, Float, Tile, Shift, Size, Place
<1>2. a # Tile
  BY DEF Float, Tile
<1>3. CASE a = Float
  BY <1>3, AfterFields
<1>4. CASE a # Float
  <2>1. l.float = TRUE
    BY <1>4, LayoutTypes
  <2>2. After(l, a).float = l.float
    <3>1. CASE a = Shift
      BY <3>1, AfterFields
    <3>2. CASE \E s \in AllSizes : a = Size(s)
      BY <3>2, AfterFields
    <3>3. CASE \E p \in AllSpots : a = Place(p)
      BY <3>3, AfterFields
    <3> QED  BY <1>1, <1>2, <1>4, <3>1, <3>2, <3>3
  <2> QED  BY <2>1, <2>2
<1> QED  BY <1>3, <1>4

\* Executing an action that is under way.
LEMMA ActKeeps ==
    ASSUME TypeOK, TypeOK', IInv, Acts \in Seq(Act), Acts # <<>>, Len(Acts) <= 3,
           LayoutBecomes(After(real, Head(Acts))), Acts' = Tail(Acts),
           UNCHANGED <<link, seen, t, ignored, suppressed, profile, controls, base>>,
           base = None \/ Peeking \/ (loop' = <<>> /\ (suppressed \/ t.mode = "none")),
           t.mode = "none" => (NoTile(work) => NoTile(work')),
           t.mode = "none" => Acts = work
    PROVE  End' = End /\ FloatInv' /\ GoalInv' /\ BaseInv'
<1>1. PICK a \in Act : a = Head(Acts) /\ a = Acts[1]
  OBVIOUS
<1>2. PICK l \in Layout : l = After(real, a)
  BY AfterDoes DEF TypeOK
<1>3. real \in Layout /\ real' = l /\ OutOK
  BY <1>1, <1>2, BecomesDoes, TypeParts DEF TypeOK
<1>4. link = "on"
  BY DEF IInv, TurnInv, Acts, TypeOK
<1>5. ~Moved /\ ~Fresh
  BY DEF Moved, Fresh, Acts
<1>6. End' = End
  BY <1>1, <1>2, <1>3, FinalStep DEF End
<1>7. \/ l = real /\ queue' = queue
      \/ /\ Len(queue') = Len(queue) + 1
         /\ queue'[Len(queue')].layout = l
         /\ queue'[Len(queue')].type = (IF l.float = real.float THEN "layout" ELSE "changed")
         /\ \A i \in 1..Len(queue) : queue'[i] = queue[i]
  BY <1>1, <1>2, <1>3, <1>4, BecomesDoes
<1>8. Len(queue) \in Nat
  BY DEF TypeOK
<1>9. QueueFloats /\ l.float => QueueFloats'
  <2>1. CASE queue' = queue
    BY <2>1 DEF QueueFloats
  <2>2. CASE queue' # queue
    <3>1. \A i \in 1..Len(queue') : i \in 1..Len(queue) \/ i = Len(queue')
      BY <1>7, <1>8, <2>2
    <3> QED  BY <1>7, <2>2, <3>1 DEF QueueFloats
  <2> QED  BY <2>1, <2>2
<1>10. NoTile(Acts) => a # Tile /\ NoTile(Acts')
  <2>1. Len(Acts) \in Nat /\ Len(Acts) >= 1 /\ 1 \in 1..Len(Acts)
    OBVIOUS
  <2>2. /\ Len(Tail(Acts)) = Len(Acts) - 1
        /\ \A i \in 1..(Len(Acts) - 1) : Tail(Acts)[i] = Acts[i + 1] /\ i + 1 \in 1..Len(Acts)
    BY <2>1
  <2> QED  BY <1>1, <2>1, <2>2 DEF NoTile
<1>11. t.mode # "none" => Floats' /\ QueueFloats'
  <2> SUFFICES ASSUME t.mode # "none" PROVE Floats' /\ QueueFloats'
    OBVIOUS
  <2>1. Floats /\ QueueFloats
    BY <1>5 DEF IInv, FloatInv
  <2>2. a = Float \/ (real.float /\ a # Tile)
    BY <1>1, <1>10, <2>1 DEF Floats
  <2>3. l.float
    BY <1>2, <1>3, <2>2, StaysAfloat
  <2> QED  BY <1>3, <1>9, <1>10, <2>1, <2>3 DEF Floats
<1>12. IsPip /\ t.mode = "none" /\ seen # None =>
         /\ real'.float /\ QueueFloats' /\ NoTile(work')
         /\ \A i \in 1..Len(queue') : queue'[i].type # "layout" => Fresh'
  <2> SUFFICES ASSUME IsPip, t.mode = "none", seen # None
               PROVE  /\ real'.float /\ QueueFloats' /\ NoTile(work')
                      /\ \A i \in 1..Len(queue') : queue'[i].type # "layout" => Fresh'
    OBVIOUS
  <2>1. /\ real.float /\ QueueFloats /\ NoTile(work)
        /\ \A i \in 1..Len(queue) : queue[i].type = "layout"
    BY <1>5 DEF IInv, FloatInv
  <2>2. l.float
    BY <1>2, <1>3, <1>10, <2>1, StaysAfloat
  <2>3. l.float = real.float
    BY <1>3, <2>1, <2>2, LayoutTypes
  <2>4. \A i \in 1..Len(queue') : queue'[i].type = "layout"
    <3>1. CASE queue' = queue
      BY <2>1, <3>1
    <3>2. CASE queue' # queue
      <4>1. \A i \in 1..Len(queue') : i \in 1..Len(queue) \/ i = Len(queue')
        BY <1>7, <1>8, <3>2
      <4> QED  BY <1>7, <2>1, <2>3, <3>2, <4>1
    <3> QED  BY <3>1, <3>2
  <2> QED  BY <1>3, <1>9, <2>1, <2>2, <2>4
<1>13. seen # None
  BY DEF IInv, TurnInv, Acts
<1>14. FloatInv'
  <2>1. /\ IsPip /\ t.origin # None => t.origin.float
        /\ ~IsPip => ~IsAuto /\ profile = None
    BY DEF IInv, FloatInv
  <2> QED  BY <1>11, <1>12, <1>13, <2>1 DEF FloatInv, IsAuto
<1>15. GoalInv'
  <2>1. Governed => Agreed /\ Reached
    BY <1>5 DEF IInv, GoalInv
  <2>2. Governed' => Agreed' /\ Reached'
    BY <1>6, <2>1 DEF Governed, Peeking, Agreed, Reached, IsAuto, Locked, Matches
  <2>3. Peeking' => Lent'
    BY DEF IInv, GoalInv, Peeking, Lent, IsAuto, Locked, Matches
  <2> QED  BY <2>2, <2>3 DEF GoalInv
<1>16. BaseInv'
  BY <1>6 DEF IInv, BaseInv, Peeking, Is
<1> QED  BY <1>6, <1>14, <1>15, <1>16

LEMMA WorkKeeps ==
    ASSUME TypeOK, TypeOK', IInv, Work
    PROVE  IInv' /\ End' = End
<1>1. /\ work # <<>> /\ work \in Seq(Act) /\ Len(work) <= 3 /\ loop = <<>> /\ loop' = <<>>
      /\ work' = Tail(work)
      /\ UNCHANGED <<link, seen, t, ignored, suppressed, profile, controls, base>>
      /\ LayoutBecomes(After(real, Head(work)))
      /\ suppressed \/ t.mode = "none"
      /\ link = "on" /\ seen # None
  BY DEF Work, IInv, TurnInv, TypeOK
<1>2. Acts = work /\ Acts' = Tail(work)
  BY <1>1 DEF Acts
<1>3. NoTile(work) => NoTile(work')
  <2>1. Len(work) \in Nat /\ Len(Tail(work)) = Len(work) - 1
    BY <1>1
  <2>2. \A i \in 1..(Len(work) - 1) : Tail(work)[i] = work[i + 1] /\ i + 1 \in 1..Len(work)
    BY <1>1, <2>1
  <2> QED  BY <1>1, <2>1, <2>2 DEF NoTile
<1>4. End' = End /\ FloatInv' /\ GoalInv' /\ BaseInv'
  BY <1>1, <1>2, <1>3, ActKeeps
<1>5. TurnInv'
  <2>1. Len(work') <= 3 /\ Len(loop') <= 3
    BY <1>1
  <2> QED  BY <1>1, <2>1 DEF IInv, TurnInv
<1> QED  BY <1>4, <1>5 DEF IInv

LEMMA LoopActKeeps ==
    ASSUME TypeOK, TypeOK', IInv, LoopAct
    PROVE  IInv' /\ End' = End
<1>1. /\ loop # <<>> /\ loop \in Seq(Act) /\ Len(loop) <= 3 /\ work = <<>> /\ work' = <<>>
      /\ loop' = Tail(loop) /\ t.mode # "none"
      /\ UNCHANGED <<link, seen, t, ignored, suppressed, profile, controls, base>>
      /\ LayoutBecomes(After(real, Head(loop)))
      /\ link = "on" /\ seen # None
  BY DEF LoopAct, IInv, TurnInv, TypeOK
<1>2. Acts = loop /\ Acts' = Tail(loop)
  BY <1>1 DEF Acts
<1>3. base = None \/ Peeking
  BY <1>1 DEF IInv, BaseInv
<1>4. End' = End /\ FloatInv' /\ GoalInv' /\ BaseInv'
  BY <1>1, <1>2, <1>3, ActKeeps
<1>5. TurnInv'
  <2>1. Len(work') <= 3 /\ Len(loop') <= 3
    BY <1>1
  <2>2. ~suppressed /\ t.mode # "none" => Fresh' \/ (queue' = <<>> /\ Len(loop') <= 1)
    <3> SUFFICES ASSUME ~suppressed
                 PROVE  Fresh' \/ (queue' = <<>> /\ Len(loop') <= 1)
      OBVIOUS
    <3>1. queue = <<>> /\ Len(loop) = 1
      <4>1. queue = <<>> /\ Len(loop) <= 1
        BY <1>1 DEF IInv, TurnInv, Fresh
      <4>2. PICK n \in Nat : n = Len(loop) /\ n # 0
        BY <1>1
      <4>3. n = 1
        BY <4>1, <4>2
      <4> QED  BY <4>1, <4>2, <4>3
    <3>2. loop' = <<>> /\ Len(loop') <= 1
      BY <1>1, <3>1
    <3>3. real \in Layout /\ After(real, Head(loop)) \in Layout /\ OutOK
      BY <1>1, AfterDoes, TypeParts DEF TypeOK
    <3>4. \/ queue' = <<>>
          \/ Len(queue') = 1 /\ queue'[1].layout = real'
      BY <1>1, <3>1, <3>3, BecomesDoes
    <3> QED  BY <1>1, <3>2, <3>4 DEF Fresh
  <2> QED  BY <1>1, <2>1, <2>2 DEF IInv, TurnInv
<1> QED  BY <1>4, <1>5 DEF IInv

\* What the handler of an event finds.
LEMMA ReceiveFinds ==
    ASSUME TypeOK, IInv, NEW type, Receive(type)
    PROVE  /\ real \in Layout /\ real' = real /\ link = "on" /\ link' = "on" /\ work' = work
           /\ loop = <<>>
           /\ queue # <<>> /\ Head(queue) = queue[1] /\ Head(queue).layout \in Layout
           /\ queue[1].type = type
           /\ Len(queue') \in Nat
           /\ \A i \in 1..Len(queue') : queue'[i] = queue[i + 1] /\ i + 1 \in 1..Len(queue)
           /\ QueueFloats => QueueFloats' /\ Head(queue).layout.float
           /\ Fresh => /\ queue' = <<>> /\ Head(queue).layout = real /\ work = <<>> /\ End = real
                       /\ ~Moved' /\ ~Fresh'
           /\ ~suppressed /\ t.mode # "none" => Fresh
           /\ seen = None => Fresh /\ type # "layout"
<1>1. /\ queue \in Seq(Msg) /\ queue # <<>> /\ queue' = Tail(queue) /\ real \in Layout
      /\ UNCHANGED <<real, link, work>> /\ loop = <<>> /\ Head(queue).type = type
  BY DEF Receive, TypeOK, Msg
<1>2. /\ Head(queue) = queue[1] /\ Head(queue).layout \in Layout /\ 1 \in 1..Len(queue)
  <2>1. Head(queue) \in Msg /\ Head(queue) = queue[1] /\ 1 \in 1..Len(queue)
    BY <1>1
  <2> QED  BY <2>1 DEF Msg
<1>3. Len(queue') \in Nat /\ Len(queue') = Len(queue) - 1
  BY <1>1
<1>4. \A i \in 1..Len(queue') : queue'[i] = queue[i + 1] /\ i + 1 \in 1..Len(queue)
  BY <1>1, <1>3
<1>5. link = "on"
  BY <1>1 DEF IInv, TurnInv, TypeOK
<1>6. QueueFloats => QueueFloats' /\ Head(queue).layout.float
  BY <1>2, <1>4 DEF QueueFloats
<1>7. Fresh => /\ queue' = <<>> /\ Head(queue).layout = real /\ work = <<>> /\ End = real
               /\ ~Moved' /\ ~Fresh'
  <2> SUFFICES ASSUME Fresh
               PROVE  /\ queue' = <<>> /\ Head(queue).layout = real /\ work = <<>> /\ End = real
                      /\ ~Moved' /\ ~Fresh'
    OBVIOUS
  <2>1. Len(queue) = 1 /\ queue[1].layout = real /\ work = <<>>
    BY DEF Fresh
  <2>2. Len(queue') = 0
    BY <1>3, <2>1
  <2>3. queue' = <<>>
    BY <1>1, <2>2
  <2>4. End = real
    BY <1>1, <2>1, FinalOf DEF End, Acts
  <2> QED  BY <1>2, <2>1, <2>2, <2>3, <2>4 DEF Moved, Fresh
<1>8. ~suppressed /\ t.mode # "none" => Fresh
  BY <1>1 DEF IInv, TurnInv
<1>9. seen = None => Fresh /\ type # "layout"
  BY <1>1, <1>2, <1>5 DEF IInv, TurnInv
<1> QED  BY <1>1, <1>2, <1>3, <1>4, <1>5, <1>6, <1>7, <1>8, <1>9

\* An event that only changes the cache.
LEMMA IdleKeeps ==
    ASSUME TypeOK, TypeOK', IInv, NEW type, Receive(type), seen' = Head(queue).layout,
           UNCHANGED <<t, profile, loop, suppressed, ignored, controls, base>>,
           Governed => Reached,
           t.mode # "none" => Floats /\ QueueFloats,
           IsPip /\ t.mode = "none" => seen # None
    PROVE  IInv'
<1>1. /\ real' = real /\ link = "on" /\ link' = "on" /\ work' = work /\ loop = <<>>
      /\ loop' = <<>> /\ seen' # None
  BY ReceiveFinds, ConstantTypes
<1>2. Acts' = Acts /\ End' = End
  BY <1>1 DEF End, Acts
<1>3. ~suppressed /\ t.mode # "none" => queue' = <<>>
  BY ReceiveFinds
<1>4. TurnInv'
  <2>1. Len(loop') = 0
    BY <1>1
  <2> QED  BY <1>1, <1>3, <2>1 DEF IInv, TurnInv
<1>5. FloatInv'
  <2>1. t.mode # "none" => Floats' /\ QueueFloats'
    BY <1>1, <1>2, ReceiveFinds DEF Floats
  <2>2. IsPip /\ t.mode = "none" =>
          /\ real.float /\ QueueFloats' /\ NoTile(work)
          /\ \A i \in 1..Len(queue') : queue'[i].type # "layout" => Fresh'
    <3> SUFFICES ASSUME IsPip, t.mode = "none"
                 PROVE  /\ real.float /\ QueueFloats' /\ NoTile(work)
                        /\ \A i \in 1..Len(queue') : queue'[i].type # "layout" => Fresh'
      OBVIOUS
    <3>1. /\ real.float /\ QueueFloats /\ NoTile(work)
          /\ \A i \in 1..Len(queue) : queue[i].type # "layout" => Fresh
      BY DEF IInv, FloatInv
    <3>2. Fresh => queue' = <<>>
      BY ReceiveFinds
    <3>3. \A i \in 1..Len(queue') : queue'[i] = queue[i + 1] /\ i + 1 \in 1..Len(queue)
      BY ReceiveFinds
    <3>4. \A i \in 1..Len(queue') : queue'[i].type # "layout" => FALSE
      <4> SUFFICES ASSUME NEW i \in 1..Len(queue'), queue'[i].type # "layout" PROVE FALSE
        OBVIOUS
      <4>1. queue' = <<>>
        BY <3>1, <3>2, <3>3
      <4> QED  BY <4>1
    <3> QED  BY <3>1, <3>4, ReceiveFinds
  <2>3. IsPip /\ t.origin # None => t.origin.float
    BY DEF IInv, FloatInv
  <2>4. ~IsPip => ~IsAuto /\ profile = None
    BY DEF IInv, FloatInv
  <2> QED  BY <1>1, <2>1, <2>2, <2>3, <2>4 DEF FloatInv, IsAuto
<1>6. GoalInv'
  <2>1. Governed' => Agreed' /\ Reached'
    BY <1>2 DEF IInv, GoalInv, Governed, Peeking, Agreed, Reached, IsAuto, Locked, Matches
  <2>2. Peeking' => Lent'
    BY DEF IInv, GoalInv, Peeking, Lent, IsAuto, Locked, Matches
  <2> QED  BY <2>1, <2>2 DEF GoalInv
<1>7. BaseInv'
  BY <1>1, <1>2, <1>3 DEF IInv, BaseInv, Peeking, Is
<1> QED  BY <1>4, <1>5, <1>6, <1>7 DEF IInv

\* An event that makes the engine learn or act: the only one, and it tells of the
\* layout as it is.
LEMMA ReactionKeeps ==
    ASSUME TypeOK, TypeOK', IInv, NEW type, Receive(type), Fresh, seen' = Head(queue).layout,
           t'.mode # "none", Len(loop') <= 3, suppressed' \/ Len(loop') <= 1, NoTile(loop'),
           real.float \/ (loop' # <<>> /\ loop'[1] = Float),
           IsPip /\ t'.origin # None => t'.origin.float,
           ~IsPip => t'.mode # "auto" /\ profile' = None,
           t'.peek = None => Agreed' /\ Reached',
           t'.peek # None => Lent',
           base' # None => t'.peek # None /\ base'.float /\ Is(base', t'.peek.geom)
    PROVE  IInv'
<1>1. /\ real' = real /\ link' = "on" /\ work' = <<>> /\ queue' = <<>> /\ ~Moved' /\ seen' # None
  BY ReceiveFinds, ConstantTypes
<1>2. Acts' = loop' /\ Len(queue') = 0 /\ Len(work') = 0
  BY <1>1 DEF Acts
<1>3. TurnInv'
  BY <1>1, <1>2 DEF TurnInv
<1>4. FloatInv'
  <2>1. Floats' /\ QueueFloats'
    BY <1>1, <1>2 DEF Floats, QueueFloats
  <2> QED  BY <1>1, <2>1 DEF FloatInv, IsAuto
<1>5. GoalInv'
  BY DEF GoalInv, Governed, Peeking
<1>6. BaseInv'
  BY DEF BaseInv, Peeking
<1> QED  BY <1>3, <1>4, <1>5, <1>6 DEF IInv

\* The actions that undo a deviation from the lock lead to the lock.
LEMMA DeviationLeads ==
    ASSUME NEW g \in Geom, NEW l \in Layout, l.float
    PROVE  /\ Matches(Final(l, Deviation(g, l)), g) /\ NoTile(Deviation(g, l))
           /\ Len(Deviation(g, l)) <= 3
<1>1. PICK s \in AllSizes, p \in AllSpots : s = g.size /\ p = g.pos
  BY DEF Geom
<1>2. l.pos # None
  BY LayoutTypes, ConstantTypes
<1>3. CASE l.size = g.size /\ l.pos \in {None, g.pos}
  <2>1. Deviation(g, l) = <<>>
    BY <1>3, DeviationIs
  <2>2. Final(l, <<>>) = l /\ NoTile(<<>>)
    BY FinalOf, NoTiles
  <2>3. Len(Deviation(g, l)) <= 3
    BY <2>1
  <2> QED  BY <1>2, <1>3, <2>1, <2>2, <2>3 DEF Matches
<1>4. CASE l.size # g.size /\ l.pos \in {None, g.pos}
  <2>1. Deviation(g, l) = <<Size(s)>>
    BY <1>1, <1>4, DeviationIs
  <2>2. Afloat(Final(l, Deviation(g, l)), s, l.pos)
    BY <2>1, ConstantTypes, Shapes
  <2>3. NoTile(Deviation(g, l))
    BY <2>1, NoTiles
  <2>4. Len(Deviation(g, l)) <= 3
    BY <2>1
  <2> QED  BY <1>1, <1>2, <1>4, <2>2, <2>3, <2>4 DEF Matches, Afloat
<1>5. CASE l.size = g.size /\ l.pos \notin {None, g.pos}
  <2>1. Deviation(g, l) = <<Place(p)>>
    BY <1>1, <1>5, DeviationIs
  <2>2. Afloat(Final(l, Deviation(g, l)), l.size, p)
    BY <2>1, ConstantTypes, Shapes
  <2>3. NoTile(Deviation(g, l))
    BY <2>1, NoTiles
  <2>4. Len(Deviation(g, l)) <= 3
    BY <2>1
  <2> QED  BY <1>1, <1>5, <2>2, <2>3, <2>4 DEF Matches, Afloat
<1>6. CASE l.size # g.size /\ l.pos \notin {None, g.pos}
  <2>1. Deviation(g, l) = <<Size(s), Place(p)>>
    BY <1>1, <1>6, DeviationIs
  <2>2. Afloat(Final(l, Deviation(g, l)), s, p)
    BY <2>1, Shapes
  <2>3. NoTile(Deviation(g, l))
    BY <2>1, NoTiles
  <2>4. Len(Deviation(g, l)) <= 3
    BY <2>1
  <2> QED  BY <1>1, <2>2, <2>3, <2>4 DEF Matches, Afloat
<1> QED  BY <1>3, <1>4, <1>5, <1>6

\* A window that is tracked floats when the engine handles a layout that does not
\* say otherwise.
LEMMA LayoutFinds ==
    ASSUME TypeOK, IInv, HandleLayout
    PROVE  /\ Receive("layout") /\ UNCHANGED <<ignored, controls, base>> /\ seen # None
           /\ t.mode # "none" => Floats /\ QueueFloats /\ Head(queue).layout.float
           /\ Counts => /\ Fresh /\ Head(queue).layout = real /\ real.float /\ base = None
                        /\ Agreed
<1>1. Receive("layout") /\ UNCHANGED <<ignored, controls, base>>
  BY DEF HandleLayout
<1>2. seen # None /\ queue[1].type = "layout" /\ loop = <<>> /\ queue # <<>>
  BY <1>1, ReceiveFinds
<1>3. t.mode # "none" => Floats /\ QueueFloats /\ Head(queue).layout.float
  BY <1>1, <1>2, ReceiveFinds DEF IInv, FloatInv
<1>4. Counts => /\ Fresh /\ Head(queue).layout = real /\ real.float /\ base = None
                /\ Agreed
  <2> SUFFICES ASSUME Counts
               PROVE  /\ Fresh /\ Head(queue).layout = real /\ real.float /\ base = None
                      /\ Agreed
    OBVIOUS
  <2>1. t.mode # "none" /\ ~suppressed /\ ~Peeking
    BY DEF Counts
  <2>2. Fresh /\ Head(queue).layout = real
    BY <1>1, <2>1, ReceiveFinds
  <2>3. Acts = <<>>
    BY <1>2, <2>2 DEF Fresh, Acts
  <2>4. real.float
    BY <1>3, <2>1, <2>3 DEF Floats
  <2>5. base = None /\ Agreed
    BY <1>2, <2>1 DEF IInv, BaseInv, GoalInv, Governed
  <2> QED  BY <2>2, <2>4, <2>5
<1> QED  BY <1>1, <1>2, <1>3, <1>4

LEMMA HandleLayoutKeeps ==
    ASSUME TypeOK, IInv, HandleLayout
    PROVE  IInv'
<1>1. /\ TypeOK' /\ seen' = Head(queue).layout
      /\ t'.mode = t.mode /\ t'.peek = t.peek /\ t'.origin = t.origin /\ t'.lock = t.lock
  BY HandleLayoutDoes
<1>2. /\ IsPip /\ t.origin # None => t.origin.float
      /\ ~IsPip => ~IsAuto /\ profile = None
  BY DEF IInv, FloatInv
<1>3. CASE Counts /\ Locked
  <2>1. /\ UNCHANGED <<t, profile>> /\ t.lock \in Geom
        /\ loop' = Deviation(t.lock, seen') /\ suppressed' = (loop' # <<>>)
    BY <1>3, HandleLayoutDoes
  <2>2. /\ Fresh /\ seen' = real /\ real.float /\ base' = None /\ Agreed /\ real \in Layout
        /\ t.mode # "none" /\ t.peek = None
    BY <1>1, <1>3, LayoutFinds DEF Counts, Peeking, TypeOK
  <2>3. /\ Matches(Final(real, loop'), t.lock) /\ NoTile(loop') /\ Len(loop') <= 3
    BY <2>1, <2>2, DeviationLeads
  <2>4. suppressed' \/ Len(loop') <= 1
    <3>1. CASE loop' = <<>>
      <4>1. Len(loop') = 0
        BY <3>1
      <4> QED  BY <4>1
    <3> QED  BY <2>1, <3>1
  <2>5. End' = Final(real, loop')
    BY <2>2, LayoutFinds, ReceiveFinds DEF End, Acts, Fresh
  <2>6. Agreed' /\ Reached'
    BY <1>3, <2>1, <2>2, <2>3, <2>5 DEF Agreed, Reached, IsAuto, Locked, Matches
  <2> QED  BY <1>1, <1>2, <2>1, <2>2, <2>3, <2>4, <2>6, LayoutFinds, ReactionKeeps DEF IsAuto
<1>4. CASE Counts /\ ~Locked /\ IsAuto /\ seen'.float
  <2>1. /\ UNCHANGED <<loop, suppressed>>
        /\ profile' \in Geom /\ profile'.size = seen'.size /\ profile'.pos = seen'.pos
        /\ t'.managed = seen'.size
    BY <1>4, HandleLayoutDoes
  <2>2. /\ Fresh /\ seen' = real /\ real.float /\ base' = None /\ real \in Layout
        /\ t.mode # "none" /\ t.peek = None /\ IsPip
    BY <1>1, <1>2, <1>4, LayoutFinds DEF Counts, Peeking, TypeOK
  <2>7. loop' = <<>>
    BY <2>1, LayoutFinds, ReceiveFinds
  <2>8. NoTile(loop')
    BY <2>7, NoTiles
  <2>3. loop' = <<>> /\ Len(loop') = 0 /\ NoTile(loop')
    BY <2>7, <2>8
  <2>4. End' = real
    BY <2>2, <2>3, LayoutFinds, ReceiveFinds, FinalOf DEF End, Acts, Fresh
  <2>5. real.size # None
    BY <2>2, LayoutTypes, ConstantTypes
  <2>6. Agreed' /\ Reached'
    BY <1>1, <1>4, <2>1, <2>2, <2>4, <2>5 DEF Agreed, Reached, IsAuto, Locked, Matches
  <2> QED  BY <1>1, <1>2, <2>2, <2>3, <2>6, LayoutFinds, ReactionKeeps
<1>5. CASE Counts => ~Locked /\ (IsAuto => ~seen'.float)
  <2>1. UNCHANGED <<t, profile, loop, suppressed, ignored, controls, base>>
    BY <1>5, HandleLayoutDoes, LayoutFinds
  <2>2. Governed => Reached
    <3>1. CASE Counts
      <4>1. ~Locked /\ ~IsAuto
        BY <1>1, <1>5, <3>1, LayoutFinds DEF Counts
      <4> QED  BY <4>1 DEF Reached
    <3>2. CASE ~Counts
      BY <3>2 DEF Counts, Governed, Moved, IInv, GoalInv
    <3> QED  BY <3>1, <3>2
  <2> QED  BY <1>1, <2>1, <2>2, LayoutFinds, IdleKeeps
<1> QED  BY <1>3, <1>4, <1>5, HandleLayoutDoes

\* A tracked window is classified: it is left alone, or it was tiled and is to float
\* where it is wanted.
LEMMA RefloatKeeps ==
    ASSUME TypeOK, TypeOK', IInv, NEW type, type # "layout", Receive(type), NEW l \in Layout,
           l = Head(queue).layout, seen' = l, t.mode # "none", Refloat(l),
           UNCHANGED <<t, profile, base, ignored, controls>>
    PROVE  IInv' /\ (~l.float => IsAuto /\ Afloat(End', DesiredSize, DesiredSpot))
<1>1. /\ IsPip /\ t.origin # None => t.origin.float
      /\ ~IsPip => ~IsAuto /\ profile = None
      /\ queue[1].type = type /\ queue # <<>>
  BY ReceiveFinds DEF IInv, FloatInv
<1>2. CASE l.float
  <2>1. UNCHANGED <<loop, suppressed>>
    BY <1>2, RefloatDoes
  <2>2. ~Moved
    BY <1>1, <1>2, ReceiveFinds DEF Moved
  <2>3. Floats /\ QueueFloats
    BY <2>2 DEF IInv, FloatInv
  <2>4. Governed => Reached
    BY <2>2 DEF IInv, GoalInv
  <2> QED  BY <1>2, <2>1, <2>3, <2>4, IdleKeeps
<1>3. CASE ~l.float
  <2>1. IsAuto /\ Moved /\ type = "changed" /\ ~real.float
    BY <1>1, <1>3, ReceiveFinds DEF IInv, FloatInv
  <2>2. Fresh /\ ~suppressed /\ l = real /\ real \in Layout
    BY <2>1, ReceiveFinds DEF Moved
  <2>3. suppressed' /\ loop' = <<Float, Size(DesiredSize), Place(DesiredSpot)>>
    BY <1>3, <2>1, RefloatDoes DEF IsAuto
  <2>4. PICK s \in AllSizes, p \in AllSpots : s = DesiredSize /\ p = DesiredSpot
    BY DesiredTypes
  <2>5. loop' = <<Float, Size(s), Place(p)>>
    BY <2>3, <2>4
  <2>6. Afloat(Final(real, loop'), s, p) /\ NoTile(loop')
    BY <2>2, <2>5, Shapes, NoTiles
  <2>7. Len(loop') <= 3 /\ loop' # <<>> /\ loop'[1] = Float
    <3>1. PICK a, b, c : a = Float /\ loop' = <<a, b, c>>
      BY <2>5
    <3> QED  BY <3>1
  <2>8. End' = Final(real, loop')
    BY <2>2, ReceiveFinds DEF End, Acts
  <2>9. base' # None => t'.peek # None /\ base'.float /\ Is(base', t'.peek.geom)
    BY <1>1, <2>1, <2>2 DEF IInv, BaseInv, Peeking, IsAuto
  <2>10. t'.peek = None => Agreed' /\ Reached'
    <3> SUFFICES ASSUME t.peek = None PROVE Agreed' /\ Reached'
      OBVIOUS
    <3>1. Agreed
      BY <2>1 DEF IInv, GoalInv, Governed, Peeking, IsAuto
    <3>2. s = t.managed
      BY <2>1, <2>4, <3>1 DEF DesiredSize, Agreed
    <3>3. /\ Locked => p = t.lock.pos
          /\ ~Locked /\ profile # None => p = profile.pos
      BY <2>1, <2>4 DEF DesiredSpot, Peeking
    <3> QED  BY <2>1, <2>6, <2>8, <3>1, <3>2, <3>3
             DEF Agreed, Reached, IsAuto, Locked, Matches, Afloat
  <2>11. t'.peek # None => Lent'
    BY DEF IInv, GoalInv, Peeking, Lent, IsAuto, Locked, Matches
  <2>12. IInv'
    BY <1>1, <2>1, <2>2, <2>3, <2>6, <2>7, <2>9, <2>10, <2>11, ReactionKeeps DEF IsAuto
  <2> QED  BY <2>1, <2>4, <2>6, <2>8, <2>12
<1> QED  BY <1>2, <1>3

\* What is known when a window becomes an automatic PiP.
LEMMA NewFinds ==
    ASSUME TypeOK, IInv, NEW type, type # "layout", Receive(type), t.mode = "none", IsPip
    PROVE  /\ Fresh /\ Head(queue).layout = real /\ real \in Layout
           /\ ~real.float => profile = None
<1>1. /\ queue[1].type = type /\ 1 \in 1..Len(queue) /\ link = "on"
  <2>1. queue # <<>> /\ queue \in Seq(Msg) /\ queue[1].type = type /\ link = "on"
    BY ReceiveFinds DEF TypeOK, Msg
  <2> QED  BY <2>1
<1>2. CASE seen = None
  BY <1>2, ReceiveFinds DEF IInv, FloatInv
<1>3. CASE seen # None
  <2>1. real.float /\ \A i \in 1..Len(queue) : queue[i].type # "layout" => Fresh
    BY <1>3 DEF IInv, FloatInv
  <2> QED  BY <1>1, <2>1, ReceiveFinds
<1> QED  BY <1>2, <1>3

LEMMA AnewKeeps ==
    ASSUME TypeOK, TypeOK', IInv, NEW type, type # "layout", Receive(type), NEW l \in Layout,
           l = Head(queue).layout, seen' = l, t.mode = "none", IsPip,
           suppressed', base' = None, t'.mode = "auto", t'.peek = None, t'.origin = None,
           Anew(l)
    PROVE  /\ IInv'
           /\ Afloat(End', t'.managed, IF profile # None THEN profile.pos ELSE controls.corner)
<1>1. Fresh /\ l = real
  BY NewFinds
<1>2. PICK s \in AllSizes, p \in AllSpots :
         /\ s = (IF profile # None THEN profile.size ELSE PipSize)
         /\ p = (IF profile # None THEN profile.pos ELSE controls.corner)
         /\ t'.managed = s
         /\ IF controls.locked THEN t'.lock \in Geom /\ t'.lock.size = s /\ t'.lock.pos = p
            ELSE t'.lock = None
         /\ loop' = (IF l.float THEN <<Size(s), Place(p)>> ELSE <<Float, Size(s), Place(p)>>)
         /\ profile' = profile
  BY DEF Anew
<1>3. Afloat(Final(l, loop'), s, p) /\ NoTile(loop')
  <2>1. CASE l.float
    <3>1. loop' = <<Size(s), Place(p)>>
      BY <1>2, <2>1
    <3>2. NoTile(loop')
      BY <3>1, NoTiles
    <3> QED  BY <2>1, <3>1, <3>2, Shapes
  <2>2. CASE ~l.float
    <3>1. loop' = <<Float, Size(s), Place(p)>>
      BY <1>2, <2>2
    <3>2. NoTile(loop')
      BY <3>1, NoTiles
    <3> QED  BY <3>1, <3>2, Shapes
  <2> QED  BY <2>1, <2>2
<1>4. Len(loop') <= 3 /\ (~l.float => loop' # <<>> /\ loop'[1] = Float)
  <2>1. PICK a, b, c : a = Float /\ b = Size(s) /\ c = Place(p)
    OBVIOUS
  <2>2. loop' = <<b, c>> \/ loop' = <<a, b, c>>
    BY <1>2, <2>1
  <2>3. Len(loop') <= 3
    <3>1. CASE loop' = <<b, c>>
      BY <3>1
    <3>2. CASE loop' = <<a, b, c>>
      BY <3>2
    <3> QED  BY <2>2, <3>1, <3>2
  <2>4. ~l.float => loop' = <<a, b, c>>
    BY <1>2, <2>1
  <2>5. ~l.float => loop' # <<>> /\ loop'[1] = Float
    BY <2>1, <2>4
  <2> QED  BY <2>3, <2>5
<1>5. End' = Final(l, loop')
  BY <1>1, ReceiveFinds DEF End, Acts
<1>6. Agreed' /\ Reached'
  <2>1. t'.managed = s /\ s # None
    BY <1>2, ConstantTypes
  <2>2. t'.lock # None => Matches(t'.lock, [size |-> s, pos |-> p])
    BY <1>2 DEF Matches
  <2>3. profile' # None => Matches(profile', [size |-> s, pos |-> p])
    BY <1>2 DEF Matches
  <2>4. Matches(End', [size |-> s, pos |-> p])
    BY <1>3, <1>5 DEF Afloat, Matches
  <2> QED  BY <2>1, <2>2, <2>3, <2>4 DEF Agreed, Reached, IsAuto, Locked, Matches
<1>7. IInv'
  BY <1>1, <1>3, <1>4, <1>6, ReactionKeeps
<1> QED  BY <1>2, <1>3, <1>5, <1>7

LEMMA AdoptedKeeps ==
    ASSUME TypeOK, TypeOK', IInv, NEW type, type # "layout", Receive(type), NEW l \in Layout,
           l = Head(queue).layout, seen' = l, t.mode = "none", IsPip,
           suppressed', base' = None, t'.mode = "auto", t'.peek = None, t'.origin = None,
           Adopted(l)
    PROVE  /\ IInv' /\ l = real /\ End = real /\ (~l.float => profile = None)
           /\ l.float => End' = l
           /\ ~l.float => Afloat(End', l.size, FloatSpot)
<1>1. Fresh /\ l = real /\ (~l.float => profile = None) /\ l.size # None /\ l.size \in AllSizes
  BY NewFinds, LayoutTypes, ConstantTypes
<1>2. End' = Final(l, loop') /\ End = real
  BY <1>1, ReceiveFinds DEF End, Acts
<1>3. t'.managed = l.size /\ t'.lock = None
  BY DEF Adopted
<1>4. CASE l.float
  <2>1. loop' = <<>> /\ profile'.size = l.size /\ profile'.pos = l.pos
    BY <1>4 DEF Adopted
  <2>2. NoTile(loop') /\ End' = l
    BY <1>2, <2>1, NoTiles, FinalOf
  <2>3. Len(loop') <= 3
    BY <2>1
  <2>4. Agreed' /\ Reached'
    BY <1>1, <1>3, <2>1, <2>2 DEF Agreed, Reached, IsAuto, Locked, Matches
  <2> QED  BY <1>1, <1>2, <1>4, <2>2, <2>3, <2>4, ReactionKeeps
<1>5. CASE ~l.float
  <2>1. loop' = <<Float>> /\ profile' = None
    BY <1>1, <1>5 DEF Adopted
  <2>2. NoTile(loop')
    BY <2>1, NoTiles
  <2>3. Len(loop') <= 3 /\ loop' # <<>> /\ loop'[1] = Float
    BY <2>1
  <2>4. Afloat(End', l.size, FloatSpot)
    BY <1>1, <1>2, <1>5, <2>1, Shapes, ConstantTypes
  <2>5. Agreed' /\ Reached'
    BY <1>1, <1>3, <2>1, <2>4 DEF Agreed, Reached, IsAuto, Locked, Matches, Afloat
  <2> QED  BY <1>1, <1>2, <1>5, <2>2, <2>3, <2>4, <2>5, ReactionKeeps
<1> QED  BY <1>4, <1>5

LEMMA ClassifyingKeeps ==
    ASSUME TypeOK, IInv, HandleChanged \/ HandleSnapshot
    PROVE  IInv'
<1>1. PICK type \in {"changed", "snapshot"} : Receive(type)
  BY DEF HandleChanged, HandleSnapshot
<1>2. PICK l \in Layout : /\ TypeOK' /\ l = Head(queue).layout /\ seen' = l /\ Classified(l)
                          /\ UNCHANGED <<ignored, controls>>
  BY ClassifyingDoes
<1>3. type # "layout"
  OBVIOUS
<1>4. CASE t.mode # "none"
  <2>1. UNCHANGED <<t, profile, base>> /\ Refloat(l)
    BY <1>2, <1>4 DEF Classified
  <2> QED  BY <1>1, <1>2, <1>3, <1>4, <2>1, RefloatKeeps
<1>5. CASE t.mode = "none" /\ ~(IsPip /\ ~ignored)
  <2>1. UNCHANGED <<t, profile, loop, suppressed, base>>
    BY <1>2, <1>5 DEF Classified
  <2>2. IsPip => seen # None
    BY <1>5 DEF IInv, TurnInv
  <2>3. ~Governed
    BY <1>5 DEF Governed
  <2> QED  BY <1>1, <1>2, <1>5, <2>1, <2>2, <2>3, IdleKeeps
<1>6. CASE t.mode = "none" /\ IsPip /\ ~ignored
  <2>1. /\ suppressed' /\ base' = None /\ t'.mode = "auto" /\ t'.peek = None /\ t'.origin = None
        /\ Anew(l) \/ Adopted(l)
    BY <1>2, <1>6 DEF Classified
  <2>2. CASE Anew(l)
    BY <1>1, <1>2, <1>3, <1>6, <2>1, <2>2, AnewKeeps
  <2>3. CASE Adopted(l)
    BY <1>1, <1>2, <1>3, <1>6, <2>1, <2>3, AdoptedKeeps
  <2> QED  BY <2>1, <2>2, <2>3
<1> QED  BY <1>4, <1>5, <1>6

-------------------------------------------------------------------------------
(* The world *)

\* When nothing is under way, the window is where the engine wants it.
LEMMA QuietFinds ==
    ASSUME TypeOK, IInv, link = "on" \/ t = Untracked, Quiet
    PROVE  /\ Len(queue) = 0 /\ ~Fresh /\ ~Moved /\ Acts = <<>> /\ End = real /\ real \in Layout
           /\ t.mode # "none" => real.float /\ Floats /\ QueueFloats
           /\ link = "on" => seen # None
           /\ IsPip /\ seen # None => real.float
           /\ Governed => Agreed /\ Reached
           /\ Peeking => Lent
<1>1. queue = <<>> /\ work = <<>> /\ loop = <<>> /\ real \in Layout
  BY DEF Quiet, TypeOK
<1>2. Len(queue) = 0 /\ ~Fresh /\ ~Moved /\ Acts = <<>>
  <2>1. Len(queue) = 0
    BY <1>1
  <2> QED  BY <1>1, <2>1 DEF Fresh, Moved, Acts
<1>3. End = real
  BY <1>2, FinalOf DEF End
<1>4. t.mode # "none" => real.float /\ Floats /\ QueueFloats
  BY <1>2 DEF IInv, FloatInv, Floats
<1>5. link = "on" => seen # None
  BY <1>2 DEF IInv, TurnInv
<1>6. IsPip /\ seen # None => real.float
  BY <1>4 DEF IInv, FloatInv
<1> QED  BY <1>1, <1>2, <1>3, <1>4, <1>5, <1>6 DEF IInv, GoalInv

LEMMA SettledFinds ==
    ASSUME TypeOK, CacheInv, IInv, Settled
    PROVE  /\ link = "on" /\ queue = <<>> /\ work = <<>> /\ loop = <<>>
           /\ Len(queue) = 0 /\ ~Fresh /\ ~Moved /\ Acts = <<>> /\ End = real /\ real \in Layout
           /\ t.mode # "none" => real.float /\ Floats /\ QueueFloats
           /\ seen = real /\ seen # None
           /\ IsPip => real.float
           /\ Governed => Agreed /\ Reached
           /\ Peeking => Lent
<1>1. link = "on" /\ queue = <<>> /\ work = <<>> /\ loop = <<>> /\ Quiet
  BY DEF Settled, Quiet
<1>2. seen = real
  BY <1>1 DEF CacheInv, Newest
<1> QED  BY <1>1, <1>2, QuietFinds

LEMMA SuppressionEndsKeeps ==
    ASSUME TypeOK, CacheInv, IInv, Patient, SuppressionEnds
    PROVE  IInv'
<1>1. /\ UNCHANGED <<real, queue, link, seen, t, ignored, profile, controls, work, loop, base,
                     bounds>>
      /\ Settled /\ suppressed' = FALSE
  BY DEF SuppressionEnds
<1>2. /\ queue = <<>> /\ work = <<>> /\ loop = <<>> /\ Len(queue) = 0 /\ seen # None
      /\ t.mode # "none" => Floats /\ QueueFloats
      /\ Governed => Agreed /\ Reached
      /\ link = "on"
  BY <1>1, SettledFinds
<1>3. Len(work) = 0 /\ Len(loop) = 0
  BY <1>2
<1>4. Acts' = Acts /\ End' = End /\ (Fresh' <=> Fresh)
  BY <1>1 DEF Acts, End, Fresh
<1>5. TurnInv'
  BY <1>1, <1>2, <1>3 DEF IInv, TurnInv
<1>6. FloatInv'
  BY <1>1, <1>2, <1>4 DEF IInv, FloatInv, Floats, QueueFloats, IsAuto
<1>7. GoalInv'
  BY <1>1, <1>2, <1>4
     DEF IInv, GoalInv, Governed, Peeking, Agreed, Reached, Lent, IsAuto, Locked, Matches
<1>8. BaseInv'
  BY <1>1, <1>2, <1>4 DEF IInv, BaseInv, Peeking, Is
<1> QED  BY <1>5, <1>6, <1>7, <1>8 DEF IInv

LEMMA OutputsChangedKeeps ==
    ASSUME TypeOK, CacheInv, IInv, Patient, OutputsChanged
    PROVE  IInv' /\ (End' = End \/ (t.mode # "none" /\ Afloat(End', real.size, DesiredSpot)))
<1>1. /\ UNCHANGED <<real, queue, link, seen, t, ignored, suppressed, profile, controls, work>>
      /\ Settled
      /\ base' = IF Peeking \/ loop' = <<>> THEN base ELSE None
  BY DEF OutputsChanged
<1>2. /\ queue = <<>> /\ work = <<>> /\ loop = <<>> /\ Len(queue) = 0 /\ seen # None
      /\ t.mode # "none" => real.float /\ QueueFloats
      /\ Governed => Agreed /\ Reached
      /\ Peeking => Lent
      /\ link = "on" /\ End = real /\ real \in Layout /\ (IsPip => real.float)
  BY <1>1, SettledFinds
<1>3. Acts' = loop' /\ End' = Final(real, loop')
  BY <1>1, <1>2 DEF Acts, End
<1>4. Len(work) = 0
  BY <1>2
<1>5. CASE IsAuto \/ t.mode = "overlay" \/ Peeking
  <2>1. loop' = <<Place(DesiredSpot)>>
    BY <1>5, OutputsChangedDoes
  <2>2. t.mode # "none"
    BY <1>5, EntryTypes, UntrackedFields DEF TypeOK, Peeking, Fields, IsAuto
  <2>3. PICK p \in AllSpots : p = DesiredSpot
    BY <2>2, DesiredTypes
  <2>4. loop' = <<Place(p)>>
    BY <2>1, <2>3
  <2>5. Len(loop') = 1 /\ loop' # <<>>
    BY <2>4
  <2>6. NoTile(loop')
    BY <2>4, NoTiles
  <2>7. Afloat(End', real.size, p)
    BY <1>2, <1>3, <2>2, <2>4, Shapes, ConstantTypes
  <2>8. TurnInv'
    BY <1>1, <1>2, <1>4, <2>2, <2>5 DEF IInv, TurnInv
  <2>9. FloatInv'
    BY <1>1, <1>2, <1>3, <2>2, <2>6 DEF IInv, FloatInv, Floats, QueueFloats, IsAuto
  <2>10. GoalInv'
    <3>1. ASSUME Governed PROVE Agreed' /\ Reached'
      <4>1. Agreed /\ Reached
        BY <1>2, <3>1
      <4>2. /\ Locked => p = t.lock.pos
            /\ IsAuto /\ ~Locked /\ profile # None => p = profile.pos
        BY <2>3, <3>1 DEF DesiredSpot, Governed
      <4> QED  BY <1>1, <1>2, <2>7, <4>1, <4>2
               DEF Agreed, Reached, IsAuto, Locked, Matches, Afloat
    <3>2. Peeking' => Lent'
      BY <1>1, <1>2 DEF Peeking, Lent, IsAuto, Locked, Matches
    <3> QED  BY <1>1, <3>1, <3>2 DEF GoalInv, Governed, Peeking
  <2>11. BaseInv'
    BY <1>1, <2>5 DEF IInv, BaseInv, Peeking, Is
  <2> QED  BY <2>2, <2>3, <2>7, <2>8, <2>9, <2>10, <2>11 DEF IInv
<1>6. CASE ~(IsAuto \/ t.mode = "overlay" \/ Peeking)
  <2>1. loop' = <<>>
    BY <1>6, OutputsChangedDoes
  <2>2. Len(loop') = 0 /\ NoTile(loop') /\ End' = real
    BY <1>3, <2>1, NoTiles, FinalOf
  <2>3. TurnInv'
    BY <1>1, <1>2, <1>4, <2>1, <2>2 DEF IInv, TurnInv
  <2>4. FloatInv'
    BY <1>1, <1>2, <1>3, <2>2 DEF IInv, FloatInv, Floats, QueueFloats, IsAuto
  <2>5. GoalInv'
    BY <1>1, <1>2, <2>2
       DEF IInv, GoalInv, Governed, Peeking, Agreed, Reached, Lent, IsAuto, Locked, Matches
  <2>6. BaseInv'
    BY <1>1, <1>2, <2>1, <2>2 DEF IInv, BaseInv, Peeking, Is
  <2> QED  BY <1>2, <2>2, <2>3, <2>4, <2>5, <2>6 DEF IInv
<1> QED  BY <1>5, <1>6

LEMMA ConnectKeeps ==
    ASSUME TypeOK, IInv, Connect
    PROVE  IInv'
<1>1. /\ UNCHANGED <<real, seen, t, ignored, suppressed, profile, controls, work, loop, base>>
      /\ link = "off" /\ link' = "on"
  BY DEF Connect
<1>2. PICK m : m = [type |-> "snapshot", layout |-> real]
  OBVIOUS
<1>3. m.type = "snapshot" /\ m.layout = real
  BY <1>2
<1>4. queue' = <<m>>
  BY <1>2 DEF Connect
<1>5. Len(queue') = 1 /\ queue'[1] = m /\ queue' # <<>>
  BY <1>4
<1>6. work = <<>> /\ loop = <<>> /\ queue = <<>> /\ Acts = <<>>
  BY <1>1 DEF IInv, TurnInv, Acts
<1>7. Len(queue) = 0 /\ Len(work) = 0 /\ Len(loop) = 0
  BY <1>6
<1>8. Fresh' /\ Acts' = Acts /\ End' = End /\ ~Moved
  BY <1>1, <1>3, <1>5, <1>6, <1>7 DEF Fresh, Moved, Acts, End
<1>9. t.mode # "none" => real.float /\ Floats
  BY <1>6, <1>8 DEF IInv, FloatInv, Floats
<1>10. TurnInv'
  BY <1>1, <1>3, <1>5, <1>6, <1>7, <1>8 DEF IInv, TurnInv
<1>11. FloatInv'
  <2>1. real.float => QueueFloats'
    BY <1>3, <1>5 DEF QueueFloats
  <2> QED  BY <1>1, <1>8, <1>9, <2>1 DEF IInv, FloatInv, Floats, IsAuto
<1>12. GoalInv'
  BY <1>1, <1>8
     DEF IInv, GoalInv, Governed, Peeking, Agreed, Reached, Lent, IsAuto, Locked, Matches
<1>13. BaseInv'
  BY <1>1, <1>3, <1>5, <1>8 DEF IInv, BaseInv, Peeking, Is
<1> QED  BY <1>10, <1>11, <1>12, <1>13 DEF IInv

LEMMA CutStreamKeeps ==
    ASSUME TypeOK, CacheInv, IInv, Patient, CutStream
    PROVE  IInv'
<1>1. /\ UNCHANGED <<real, seen, t, ignored, suppressed, profile, controls, work, loop, base>>
      /\ Settled /\ link' = "off" /\ queue' = <<>>
  BY DEF CutStream
<1>2. UNCHANGED queue /\ seen # None /\ work = <<>> /\ loop = <<>> /\ ~Moved
      /\ Len(queue) = 0
  BY <1>1, SettledFinds
<1>3. Acts' = Acts /\ End' = End /\ ~Moved'
  BY <1>1, <1>2 DEF Acts, End, Moved, Fresh
<1>4. Len(work) = 0 /\ Len(loop) = 0
  BY <1>2
<1>5. TurnInv'
  BY <1>1, <1>2, <1>4 DEF IInv, TurnInv
<1>6. FloatInv'
  <2>1. t.mode # "none" => Floats /\ QueueFloats
    BY <1>1, SettledFinds
  <2>2. \A i \in 1..Len(queue') : FALSE
    BY <1>2
  <2> QED  BY <1>1, <1>2, <1>3, <2>1, <2>2 DEF IInv, FloatInv, Floats, QueueFloats, IsAuto
<1>7. GoalInv'
  BY <1>1, <1>2, <1>3
     DEF IInv, GoalInv, Governed, Peeking, Agreed, Reached, Lent, IsAuto, Locked, Matches
<1>8. BaseInv'
  BY <1>1, <1>2, <1>3 DEF IInv, BaseInv, Peeking, Is
<1> QED  BY <1>5, <1>6, <1>7, <1>8 DEF IInv

LEMMA RestartDaemonKeeps ==
    ASSUME TypeOK, CacheInv, IInv, Patient, RestartDaemon
    PROVE  IInv'
<1>1. /\ Settled /\ link' = "off" /\ queue' = <<>> /\ seen' = None /\ t' = Untracked
      /\ ignored' = FALSE /\ suppressed' = FALSE /\ work' = <<>> /\ loop' = <<>> /\ base' = None
      /\ UNCHANGED <<real, profile, controls>>
  BY DEF RestartDaemon
<1>2. IsPip => real.float
  BY <1>1, SettledFinds
<1>3. t'.mode = "none" /\ t'.lock = None /\ t'.peek = None /\ t'.origin = None
  BY <1>1, UntrackedFields DEF Fields
<1>4. Len(work') = 0 /\ Len(loop') = 0
  BY <1>1
<1>5. TurnInv'
  BY <1>1, <1>3, <1>4 DEF TurnInv
<1>6. FloatInv'
  BY <1>1, <1>2, <1>3 DEF IInv, FloatInv, IsAuto
<1>7. GoalInv'
  BY <1>3 DEF GoalInv, Governed, Peeking
<1>8. BaseInv'
  BY <1>1 DEF BaseInv
<1> QED  BY <1>5, <1>6, <1>7, <1>8 DEF IInv

\* The user moves or resizes the window, or tiles an automatic PiP.
LEMMA UserKeeps ==
    ASSUME TypeOK, IInv, Patient, "outage" \notin Mishaps, NEW l \in Layout, UserActs(l),
           l.float = real.float \/ (IsAuto /\ real.float)
    PROVE  IInv'
<1>1. /\ UNCHANGED <<link, seen, t, ignored, suppressed, profile, controls, work, loop>>
      /\ Quiet /\ ~suppressed /\ (link = "on" \/ t = Untracked) /\ l # real
      /\ LayoutBecomes(l) /\ base' = IF Peeking THEN base ELSE None
  BY DEF UserActs
<1>2. /\ queue = <<>> /\ work = <<>> /\ loop = <<>> /\ Acts = <<>> /\ real \in Layout
      /\ t.mode # "none" => real.float
      /\ link = "on" => seen # None
      /\ IsPip /\ seen # None => real.float
      /\ Governed => Agreed
      /\ Peeking => Lent
  BY <1>1, QuietFinds DEF Quiet
<1>3. Len(queue) = 0 /\ Len(work) = 0 /\ Len(loop) = 0 /\ Acts' = <<>> /\ NoTile(Acts')
  <2>1. Acts' = <<>>
    BY <1>1, <1>2 DEF Acts
  <2>2. Len(queue) = 0 /\ Len(work) = 0 /\ Len(loop) = 0
    BY <1>2
  <2> QED  BY <2>1, <2>2, NoTiles
<1>4. real' = l /\ OutOK
  BY <1>1, BecomesDoes, TypeParts
<1>5. BaseInv'
  BY <1>1 DEF IInv, BaseInv, Peeking, Is
<1>6. CASE link = "off"
  <2>1. t = Untracked /\ queue' = <<>>
    BY <1>1, <1>2, <1>4, <1>6, BecomesDoes
  <2>2. t.mode = "none" /\ t.peek = None /\ t.origin = None
    BY <2>1, UntrackedFields DEF Fields
  <2>3. l.float <=> real.float
    BY <2>2 DEF IsAuto
  <2>4. TurnInv'
    BY <1>1, <1>2, <1>3, <1>6, <2>1, <2>2 DEF IInv, TurnInv
  <2>5. FloatInv'
    <3>1. QueueFloats' /\ \A i \in 1..Len(queue') : FALSE
      BY <2>1 DEF QueueFloats
    <3>2. NoTile(work')
      BY <1>1, <1>2, NoTiles
    <3> QED  BY <1>1, <1>2, <1>4, <2>2, <2>3, <3>1, <3>2 DEF IInv, FloatInv, IsAuto
  <2>6. GoalInv'
    BY <1>1, <2>2 DEF GoalInv, Governed, Peeking
  <2> QED  BY <1>5, <2>4, <2>5, <2>6 DEF IInv
<1>7. CASE link = "on"
  <2>1. /\ Len(queue') = 1 /\ queue'[1].layout = l
        /\ queue'[1].type = (IF l.float = real.float THEN "layout" ELSE "changed")
    BY <1>1, <1>3, <1>4, <1>7, BecomesDoes
  <2>2. Fresh'
    BY <1>1, <1>2, <1>4, <2>1 DEF Fresh
  <2>3. Moved'
    <3>1. l.float = real.float => queue'[1].type = "layout"
      BY <2>1
    <3>2. l.float # real.float => ~l.float
      BY <1>2, LayoutTypes
    <3> QED  BY <1>1, <1>4, <2>2, <3>1, <3>2 DEF Moved
  <2>4. TurnInv'
    BY <1>1, <1>2, <1>3, <1>7, <2>2 DEF IInv, TurnInv
  <2>5. FloatInv'
    <3>1. l.float => QueueFloats'
      BY <2>1 DEF QueueFloats
    <3>2. NoTile(work')
      BY <1>1, <1>2, NoTiles
    <3>3. t.mode # "none" => \/ Floats' /\ QueueFloats'
                             \/ IsAuto' /\ Moved' /\ queue'[1].type = "changed" /\ ~l.float
      <4>1. l.float \/ ~l.float
        OBVIOUS
      <4>2. t.mode # "none" /\ ~l.float => IsAuto /\ queue'[1].type = "changed"
        BY <1>2, <2>1
      <4> QED  BY <1>1, <1>3, <1>4, <2>3, <3>1, <4>2 DEF Floats, IsAuto
    <3>4. IsPip /\ t.mode = "none" => l.float
      BY <1>2, <1>7 DEF IsAuto
    <3> QED  BY <1>1, <1>2, <1>4, <1>7, <2>2, <3>1, <3>2, <3>3, <3>4 DEF IInv, FloatInv, IsAuto
  <2>6. GoalInv'
    BY <1>1, <1>2, <2>3
       DEF GoalInv, Governed, Peeking, Agreed, Lent, IsAuto, Locked, Matches
  <2> QED  BY <1>5, <2>4, <2>5, <2>6 DEF IInv
<1> QED  BY <1>6, <1>7 DEF TypeOK

LEMMA InitKeeps == TypeOK /\ Init => IInv
<1> SUFFICES ASSUME TypeOK, Init PROVE IInv
  OBVIOUS
<1>1. /\ t = Untracked /\ seen = None /\ ~ignored /\ ~suppressed /\ profile = None
      /\ work = <<>> /\ loop = <<>> /\ base = None
  BY DEF Init
<1>2. t.mode = "none" /\ t.peek = None /\ t.origin = None
  BY <1>1, UntrackedFields DEF Fields
<1>3. Len(work) = 0 /\ Len(loop) = 0
  BY <1>1
<1>4. CASE link = "off"
  <2>1. queue = <<>>
    BY <1>4 DEF Init
  <2> QED  BY <1>1, <1>2, <1>3, <1>4, <2>1
           DEF IInv, TurnInv, FloatInv, GoalInv, BaseInv, IsAuto, Governed, Peeking
<1>5. CASE link = "on"
  <2>1. PICK m : m = [type |-> "changed", layout |-> real]
    OBVIOUS
  <2>2. m.type = "changed" /\ m.layout = real
    BY <2>1
  <2>3. queue = <<m>>
    BY <1>5, <2>1 DEF Init
  <2>4. Len(queue) = 1 /\ queue[1] = m
    BY <2>3
  <2>5. Fresh /\ queue[1].type # "layout"
    BY <1>1, <2>2, <2>4 DEF Fresh
  <2> QED  BY <1>1, <1>2, <1>3, <1>5, <2>5
           DEF IInv, TurnInv, FloatInv, GoalInv, BaseInv, IsAuto, Governed, Peeking
<1> QED  BY <1>4, <1>5 DEF TypeOK

LEMMA IStep ==
    ASSUME Patient, "outage" \notin Mishaps, "tile" \notin Mishaps
    PROVE  TypeOK /\ CacheInv /\ IInv /\ [Next]_vars => IInv'
<1> SUFFICES ASSUME TypeOK, CacheInv, IInv, [Next]_vars PROVE IInv'
  OBVIOUS
<1>0. TypeOK'
  BY TypeStep
<1>1. CASE Client
  BY <1>1, PinKeeps, OverlayKeeps, UnpinKeeps, PeekOnKeeps, PeekOffKeeps, ResizeKeeps,
     SetPositionKeeps, NudgeKeeps, LockKeeps, UnlockKeeps, ResetGeometryKeeps,
     ResetLearnedKeeps DEF Client
<1>2. CASE Work \/ LoopAct
  BY <1>0, <1>2, WorkKeeps, LoopActKeeps
<1>3. CASE HandleLayout \/ HandleChanged \/ HandleSnapshot
  BY <1>3, HandleLayoutKeeps, ClassifyingKeeps
<1>4. CASE SuppressionEnds \/ OutputsChanged \/ Connect \/ CutStream \/ RestartDaemon
  BY <1>4, SuppressionEndsKeeps, OutputsChangedKeeps, ConnectKeeps, CutStreamKeeps,
     RestartDaemonKeeps
<1>5. CASE (\E p \in Spots : UserDrags(p)) \/ (\E s \in Sizes : UserResizes(s)) \/ UserTiles
  <2>1. PICK l \in Layout :
           /\ UserActs(l)
           /\ \/ \E p \in Spots : UserDrags(p) /\ real.float
                   /\ l = [float |-> TRUE, size |-> real.size, pos |-> p]
              \/ \E s \in Sizes : UserResizes(s)
                   /\ l = [float |-> real.float, size |-> s, pos |-> real.pos]
              \/ /\ UserTiles /\ real.float
                 /\ l = [float |-> FALSE, size |-> real.size, pos |-> None]
    BY <1>5, UserMoves
  <2>2. real \in Layout /\ (real.float => real.float = TRUE)
    BY LayoutTypes DEF TypeOK
  <2>3. l.float = real.float \/ (IsAuto /\ real.float)
    <3>1. CASE \E p \in Spots : /\ UserDrags(p) /\ real.float
                               /\ l = [float |-> TRUE, size |-> real.size, pos |-> p]
      <4>1. l.float = TRUE
        BY <3>1
      <4> QED  BY <2>2, <3>1, <4>1
    <3>2. CASE \E s \in Sizes : l = [float |-> real.float, size |-> s, pos |-> real.pos]
      BY <3>2
    <3>3. CASE UserTiles /\ real.float
      BY <3>3 DEF UserTiles
    <3> QED  BY <2>1, <3>1, <3>2, <3>3
  <2> QED  BY <2>1, <2>3, UserKeeps
<1>6. CASE UNCHANGED vars
  BY <1>6 DEF vars, bounds, IInv, TurnInv, FloatInv, GoalInv, BaseInv, Governed, Peeking, Agreed,
              Reached, Lent, IsAuto, Locked, Is, Matches, Fresh, Moved, Floats, QueueFloats, End,
              Acts
<1> QED  BY <1>1, <1>2, <1>3, <1>4, <1>5, <1>6 DEF Next, Daemon, World

\* The inductive invariant, where everyone waits for the last action to come back, no
\* window is moved behind a broken stream, and only an automatic PiP is tiled.
LEMMA Inductive ==
    ASSUME Patient, "outage" \notin Mishaps, "tile" \notin Mishaps
    PROVE  Spec => [](TypeOK /\ CacheInv /\ IInv)
<1>1. Init => TypeOK /\ CacheInv /\ IInv
  BY InitTypes, InitKeeps DEF Init, CacheInv, Newest
<1>2. TypeOK /\ CacheInv /\ IInv /\ [Next]_vars => (TypeOK /\ CacheInv /\ IInv)'
  BY TypeStep, CacheStep, IStep
<1> QED  BY <1>1, <1>2, PTL DEF Spec

\* Engine::update_layout and the requests learn what is: when nothing is under way, the
\* profile of an unlocked automatic PiP has the size of the window and a spot that only
\* bars could make differ from the window's, or it was reset.
THEOREM LearnsWhatIs ==
    ASSUME Patient, "outage" \notin Mishaps, "tile" \notin Mishaps
    PROVE  Spec => []LearnedIsReal
<1>1. TypeOK /\ CacheInv /\ IInv => LearnedIsReal
  BY SettledFinds DEF LearnedIsReal, Reached, Locked
<1> QED  BY <1>1, Inductive, PTL

\* Engine::update_layout and reconcile_window hold the lock: a locked window has the
\* locked size and a spot that only bars could make differ from the locked one, whoever
\* moved, resized or tiled it, and after a restart of the daemon.
THEOREM LockIsKept ==
    ASSUME Patient, "outage" \notin Mishaps, "tile" \notin Mishaps
    PROVE  Spec => []LockHolds
<1>1. TypeOK /\ CacheInv /\ IInv => LockHolds
  <2> SUFFICES ASSUME TypeOK, CacheInv, IInv, Settled, Locked, ~Peeking
               PROVE  Matches(real, t.lock)
    BY DEF LockHolds
  <2>1. t.mode # "none"
    BY EntryTypes, UntrackedFields DEF TypeOK, Locked, Fields
  <2> QED  BY <2>1, SettledFinds DEF Governed, Reached
<1> QED  BY <1>1, Inductive, PTL

\* Engine::set_peek and Engine::unpin restore the layout that was there before: its size,
\* whether it floats, and the spot that asking for its own leads to.
THEOREM RestoresWhatWas ==
    ASSUME Patient, "outage" \notin Mishaps, "tile" \notin Mishaps
    PROVE  Spec => []Restored
<1>1. TypeOK /\ CacheInv /\ IInv => Restored
  BY SettledFinds DEF Restored, IInv, BaseInv
<1> QED  BY <1>1, Inductive, PTL

Reality == GeomOf(real)

\* A peek that ended and an unpin have restored what was there before.
RestoredExactly == Settled /\ ~Peeking /\ base # None => real = base

\* Where no bar takes space, a window that a peek or an unpin left is exactly where it
\* was, and what is learned and locked is exactly where the window is.
COROLLARY ExactWithoutBars ==
    ASSUME Patient, "outage" \notin Mishaps, "tile" \notin Mishaps,
           \A p \in AllSpots : Placed[p] = p
    PROVE  Spec => [](/\ RestoredExactly
                      /\ Settled /\ IsAuto /\ Governed /\ ~Locked => profile \in {None, Reality}
                      /\ Settled /\ Locked /\ ~Peeking => Reality = t.lock)
<1> DEFINE Exact == /\ RestoredExactly
                    /\ Settled /\ IsAuto /\ Governed /\ ~Locked => profile \in {None, Reality}
                    /\ Settled /\ Locked /\ ~Peeking => Reality = t.lock
<1>1. ASSUME NEW l \in Layout, l.float, NEW g \in Geom, Matches(l, g) PROVE GeomOf(l) = g
  <2>1. /\ g = [size |-> g.size, pos |-> g.pos] /\ g.pos \in AllSpots /\ l.pos \in AllSpots
        /\ l.size = g.size /\ Region(l.pos) = Region(g.pos)
    BY <1>1, LayoutTypes DEF Geom, Matches
  <2>2. l.pos = g.pos
    <3>1. {l.pos} = {g.pos}
      BY <2>1, RegionIs
    <3> QED  BY <3>1
  <2> QED  BY <1>1, <2>1, <2>2, GeomTypes
<1>2. ASSUME NEW l \in Layout PROVE Landed(l) = l
  BY AfterDoes, LayoutTypes DEF Landed
<1>3. TypeOK /\ CacheInv /\ IInv => Exact
  <2> SUFFICES ASSUME TypeOK, CacheInv, IInv, Settled PROVE Exact
    BY DEF RestoredExactly
  <2>1. real \in Layout /\ (t.mode # "none" => real.float) /\ End = real
        /\ (Governed => Reached)
    BY SettledFinds
  <2>2. RestoredExactly
    <3>1. base # None => base \in Layout
      BY DEF TypeOK
    <3> QED  BY <1>2, <2>1, <3>1 DEF RestoredExactly, IInv, BaseInv
  <2>3. IsAuto /\ Governed /\ ~Locked /\ profile # None => profile = Reality
    <3>1. profile # None => profile \in Geom
      BY DEF TypeOK
    <3> QED  BY <1>1, <2>1, <3>1 DEF Reached, Reality, Governed
  <2>4. Locked /\ ~Peeking => Reality = t.lock
    <3>1. Locked => t.lock \in Geom /\ t.mode # "none"
      BY EntryTypes, UntrackedFields DEF TypeOK, Locked, Fields
    <3> QED  BY <1>1, <2>1, <3>1 DEF Reached, Reality, Governed
  <2> QED  BY <2>2, <2>3, <2>4
<1>4. Spec => []Exact
  BY <1>3, Inductive, PTL
<1> QED  BY <1>4 DEF Exact

-------------------------------------------------------------------------------
(* A peek is not learned *)

\* Everything that is remembered, and where the window is brought, is bare of the
\* peek, as long as the window does not peek.
BareEntry(e) ==
    /\ Region(e.corner) # Region(PeekSpot)
    /\ e.lock # None => Bare(e.lock)
    /\ e.origin # None => Bare(e.origin)
BareInv ==
    /\ profile # None => Bare(profile)
    /\ Region(controls.corner) # Region(PeekSpot)
    /\ BareEntry(t)
    /\ IF Peeking THEN Bare(t.peek.geom) /\ t.peek.managed # PeekSize
       ELSE t.managed # PeekSize /\ Bare(End)

LEMMA ApartTypes ==
    ASSUME Apart
    PROVE  /\ \A s \in Sizes \cup {OverlaySize, PipSize, None} : s # PeekSize
           /\ \A p \in Spots \cup {OverlaySpot, PipSpot, FloatSpot, None} :
                 Region(p) # Region(PeekSpot)
           /\ \A p \in AllSpots :
                 Region(p) # Region(PeekSpot) => Region(Shifted[p]) # Region(PeekSpot)
<1>1. Region(None) # Region(PeekSpot)
  BY ConstantTypes, RegionIs
<1> QED  BY <1>1, ConstantTypes DEF Apart

LEMMA AfloatBare ==
    ASSUME NEW l, NEW s, NEW p, Afloat(l, s, p), s # PeekSize, Region(p) # Region(PeekSpot)
    PROVE  Bare(l)
  BY DEF Afloat, Bare

LEMMA LandedBare ==
    ASSUME NEW l \in Layout, Bare(l)
    PROVE  Bare(Landed(l))
<1>1. CASE l.float
  <2>1. PICK p \in AllSpots : p = l.pos
    BY <1>1, LayoutTypes
  <2>2. Landed(l).size = l.size /\ Landed(l).pos = Placed[p]
    BY <1>1, <2>1, AfterFields DEF Landed
  <2> QED  BY <2>1, <2>2, PlacedStays DEF Bare
<1>2. CASE ~l.float
  BY <1>2, AfterDoes DEF Landed
<1> QED  BY <1>1, <1>2

LEMMA UntrackedBare ==
    ASSUME TypeOK, Apart
    PROVE  /\ BareEntry(Untracked) /\ Untracked.peek = None /\ Untracked.managed # PeekSize
           /\ t.mode = "none" => t = Untracked /\ ~Peeking
  BY ApartTypes, UntrackedFields, EntryTypes DEF TypeOK, Fields, BareEntry, Peeking

\* What a request finds when no peek is on.
LEMMA BareFinds ==
    ASSUME TypeOK, TypeOK', CacheInv, IInv, Patient, Client, BareInv
    PROVE  /\ real \in Layout /\ seen = real /\ End' = Final(real, work') /\ real' = real
           /\ ~Peeking => Bare(real)
           /\ t.mode # "none" => real.float
<1>1. /\ real \in Layout /\ seen = real /\ End = real /\ End' = Final(real, work')
      /\ real' = real
      /\ t.mode # "none" => real.float
  BY ClientQuiet
<1> QED  BY <1>1 DEF BareInv

LEMMA PinBare ==
    ASSUME TypeOK, CacheInv, IInv, Patient, Apart, BareInv, Pin
    PROVE  BareInv'
<1>1. /\ TypeOK' /\ Client /\ t'.corner = PipSpot /\ t'.managed = None /\ t'.lock = None
      /\ t'.peek = None /\ t'.origin = seen /\ ~Peeking
  BY PinDoes, UntrackedBare DEF Client, Fields, Pin
<1>2. /\ real \in Layout /\ seen = real /\ End' = Final(real, work') /\ Bare(real)
  BY <1>1, BareFinds
<1>3. Bare(End')
  <2>1. CASE real.float
    <3>1. work' = <<>>
      BY <1>2, <2>1 DEF Pin, Request, FloatIf
    <3> QED  BY <1>2, <3>1, FinalOf
  <2>2. CASE ~real.float
    <3>1. work' = <<Float>>
      BY <1>2, <2>2 DEF Pin, Request, FloatIf
    <3>2. Afloat(End', real.size, FloatSpot)
      BY <1>2, <2>2, <3>1, Shapes, ConstantTypes
    <3> QED  BY <1>2, <3>2, AfloatBare, ApartTypes DEF Bare
  <2> QED  BY <2>1, <2>2
<1>4. UNCHANGED <<profile, controls>>
  BY DEF Pin
<1> QED  BY <1>1, <1>2, <1>3, <1>4, ApartTypes DEF BareInv, BareEntry, Peeking

LEMMA OverlayBare ==
    ASSUME TypeOK, CacheInv, IInv, Patient, Apart, BareInv, Overlay
    PROVE  BareInv'
<1>1. /\ TypeOK' /\ Client /\ t'.corner = OverlaySpot /\ t'.managed = OverlaySize
      /\ t'.peek = None /\ t'.origin = (IF t.mode = "none" THEN seen ELSE t.origin) /\ ~Peeking
  BY OverlayDoes DEF Client, Overlay
<1>2. t'.lock # None => t'.lock.size = OverlaySize /\ t'.lock.pos = OverlaySpot
  <2>1. t'.lock = (IF Locked THEN [size |-> OverlaySize, pos |-> OverlaySpot] ELSE None)
    BY OverlayDoes
  <2>2. PICK g : g = [size |-> OverlaySize, pos |-> OverlaySpot]
    OBVIOUS
  <2>3. g.size = OverlaySize /\ g.pos = OverlaySpot
    BY <2>2
  <2> QED  BY <2>1, <2>2, <2>3
<1>3. seen = real /\ Bare(real)
  BY <1>1, BareFinds
<1>4. Bare(End')
  BY OverlayKeeps, AfloatBare, ApartTypes
<1>5. UNCHANGED <<profile, controls>>
  BY DEF Overlay
<1> QED  BY <1>1, <1>2, <1>3, <1>4, <1>5, ApartTypes DEF BareInv, BareEntry, Peeking, Bare

LEMMA UnpinBare ==
    ASSUME TypeOK, CacheInv, IInv, Patient, RestoreLayout, Apart, BareInv, Unpin
    PROVE  BareInv'
<1>1. /\ TypeOK' /\ Client /\ t' = Untracked /\ t \in Tracked /\ t.mode # "none"
      /\ UNCHANGED <<profile, controls>>
  BY UnpinDoes DEF Client, Unpin
<1>2. t'.peek = None /\ t'.managed # PeekSize /\ BareEntry(t')
  BY <1>1, UntrackedBare
<1>3. /\ real.float /\ real \in Layout /\ End' = Final(real, work') /\ (~Peeking => Bare(real))
  BY <1>1, BareFinds
<1>4. work' = UnpinActs
  BY DEF Unpin, Request
<1>5. Bare(End')
  <2>1. CASE IsAuto /\ ~Peeking
    <3>1. work' = <<>>
      BY <1>4, <2>1 DEF UnpinActs
    <3> QED  BY <1>3, <2>1, <3>1, FinalOf
  <2>2. CASE IsAuto /\ Peeking
    <3>1. t.peek.geom.size \in AllSizes /\ t.peek.geom.pos \in AllSpots
      BY <1>1, <2>2, EntryTypes DEF Peeking, Peek, Geom
    <3>2. work' = <<Size(t.peek.geom.size), Place(t.peek.geom.pos)>>
      BY <1>4, <2>2 DEF UnpinActs, Show
    <3>3. Afloat(End', t.peek.geom.size, t.peek.geom.pos)
      BY <1>3, <3>1, <3>2, Shapes
    <3> QED  BY <2>2, <3>3, AfloatBare DEF BareInv, Bare
  <2>3. CASE ~IsAuto
    <3>1. t.origin \in Layout /\ base' = t.origin
      BY <1>1, <2>3, EntryTypes DEF IsAuto, Unpin
    <3>2. End' = Landed(t.origin)
      BY <1>2, <3>1, UnpinKeeps, ConstantTypes DEF IInv, BaseInv, Peeking
    <3> QED  BY <3>1, <3>2, LandedBare, ConstantTypes DEF BareInv, BareEntry
  <2> QED  BY <2>1, <2>2, <2>3
<1> QED  BY <1>1, <1>2, <1>5 DEF BareInv, Peeking

LEMMA PeekBare ==
    ASSUME TypeOK, CacheInv, IInv, Patient, Apart, BareInv, PeekOn \/ PeekOff
    PROVE  BareInv'
<1>1. UNCHANGED <<profile, controls>>
  BY DEF PeekOn, PeekOff
<1>2. CASE PeekOn
  <2>1. /\ TypeOK' /\ Client /\ t.mode # "none" /\ t.peek = None /\ t'.corner = t.corner
        /\ t'.lock = t.lock /\ t'.origin = t.origin /\ t'.peek # None
        /\ t'.peek.geom = GeomOr(seen, t.corner) /\ t'.peek.managed = t.managed
    BY <1>2, PeekOnDoes DEF Client, PeekOn
  <2>2. Bare(real) /\ t'.peek.geom.size = real.size /\ t'.peek.geom.pos = real.pos
    BY <2>1, BareFinds, TrackedQuiet DEF Peeking
  <2> QED  BY <1>1, <2>1, <2>2 DEF BareInv, BareEntry, Peeking, Bare
<1>3. CASE PeekOff
  <2>1. /\ TypeOK' /\ Client /\ t.mode # "none" /\ t'.corner = t.corner /\ Peeking
        /\ t'.lock = t.lock /\ t'.origin = t.origin /\ t'.peek = None
        /\ t'.managed = t.peek.managed
        /\ t.peek.geom.size \in AllSizes /\ t.peek.geom.pos \in AllSpots
    BY <1>3, PeekOffDoes DEF Client, PeekOff, Geom
  <2>2. work' = <<Size(t.peek.geom.size), Place(t.peek.geom.pos)>>
    BY <1>3 DEF PeekOff, Request, Show
  <2>3. Afloat(End', t.peek.geom.size, t.peek.geom.pos)
    BY <2>1, <2>2, BareFinds, Shapes
  <2>4. Bare(End')
    BY <2>1, <2>3, AfloatBare DEF BareInv, Bare
  <2> QED  BY <1>1, <2>1, <2>4 DEF BareInv, BareEntry, Peeking
<1> QED  BY <1>2, <1>3

\* A request with a window that is tracked and does not peek.
LEMMA GovernedFinds ==
    ASSUME TypeOK, TypeOK', CacheInv, IInv, Patient, Client, BareInv, t.mode # "none",
           t.peek = None
    PROVE  /\ real \in Layout /\ real.size # PeekSize
           /\ Region(real.pos) # Region(PeekSpot) /\ real.pos \in AllSpots
           /\ seen = real /\ End' = Final(real, work')
           /\ GeomOr(seen, t.corner).size = real.size /\ GeomOr(seen, t.corner).pos = real.pos
           /\ profile # None => profile.size # PeekSize /\ Region(profile.pos) # Region(PeekSpot)
           /\ t.lock # None => t.lock.size # PeekSize /\ Region(t.lock.pos) # Region(PeekSpot)
           /\ Region(controls.corner) # Region(PeekSpot)
           /\ Region(t.corner) # Region(PeekSpot) /\ t.managed # PeekSize
           /\ t.origin # None => Bare(t.origin)
<1>1. Bare(real)
  BY BareFinds DEF Peeking
<1> QED  BY <1>1, TrackedQuiet DEF BareInv, BareEntry, Bare, Peeking

LEMMA ResizeBare ==
    ASSUME TypeOK, CacheInv, IInv, Patient, Apart, BareInv, NEW s \in Sizes, Resize(s)
    PROVE  BareInv'
<1>1. /\ TypeOK' /\ Client /\ t.mode # "none" /\ t.peek = None
      /\ t'.corner = t.corner /\ t'.managed = s /\ t'.peek = None /\ t'.origin = t.origin
      /\ t.lock = None => t'.lock = None
      /\ t.lock # None => t'.lock.size = s /\ t'.lock.pos = t.lock.pos
      /\ ~IsAuto => profile' = profile
      /\ IsAuto => /\ profile'.size = s
                   /\ profile # None => profile'.pos = profile.pos
                   /\ profile = None => profile'.pos = GeomOr(seen, t.corner).pos
      /\ UNCHANGED controls
  BY ResizeDoes DEF Client, Resize
<1>2. s # PeekSize
  BY ApartTypes
<1>3. Afloat(End', s, real.pos)
  BY ResizeKeeps
<1> QED  BY <1>1, <1>2, <1>3, GovernedFinds DEF BareInv, BareEntry, Bare, Peeking, Afloat

LEMMA SetPositionBare ==
    ASSUME TypeOK, CacheInv, IInv, Patient, Apart, BareInv, NEW p \in Spots, SetPosition(p)
    PROVE  BareInv'
<1>1. /\ TypeOK' /\ Client /\ t.mode # "none" /\ t.peek = None
      /\ t'.corner = p /\ t'.managed = t.managed /\ t'.peek = None /\ t'.origin = t.origin
      /\ t.lock = None => t'.lock = None
      /\ t.lock # None => t'.lock.size = seen.size /\ t'.lock.pos = p
      /\ ~IsAuto => profile' = profile /\ controls' = controls
      /\ IsAuto => profile'.size = seen.size /\ profile'.pos = p /\ controls'.corner = p
  BY SetPositionDoes DEF Client
<1>2. Region(p) # Region(PeekSpot)
  BY ApartTypes
<1>3. Afloat(End', real.size, p)
  BY SetPositionKeeps
<1> QED  BY <1>1, <1>2, <1>3, GovernedFinds DEF BareInv, BareEntry, Bare, Peeking, Afloat

LEMMA NudgeBare ==
    ASSUME TypeOK, CacheInv, IInv, Patient, Apart, BareInv, Nudge
    PROVE  BareInv'
<1>1. TypeOK' /\ Client /\ t.mode # "none" /\ t.peek = None
  BY NudgeDoes DEF Client
<1>2. /\ t'.corner = t.corner /\ t'.managed = t.managed /\ t'.peek = None /\ t'.origin = t.origin
      /\ t.lock = None => t'.lock = None
      /\ t.lock # None => t'.lock.size = real.size /\ t'.lock.pos = Shifted[real.pos]
      /\ ~IsAuto => profile' = profile
      /\ IsAuto => profile'.size = real.size /\ profile'.pos = Shifted[real.pos]
      /\ UNCHANGED controls
  BY <1>1, BareFinds, NudgeDoes DEF Nudge
<1>3. Region(Shifted[real.pos]) # Region(PeekSpot)
  BY <1>1, ApartTypes, GovernedFinds
<1>4. Afloat(End', real.size, Shifted[real.pos])
  BY NudgeKeeps
<1> QED  BY <1>1, <1>2, <1>3, <1>4, GovernedFinds DEF BareInv, BareEntry, Bare, Peeking, Afloat

LEMMA LockBare ==
    ASSUME TypeOK, CacheInv, IInv, Patient, Apart, BareInv, Lock \/ Unlock
    PROVE  BareInv'
<1>1. /\ TypeOK' /\ Client /\ t.mode # "none" /\ t.peek = None
      /\ t'.corner = t.corner /\ t'.managed = t.managed /\ t'.peek = None
      /\ t'.origin = t.origin
      /\ t'.lock = None \/ t'.lock = GeomOr(seen, t.corner)
      /\ profile' = profile \/ profile' = GeomOr(seen, t.corner)
      /\ controls'.corner = controls.corner
  <2>1. CASE Lock
    BY <2>1, LockDoes DEF Client
  <2>2. CASE Unlock
    BY <2>2, UnlockDoes DEF Client, Unlock
  <2> QED  BY <2>1, <2>2
<1>2. work' = <<>>
  BY DEF Lock, Unlock, Request
<1>3. End' = real
  BY <1>1, <1>2, BareFinds, FinalOf
<1> QED  BY <1>1, <1>3, GovernedFinds DEF BareInv, BareEntry, Bare, Peeking

LEMMA ResetGeometryBare ==
    ASSUME TypeOK, CacheInv, IInv, Patient, Apart, BareInv, ResetGeometry
    PROVE  BareInv'
<1>1. /\ TypeOK' /\ Client /\ t.mode # "none" /\ t.peek = None
      /\ t'.corner = PipSpot /\ t'.managed = (IF IsAuto THEN PipSize ELSE t.managed)
      /\ t'.peek = None /\ t'.origin = t.origin /\ t'.lock = None
  BY ResetGeometryDoes DEF Client
<1>2. Region(PipSpot) # Region(PeekSpot) /\ PipSize # PeekSize
  BY ApartTypes
<1>3. CASE IsAuto
  <2>1. /\ work' = <<Size(PipSize), Place(PipSpot)>>
        /\ profile'.size = PipSize /\ profile'.pos = PipSpot /\ controls'.corner = PipSpot
    BY <1>3, ResetGeometryDoes DEF ResetGeometry, Request
  <2>2. real \in Layout /\ real.float /\ End' = Final(real, work')
    BY <1>1, BareFinds
  <2>3. Afloat(End', PipSize, PipSpot)
    BY <2>1, <2>2, Shapes, ConstantTypes
  <2> QED  BY <1>1, <1>2, <1>3, <2>1, <2>3, GovernedFinds
           DEF BareInv, BareEntry, Bare, Peeking, Afloat
<1>4. CASE ~IsAuto
  <2>1. work' = <<>> /\ UNCHANGED <<profile, controls>>
    BY <1>4 DEF ResetGeometry, Request
  <2>2. End' = real
    BY <1>1, <2>1, BareFinds, FinalOf
  <2> QED  BY <1>1, <1>2, <1>4, <2>1, <2>2, GovernedFinds
           DEF BareInv, BareEntry, Bare, Peeking
<1> QED  BY <1>3, <1>4

LEMMA ResetLearnedBare ==
    ASSUME TypeOK, CacheInv, IInv, Patient, Apart, BareInv, ResetLearned
    PROVE  BareInv'
<1>1. TypeOK' /\ Client /\ controls'.corner = PipSpot
  BY ResetLearnedDoes DEF Client
<1>2. work' = <<>> /\ profile' = None /\ t' = t
  BY DEF ResetLearned, Request
<1>3. End' = real /\ End = real
  BY <1>1, <1>2, BareFinds, FinalOf, ClientQuiet
<1> QED  BY <1>1, <1>2, <1>3, ApartTypes DEF BareInv, BareEntry, Peeking

LEMMA ClientBare ==
    ASSUME TypeOK, CacheInv, IInv, Patient, RestoreLayout, Apart, BareInv, Client
    PROVE  BareInv'
  BY PinBare, OverlayBare, UnpinBare, PeekBare, ResizeBare, SetPositionBare, NudgeBare, LockBare,
     ResetGeometryBare, ResetLearnedBare DEF Client

\* Where the engine wants a window that does not peek.
LEMMA DesiredBare ==
    ASSUME TypeOK, BareInv, ~Peeking
    PROVE  Region(DesiredSpot) # Region(PeekSpot)
  BY DEF BareInv, BareEntry, Bare, DesiredSpot, Locked

LEMMA HandleLayoutBare ==
    ASSUME TypeOK, IInv, Apart, BareInv, HandleLayout
    PROVE  BareInv'
<1>1. /\ TypeOK' /\ seen' = Head(queue).layout /\ Receive("layout") /\ UNCHANGED controls
      /\ t'.corner = t.corner /\ t'.mode = t.mode
      /\ t'.peek = t.peek /\ t'.origin = t.origin /\ t'.lock = t.lock
  BY HandleLayoutDoes, LayoutFinds
<1>2. real' = real /\ work' = work /\ IInv'
  BY <1>1, ReceiveFinds, HandleLayoutKeeps
<1>3. CASE Counts /\ Locked
  <2>1. UNCHANGED <<t, profile>> /\ Fresh /\ t.mode # "none" /\ ~Peeking
    BY <1>3, HandleLayoutDoes, LayoutFinds DEF Counts
  <2>2. Matches(End', t.lock)
    BY <1>1, <1>2, <1>3, <2>1, ReceiveFinds
       DEF IInv, GoalInv, Governed, Peeking, Reached, Locked
  <2> QED  BY <1>1, <1>3, <2>1, <2>2 DEF BareInv, BareEntry, Bare, Peeking, Matches, Locked
<1>4. CASE Counts /\ ~Locked /\ IsAuto /\ seen'.float
  <2>1. /\ profile' \in Geom /\ profile'.size = seen'.size /\ profile'.pos = seen'.pos
        /\ t'.managed = seen'.size
    BY <1>4, HandleLayoutDoes
  <2>2. /\ Fresh /\ seen' = real /\ End = real /\ ~Peeking
    BY <1>1, <1>4, LayoutFinds, ReceiveFinds DEF Counts
  <2>3. Bare(real)
    BY <2>2 DEF BareInv
  <2>4. Matches(End', profile')
    BY <1>1, <1>2, <1>4, <2>1, <2>2, ReceiveFinds, ConstantTypes
       DEF IInv, GoalInv, Governed, Peeking, Reached, Locked, IsAuto, Counts
  <2> QED  BY <1>1, <2>1, <2>2, <2>3, <2>4 DEF BareInv, BareEntry, Bare, Peeking, Matches
<1>5. CASE Counts => ~Locked /\ (IsAuto => ~seen'.float)
  <2>1. UNCHANGED <<t, profile, loop>>
    BY <1>5, HandleLayoutDoes
  <2>2. End' = End
    BY <1>2, <2>1 DEF End, Acts
  <2> QED  BY <1>1, <2>1, <2>2 DEF BareInv, BareEntry, Peeking
<1> QED  BY <1>3, <1>4, <1>5, HandleLayoutDoes

LEMMA ClassifyingBare ==
    ASSUME TypeOK, IInv, Apart, BareInv, HandleChanged \/ HandleSnapshot
    PROVE  BareInv'
<1>1. PICK type \in {"changed", "snapshot"} : Receive(type)
  BY DEF HandleChanged, HandleSnapshot
<1>2. PICK l \in Layout : /\ TypeOK' /\ l = Head(queue).layout /\ seen' = l /\ Classified(l)
                          /\ UNCHANGED <<ignored, controls>>
  BY ClassifyingDoes
<1>3. type # "layout" /\ real' = real /\ work' = work
  BY <1>1, ReceiveFinds
<1>4. CASE t.mode # "none"
  <2>1. UNCHANGED <<t, profile, base>> /\ Refloat(l)
    BY <1>2, <1>4 DEF Classified
  <2>2. ~Peeking => Bare(End')
    <3>1. CASE l.float
      <4>1. UNCHANGED loop
        BY <1>4, <2>1, <3>1, RefloatDoes
      <4>2. End' = End
        BY <1>3, <4>1 DEF End, Acts
      <4> QED  BY <4>2 DEF BareInv
    <3>2. CASE ~l.float /\ ~Peeking
      <4>1. IsAuto /\ Afloat(End', DesiredSize, DesiredSpot)
        BY <1>1, <1>2, <1>3, <1>4, <2>1, <3>2, RefloatKeeps
      <4>2. Agreed
        BY <1>4, <3>2 DEF IInv, GoalInv, Governed
      <4>3. DesiredSize # PeekSize
        BY <3>2, <4>1, <4>2 DEF BareInv, DesiredSize, Agreed
      <4> QED  BY <3>2, <4>1, <4>3, DesiredBare, AfloatBare
    <3> QED  BY <3>1, <3>2
  <2> QED  BY <1>2, <2>1, <2>2 DEF BareInv, BareEntry, Peeking
<1>5. CASE t.mode = "none" /\ ~(IsPip /\ ~ignored)
  <2>1. UNCHANGED <<t, profile, loop>>
    BY <1>2, <1>5 DEF Classified
  <2>2. End' = End
    BY <1>3, <2>1 DEF End, Acts
  <2> QED  BY <1>2, <2>1, <2>2 DEF BareInv, BareEntry, Peeking
<1>6. CASE t.mode = "none" /\ IsPip /\ ~ignored
  <2>1. /\ suppressed' /\ base' = None /\ t'.mode = "auto" /\ t'.corner = controls.corner
        /\ t'.peek = None /\ t'.origin = None
        /\ Anew(l) \/ Adopted(l)
    BY <1>2, <1>6 DEF Classified
  <2>2. ~Peeking
    BY <1>6, UntrackedBare
  <2>3. CASE Anew(l)
    <3>1. PICK s \in AllSizes, p \in AllSpots :
             /\ s = (IF profile # None THEN profile.size ELSE PipSize)
             /\ p = (IF profile # None THEN profile.pos ELSE controls.corner)
             /\ t'.managed = s
             /\ IF controls.locked THEN t'.lock \in Geom /\ t'.lock.size = s /\ t'.lock.pos = p
                ELSE t'.lock = None
             /\ profile' = profile
      BY <2>3 DEF Anew
    <3>2. s # PeekSize /\ Region(p) # Region(PeekSpot)
      BY <3>1, ApartTypes DEF BareInv, Bare
    <3>3. Afloat(End', t'.managed, IF profile # None THEN profile.pos ELSE controls.corner)
      BY <1>1, <1>2, <1>3, <1>6, <2>1, <2>3, AnewKeeps
    <3>4. Bare(End')
      BY <3>1, <3>2, <3>3, AfloatBare
    <3>5. t'.lock # None => Bare(t'.lock)
      BY <3>1, <3>2 DEF Bare
    <3> QED  BY <1>2, <2>1, <3>1, <3>2, <3>4, <3>5 DEF BareInv, BareEntry, Peeking
  <2>4. CASE Adopted(l)
    <3>1. /\ l = real /\ End = real /\ (~l.float => profile = None)
          /\ l.float => End' = l
          /\ ~l.float => Afloat(End', l.size, FloatSpot)
      BY <1>1, <1>2, <1>3, <1>6, <2>1, <2>4, AdoptedKeeps
    <3>2. Bare(l)
      BY <2>2, <3>1 DEF BareInv
    <3>3. Bare(End')
      BY <3>1, <3>2, AfloatBare, ApartTypes DEF Bare
    <3>4. t'.managed = l.size /\ t'.lock = None
      BY <2>4 DEF Adopted
    <3>5. profile' # None => Bare(profile')
      BY <2>4, <3>1, <3>2 DEF Adopted, Bare
    <3> QED  BY <1>2, <2>1, <3>2, <3>3, <3>4, <3>5 DEF BareInv, BareEntry, Peeking, Bare
  <2> QED  BY <2>1, <2>3, <2>4
<1> QED  BY <1>4, <1>5, <1>6

LEMMA WorldBare ==
    ASSUME TypeOK, CacheInv, IInv, Patient, Apart, "restart" \notin Mishaps, BareInv,
           OutputsChanged \/ RestartDaemon
    PROVE  BareInv'
<1>1. CASE OutputsChanged
  <2>1. UNCHANGED <<profile, controls, t>> /\ Settled
    BY <1>1 DEF OutputsChanged
  <2>2. ~Peeking => Bare(End')
    <3>1. End = real
      BY <2>1, SettledFinds
    <3>2. ~Peeking /\ Afloat(End', real.size, DesiredSpot) => Bare(End')
      BY <3>1, DesiredBare, AfloatBare DEF BareInv, Bare
    <3> QED  BY <1>1, <3>2, OutputsChangedKeeps DEF BareInv
  <2> QED  BY <2>1, <2>2 DEF BareInv, BareEntry, Peeking
<1>2. CASE RestartDaemon
  <2>1. /\ UNCHANGED <<profile, controls, real>> /\ Settled /\ ~Peeking /\ t' = Untracked
        /\ work' = <<>> /\ loop' = <<>>
    BY <1>2 DEF RestartDaemon
  <2>2. End' = real /\ End = real
    BY <2>1, SettledFinds, FinalOf DEF End, Acts
  <2>3. BareEntry(t') /\ t'.peek = None /\ t'.managed # PeekSize
    BY <2>1, UntrackedBare
  <2> QED  BY <2>1, <2>2, <2>3 DEF BareInv, Peeking
<1> QED  BY <1>1, <1>2

LEMMA UserBare ==
    ASSUME TypeOK, IInv, Patient, "outage" \notin Mishaps, Apart, BareInv,
           NEW l \in Layout, UserActs(l), ~Peeking => Bare(l)
    PROVE  BareInv'
<1>1. /\ UNCHANGED <<t, profile, controls, work, loop>> /\ Quiet /\ LayoutBecomes(l)
  BY DEF UserActs
<1>2. real' = l
  BY <1>1 DEF LayoutBecomes
<1>3. End' = l
  BY <1>1, <1>2, FinalOf DEF End, Acts, Quiet
<1> QED  BY <1>1, <1>3 DEF BareInv, BareEntry, Peeking

LEMMA BareStep ==
    ASSUME Patient, RestoreLayout, Apart, Mishaps = {}
    PROVE  TypeOK /\ CacheInv /\ IInv /\ BareInv /\ [Next]_vars => BareInv'
<1> SUFFICES ASSUME TypeOK, CacheInv, IInv, BareInv, [Next]_vars PROVE BareInv'
  OBVIOUS
<1>1. CASE Client
  BY <1>1, ClientBare
<1>2. CASE Work \/ LoopAct
  <2>1. UNCHANGED <<profile, controls, t>> /\ End' = End
    BY <1>2, TypeStep, WorkKeeps, LoopActKeeps DEF Work, LoopAct
  <2> QED  BY <2>1 DEF BareInv, BareEntry, Peeking
<1>3. CASE HandleLayout \/ HandleChanged \/ HandleSnapshot
  BY <1>3, HandleLayoutBare, ClassifyingBare
<1>4. CASE OutputsChanged \/ RestartDaemon
  BY <1>4, WorldBare
<1>5. CASE SuppressionEnds \/ Connect \/ CutStream \/ UNCHANGED vars
  <2>1. UNCHANGED <<real, t, profile, controls, work, loop>>
    BY <1>5 DEF SuppressionEnds, Connect, CutStream, vars
  <2>2. End' = End
    BY <2>1 DEF End, Acts
  <2> QED  BY <2>1, <2>2 DEF BareInv, BareEntry, Peeking
<1>6. CASE (\E p \in Spots : UserDrags(p)) \/ (\E s \in Sizes : UserResizes(s)) \/ UserTiles
  <2>1. PICK l \in Layout :
           /\ UserActs(l)
           /\ \/ \E p \in Spots : UserDrags(p) /\ real.float
                   /\ l = [float |-> TRUE, size |-> real.size, pos |-> p]
              \/ \E s \in Sizes : UserResizes(s)
                   /\ l = [float |-> real.float, size |-> s, pos |-> real.pos]
              \/ /\ UserTiles /\ real.float
                 /\ l = [float |-> FALSE, size |-> real.size, pos |-> None]
    BY <1>6, UserMoves
  <2>2. link = "on" \/ t = Untracked
    BY <2>1 DEF UserActs
  <2>3. End = real
    BY <2>1, <2>2, QuietFinds DEF UserActs
  <2>4. ~Peeking => Bare(l)
    <3> SUFFICES ASSUME ~Peeking PROVE Bare(l)
      OBVIOUS
    <3>1. real.size # PeekSize /\ Region(real.pos) # Region(PeekSpot)
      BY <2>3 DEF BareInv, Bare
    <3>2. \/ l.size = real.size \/ l.size \in Sizes
      BY <2>1
    <3>3. l.pos = real.pos \/ l.pos \in Spots \cup {None}
      BY <2>1
    <3> QED  BY <3>1, <3>2, <3>3, ApartTypes DEF Bare
  <2> QED  BY <2>1, <2>4, UserBare
<1> QED  BY <1>1, <1>2, <1>3, <1>4, <1>5, <1>6 DEF Next, Daemon, World

\* Neither the size nor the spot that Engine::set_peek gives a window is ever remembered
\* as its own: if an unpin restores what was there before the pin (it would leave the
\* window as the peek has it) and the daemon is not restarted during a peek.
THEOREM PeekIsNotLearned ==
    ASSUME Patient, RestoreLayout, Apart, Mishaps = {}
    PROVE  Spec => []PeekNeverLearned
<1>1. "outage" \notin Mishaps /\ "tile" \notin Mishaps
  OBVIOUS
<1>2. Spec => [](TypeOK /\ CacheInv /\ IInv)
  BY <1>1, Inductive
<1>3. Init => BareInv
  <2> SUFFICES ASSUME Init PROVE BareInv
    OBVIOUS
  <2>1. /\ t = Untracked /\ profile = None /\ controls = DefaultControls /\ work = <<>>
        /\ loop = <<>> /\ real \in InitialLayouts
    BY DEF Init
  <2>2. End = real /\ Bare(real)
    BY <2>1, FinalOf DEF End, Acts, Apart
  <2>3. Region(controls.corner) # Region(PeekSpot)
    BY <2>1, ApartTypes DEF DefaultControls
  <2>4. BareEntry(t) /\ ~Peeking /\ t.managed # PeekSize
    BY <2>1, InitTypes, UntrackedBare DEF Peeking
  <2> QED  BY <2>1, <2>2, <2>3, <2>4 DEF BareInv
<1>4. TypeOK /\ CacheInv /\ IInv /\ BareInv /\ [Next]_vars => BareInv'
  BY BareStep
<1>5. BareInv => PeekNeverLearned
  BY DEF BareInv, PeekNeverLearned, Bare
<1> QED  BY <1>2, <1>3, <1>4, <1>5, PTL DEF Spec

===============================================================================
