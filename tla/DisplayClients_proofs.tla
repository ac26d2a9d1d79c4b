------------------------ MODULE DisplayClients_proofs ------------------------
(* Theorems about the desktop with its clients: the keyboard has a window, the  *)
(* server maps one image of each surface, and each client draws into the image *)
(* that is shown unless it lost a message, whatever clients and keys do.       *)
EXTENDS DisplayClients, SequenceTheorems, FiniteSetTheorems, TLAPS

(* Surfaces w whose images have names of their own below n, and windows ws that *)
(* are such surfaces, each once.                                             *)
Made(w) == {c \in Clients : w[c] # NoSurface}
Surfaces(w, n) ==
    /\ n \in Nat \ {0}
    /\ w = [c \in Clients |-> w[c]]
    /\ \A c \in Made(w) : w[c].image.id \in 1..(n - 1)
    /\ \A c, d \in Made(w) : w[c].image.id = w[d].image.id => c = d
OnSurfaces(ws, w) == ws \in Seq(Clients) /\ IsInjective(ws) /\ Range(ws) \subseteq Made(w)

WindowsOnSurfaces == Surfaces(win, serial) /\ OnSurfaces(windows, win)
MapsWhatIsMade == mapped = Of(win, Made(win))

DInv == WindowsOnSurfaces /\ MapsWhatIsMade /\ FocusOnWindow

-----------------------------------------------------------------------------
(* New images have names of their own. *)
LEMMA Numbering ==
    ASSUME NEW L \in Nat, NEW new \in SUBSET (1..L)
    PROVE  /\ IsFiniteSet(new) /\ Cardinality(new) \in Nat
           /\ \A i \in new : Cardinality({j \in new : j < i}) \in 0..(Cardinality(new) - 1)
           /\ \A i, k \in new :
                 Cardinality({j \in new : j < i}) = Cardinality({j \in new : j < k}) => i = k
<1> DEFINE Below(i) == {j \in new : j < i}
<1>1. /\ IsFiniteSet(new) /\ Cardinality(new) \in Nat
      /\ \A i \in new : i \in Int
  <2>1. IsFiniteSet(1..L)
    BY FS_Interval
  <2>2. IsFiniteSet(new)
    BY <2>1, FS_Subset
  <2>3. Cardinality(new) \in Nat
    BY <2>2, FS_CardinalityType
  <2> QED
    BY <2>2, <2>3
<1>2. ASSUME NEW T \in SUBSET new PROVE IsFiniteSet(T) /\ Cardinality(T) \in Nat
  BY <1>1, FS_Subset, FS_CardinalityType
<1>3. ASSUME NEW i \in new, NEW T \in SUBSET new, Below(i) \subseteq T, i \in T
      PROVE  Cardinality(Below(i)) < Cardinality(T)
  <2>0. i \notin Below(i)
    BY <1>1
  <2>1. Below(i) \in SUBSET T /\ Below(i) # T
    BY <1>3, <2>0
  <2>2. IsFiniteSet(T) /\ Cardinality(T) \in Nat /\ Cardinality(Below(i)) \in Nat
    BY <1>2
  <2> QED
    BY <2>1, <2>2, FS_Subset
<1>4. \A i \in new : Cardinality(Below(i)) \in 0..(Cardinality(new) - 1)
  BY <1>1, <1>2, <1>3
<1>5. ASSUME NEW i \in new, NEW k \in new, i < k PROVE Cardinality(Below(i)) < Cardinality(Below(k))
  <2>1. \A j \in Below(i) : j < k
    BY <1>5, <1>1
  <2>2. Below(i) \subseteq Below(k) /\ i \in Below(k) /\ Below(k) \in SUBSET new
    BY <1>5, <2>1
  <2> QED
    BY <2>2, <1>3
<1>6. ASSUME NEW i \in new, NEW k \in new, Cardinality(Below(i)) = Cardinality(Below(k))
      PROVE i = k
  <2>1. Cardinality(Below(i)) \in Nat /\ Cardinality(Below(k)) \in Nat
    BY <1>2
  <2>2. ~(i < k) /\ ~(k < i)
    BY <1>5, <1>6, <2>1
  <2> QED
    BY <2>2
<1> QED
  BY <1>1, <1>4, <1>6

LEMMA IndexOf ==
    ASSUME NEW ws \in Seq(Clients), NEW c \in Range(ws)
    PROVE  Index(ws, c) \in 1..Len(ws) /\ ws[Index(ws, c)] = c
<1>1. \E i \in DOMAIN ws : ws[i] = c
  BY DEF Range
<1> QED
  BY <1>1 DEF Index

LEMMA IndexAt ==
    ASSUME NEW ws \in Seq(Clients), IsInjective(ws), NEW i \in 1..Len(ws)
    PROVE  Index(ws, ws[i]) = i
<1>1. ws[i] \in Range(ws)
  BY DEF Range
<1> QED
  BY <1>1, IndexOf DEF IsInjective

(* The images of the surfaces cs are replaced by others, named from n up to k. *)
Replaces(w, w2, cs, n, k) ==
    /\ n \in Nat \ {0} /\ k \in Nat /\ n <= k /\ cs \subseteq Made(w)
    /\ w2 = [c \in Clients |-> w2[c]]
    /\ \A c \in cs : w2[c].image.id \in n..(k - 1)
    /\ \A c, d \in cs : w2[c].image.id = w2[d].image.id => c = d
    /\ \A c \in Clients \ cs : w2[c].image = w[c].image /\ (c \in Made(w2) <=> c \in Made(w))

LEMMA Exchanging ==
    ASSUME NEW w, NEW w2, NEW cs, NEW n, NEW k, Surfaces(w, n), Replaces(w, w2, cs, n, k)
    PROVE  /\ Surfaces(w2, k) /\ Made(w2) = Made(w)
           /\ Exchanged(Of(w, Made(w)), w, w2, cs) = Of(w2, Made(w2))
<1> /\ n \in Nat \ {0} /\ k \in Nat /\ n <= k /\ cs \in SUBSET Made(w)
    /\ w2 = [c \in Clients |-> w2[c]]
    /\ \A c \in cs : w2[c].image.id \in n..(k - 1)
    /\ \A c, d \in cs : w2[c].image.id = w2[d].image.id => c = d
    /\ \A c \in Clients \ cs : w2[c].image = w[c].image /\ (c \in Made(w2) <=> c \in Made(w))
  BY DEF Replaces
<1>1. NoSurface.image.id = 0
  BY DEF NoSurface, Image
<1>2. cs \subseteq Clients /\ Made(w) \subseteq Clients
  BY DEF Made
<1>3. ASSUME NEW c \in cs PROVE c \in Made(w2) /\ c \in Made(w)
  <2>1. w2[c].image.id \in n..(k - 1)
    OBVIOUS
  <2>2. w2[c].image.id # 0
    BY <2>1
  <2> QED
    BY <1>1, <1>2, <2>2 DEF Made
<1>4. Made(w2) = Made(w)
  BY <1>3, <1>2 DEF Made
<1>5. ASSUME NEW c \in Made(w), c \notin cs
      PROVE  w2[c].image = w[c].image /\ w2[c].image.id \in 1..(n - 1)
  <2>1. c \in Clients \ cs /\ w[c].image.id \in 1..(n - 1)
    BY <1>5, <1>2 DEF Surfaces
  <2> QED
    BY <2>1
<1>6. ASSUME NEW c \in Made(w), NEW d \in Made(w), w2[c].image.id = w2[d].image.id PROVE c = d
  <2>1. CASE c \in cs /\ d \in cs
    BY <2>1, <1>6
  <2>2. CASE c \notin cs /\ d \notin cs
    BY <2>2, <1>5, <1>6 DEF Surfaces
  <2>3. CASE c \in cs /\ d \notin cs
    <3>1. w2[c].image.id \in n..(k - 1) /\ w2[d].image.id \in 1..(n - 1)
      BY <2>3, <1>5
    <3> QED
      BY <3>1, <1>6
  <2>4. CASE c \notin cs /\ d \in cs
    <3>1. w2[d].image.id \in n..(k - 1) /\ w2[c].image.id \in 1..(n - 1)
      BY <2>4, <1>5
    <3> QED
      BY <3>1, <1>6
  <2> QED
    BY <2>1, <2>2, <2>3, <2>4
<1>7. ASSUME NEW c \in Made(w) PROVE w2[c].image.id \in 1..(k - 1)
  <2>1. CASE c \in cs
    <3>1. w2[c].image.id \in n..(k - 1)
      BY <2>1
    <3> QED
      BY <3>1
  <2>2. CASE c \notin cs
    <3>1. w2[c].image.id \in 1..(n - 1)
      BY <2>2, <1>5
    <3> QED
      BY <3>1
  <2> QED
    BY <2>1, <2>2
<1>8. Surfaces(w2, k)
  <2>1. k \in Nat \ {0}
    OBVIOUS
  <2>2. \A c \in Made(w2) : w2[c].image.id \in 1..(k - 1)
    BY <1>4, <1>7
  <2>3. \A c, d \in Made(w2) : w2[c].image.id = w2[d].image.id => c = d
    BY <1>4, <1>6
  <2> QED
    BY <2>1, <2>2, <2>3 DEF Surfaces
<1>9. Of(w, Made(w)) \ Of(w, cs) = Of(w, Made(w) \ cs)
  <2>1. \A c, d \in Made(w) : w[c].image = w[d].image => c = d
    BY DEF Surfaces
  <2> QED
    BY <2>1 DEF Of
<1>10. Of(w, Made(w) \ cs) = Of(w2, Made(w) \ cs)
  BY <1>5 DEF Of
<1>11. Of(w2, Made(w) \ cs) \cup Of(w2, cs) = Of(w2, Made(w))
  BY DEF Of
<1> QED
  BY <1>4, <1>8, <1>9, <1>10, <1>11 DEF Exchanged

(* The windows ws tiled, those at the indices new having new images. *)
LEMMA TilingKeeps ==
    ASSUME NEW ws, NEW w, NEW n \in Nat \ {0}, NEW new \in SUBSET (1..Len(ws)),
           Surfaces(w, n), OnSurfaces(ws, w)
    PROVE  LET w2 == Tiled(ws, w, new, n)
               cs == Resized(ws, new)
           IN  /\ Surfaces(w2, n + Cardinality(new)) /\ Made(w2) = Made(w)
               /\ Exchanged(Of(w, Made(w)), w, w2, cs) = Of(w2, Made(w2))
<1> DEFINE w2 == Tiled(ws, w, new, n)
           cs == Resized(ws, new)
           Before(i) == Cardinality({j \in new : j < i})
<1>3. /\ ws \in Seq(Clients) /\ IsInjective(ws) /\ Range(ws) \subseteq Made(w)
      /\ Len(ws) \in Nat /\ DOMAIN ws = 1..Len(ws)
  BY DEF OnSurfaces
<1>4. /\ Cardinality(new) \in Nat
      /\ \A i \in new : Before(i) \in 0..(Cardinality(new) - 1)
      /\ \A i, k \in new : Before(i) = Before(k) => i = k
  BY <1>3, Numbering
<1>5. cs \subseteq Range(ws) /\ \A c \in Range(ws) : c \in cs <=> Index(ws, c) \in new
  <2>1. \A i \in 1..Len(ws) : Index(ws, ws[i]) = i
    BY IndexAt, <1>3
  <2> QED
    BY <1>3, <2>1, IndexOf DEF Resized, Range
<1>6. w2 = [c \in Clients |-> w2[c]]
  BY DEF Tiled
<1>7. ASSUME NEW c \in Clients
      PROVE  w2[c] = IF c \in Range(ws) THEN Placed(ws, w, new, n, Index(ws, c)) ELSE w[c]
  BY DEF Tiled
<1> HIDE DEF w2, cs
<1>8. cs \in SUBSET Made(w) /\ cs \subseteq Clients
  BY <1>5, <1>3 DEF Made
<1>9. ASSUME NEW c \in Clients \ cs
      PROVE  /\ c \in Range(ws) => w2[c].image = w[c].image
             /\ c \notin Range(ws) => w2[c] = w[c]
  <2>1. CASE c \in Range(ws)
    <3>1. Index(ws, c) \notin new /\ ws[Index(ws, c)] = c
      BY <2>1, <1>3, <1>5, IndexOf
    <3>2. w2[c] = Placed(ws, w, new, n, Index(ws, c))
      BY <2>1, <1>7
    <3>3. Placed(ws, w, new, n, Index(ws, c)).image = w[ws[Index(ws, c)]].image
      BY <3>1 DEF Placed
    <3> QED
      BY <2>1, <3>1, <3>2, <3>3
  <2>2. CASE c \notin Range(ws)
    BY <2>2, <1>7
  <2> QED
    BY <2>1, <2>2
<1>10. ASSUME NEW c \in cs
       PROVE  w2[c].image.id = n + Before(Index(ws, c)) /\ Index(ws, c) \in new
  <2>1. c \in Clients /\ c \in Range(ws) /\ Index(ws, c) \in new
    BY <1>5, <1>8
  <2>2. w2[c].image = Image(n + Before(Index(ws, c)), Slot(Len(ws), Index(ws, c)))
    <3>1. w2[c] = Placed(ws, w, new, n, Index(ws, c))
      BY <2>1, <1>7
    <3>2. Placed(ws, w, new, n, Index(ws, c)).image =
             Image(n + Before(Index(ws, c)), Slot(Len(ws), Index(ws, c)))
      BY <2>1 DEF Placed
    <3> QED
      BY <3>1, <3>2
  <2> QED
    BY <2>1, <2>2 DEF Image
<1> HIDE DEF Before
<1>11. ASSUME NEW c \in cs PROVE w2[c].image.id \in n..(n + Cardinality(new) - 1)
  <2>1. w2[c].image.id = n + Before(Index(ws, c)) /\ Before(Index(ws, c)) \in 0..(Cardinality(new) - 1)
    BY <1>10, <1>4
  <2> QED
    BY <2>1, <1>4
<1>12. ASSUME NEW c \in cs, NEW d \in cs, w2[c].image.id = w2[d].image.id PROVE c = d
  <2>1. /\ Before(Index(ws, c)) \in Nat /\ Before(Index(ws, d)) \in Nat
        /\ n + Before(Index(ws, c)) = n + Before(Index(ws, d))
        /\ Index(ws, c) \in new /\ Index(ws, d) \in new
    <3>1. \A x \in cs : /\ w2[x].image.id = n + Before(Index(ws, x)) /\ Index(ws, x) \in new
                        /\ Before(Index(ws, x)) \in 0..(Cardinality(new) - 1)
      BY <1>10, <1>4
    <3>2. \A x \in cs : Before(Index(ws, x)) \in Nat
      BY <3>1, <1>4
    <3> QED
      BY <3>1, <3>2, <1>12
  <2>2. Before(Index(ws, c)) = Before(Index(ws, d))
    BY <2>1
  <2>3. Index(ws, c) = Index(ws, d)
    BY <2>1, <2>2, <1>4
  <2> QED
    BY <2>3, <1>3, <1>5, IndexOf
<1>13. ASSUME NEW c \in Clients \ cs
       PROVE  w2[c].image = w[c].image /\ (c \in Made(w2) <=> c \in Made(w))
  <2>1. CASE c \in Range(ws)
    <3>1. w2[c].image = w[c].image /\ c \in Made(w) /\ w[c].image.id # 0
      BY <2>1, <1>9, <1>3 DEF Surfaces
    <3>2. NoSurface.image.id = 0
      BY DEF NoSurface, Image
    <3> QED
      BY <3>1, <3>2 DEF Made
  <2>2. CASE c \notin Range(ws)
    BY <2>2, <1>9 DEF Made
  <2> QED
    BY <2>1, <2>2
<1>14. Replaces(w, w2, cs, n, n + Cardinality(new))
  <2>1. n + Cardinality(new) \in Nat /\ n <= n + Cardinality(new)
    BY <1>4
  <2>2. \A c, d \in cs : w2[c].image.id = w2[d].image.id => c = d
    BY <1>12
  <2>3. \A c \in cs : w2[c].image.id \in n..(n + Cardinality(new) - 1)
    BY <1>11
  <2>4. \A c \in Clients \ cs : w2[c].image = w[c].image /\ (c \in Made(w2) <=> c \in Made(w))
    BY <1>13
  <2>5. PICK k : k = n + Cardinality(new)
    OBVIOUS
  <2>6. k \in Nat /\ n <= k /\ \A c \in cs : w2[c].image.id \in n..(k - 1)
    BY <2>1, <2>3, <2>5, <1>4
  <2>7. Replaces(w, w2, cs, n, k)
    BY <1>6, <1>8, <2>2, <2>4, <2>6 DEF Replaces
  <2> QED
    BY <2>5, <2>7
<1>15. /\ Surfaces(w2, n + Cardinality(new)) /\ Made(w2) = Made(w)
       /\ Exchanged(Of(w, Made(w)), w, w2, cs) = Of(w2, Made(w2))
  BY <1>14, Exchanging
<1> QED
  BY <1>15 DEF w2, cs

(* A layout of surfaces w, made before it the images made, of which the names   *)
(* are below n, keeps the surfaces apart and maps one image of each.         *)
LEMMA LayKeeps ==
    ASSUME NEW ws, NEW w, NEW made, NEW fresh, NEW n \in Nat \ {0}, n = serial + Cardinality(made),
           Lay(ws, w, made, fresh), Surfaces(w, n), OnSurfaces(ws, w),
           mapped \cup made = Of(w, Made(w))
    PROVE  WindowsOnSurfaces' /\ MapsWhatIsMade' /\ windows' = ws
<1>1. PICK refused \in SUBSET Misfits(ws, w) :
         LET new == Misfits(ws, w) \ refused
             w2 == Tiled(ws, w, new, n)
             cs == Resized(ws, new)
         IN  /\ windows' = ws /\ win' = w2 /\ serial' = n + Cardinality(new)
             /\ mapped' = Exchanged(mapped \cup made, w, w2, cs)
  BY DEF Lay
<1> DEFINE new == Misfits(ws, w) \ refused
           w2 == Tiled(ws, w, new, n)
           cs == Resized(ws, new)
<1>2. /\ windows' = ws /\ win' = w2 /\ serial' = n + Cardinality(new)
      /\ mapped' = Exchanged(Of(w, Made(w)), w, w2, cs)
  BY <1>1
<1>3. new \in SUBSET (1..Len(ws))
  BY DEF OnSurfaces, Misfits
<1> HIDE DEF new
<1>4. /\ Surfaces(w2, n + Cardinality(new)) /\ Made(w2) = Made(w)
      /\ Exchanged(Of(w, Made(w)), w, w2, cs) = Of(w2, Made(w2))
  BY <1>3, TilingKeeps
<1> HIDE DEF w2, cs
<1>5. OnSurfaces(ws, w2)
  BY <1>4 DEF OnSurfaces
<1> QED
  BY <1>2, <1>4, <1>5 DEF WindowsOnSurfaces, MapsWhatIsMade

LEMMA SysInitDInv == SysInit => DInv
<1> SUFFICES ASSUME SysInit PROVE DInv
  OBVIOUS
<1>1. /\ windows = <<>> /\ active = None /\ serial = 1 /\ mapped = {}
      /\ win = [c \in Clients |-> NoSurface]
  BY DEF SysInit, Init
<1>2. Made(win) = {}
  BY <1>1 DEF Made
<1>3. WindowsOnSurfaces
  <2>1. windows \in Seq(Clients) /\ DOMAIN windows = {}
    BY <1>1
  <2> QED
    BY <1>1, <1>2, <2>1 DEF WindowsOnSurfaces, Surfaces, OnSurfaces, IsInjective, Range
<1>4. MapsWhatIsMade
  BY <1>1, <1>2 DEF MapsWhatIsMade, Of
<1> QED
  BY <1>1, <1>3, <1>4 DEF DInv, FocusOnWindow

LEMMA CreateKeeps == ASSUME DInv, NEW c \in Clients, Create(c) PROVE DInv'
<1> DEFINE im == Image(serial, Asked)
           w == [win EXCEPT ![c].image = im]
           ws == Append(windows, c)
<1>1. /\ win[c] = NoSurface /\ active' = c /\ Lay(ws, w, {im}, c)
  BY DEF Create
<1>2. /\ Surfaces(win, serial) /\ windows \in Seq(Clients) /\ IsInjective(windows)
      /\ Range(windows) \subseteq Made(win) /\ mapped = Of(win, Made(win))
      /\ serial \in Nat \ {0} /\ win = [d \in Clients |-> win[d]]
  BY DEF DInv, WindowsOnSurfaces, OnSurfaces, Surfaces, MapsWhatIsMade
<1>3. NoSurface.image.id = 0 /\ im.id = serial
  BY DEF NoSurface, Image
<1>4. /\ w = [d \in Clients |-> w[d]] /\ w[c].image = im
      /\ \A d \in Clients \ {c} : w[d] = win[d]
  BY <1>1, <1>2 DEF NoSurface
<1>5. Made(w) = Made(win) \cup {c} /\ c \notin Made(win)
  <2>1. w[c] # NoSurface
    BY <1>2, <1>3, <1>4
  <2> QED
    BY <1>1, <1>4, <2>1 DEF Made
<1>6. Cardinality({im}) = 1
  BY FS_Singleton
<1> HIDE DEF w, im
<1>7. Surfaces(w, serial + 1)
  <2>1. \A d \in Made(win) : w[d] = win[d] /\ win[d].image.id \in 1..(serial - 1)
    BY <1>2, <1>4, <1>5 DEF Surfaces, Made
  <2>2. \A d \in Made(w) : w[d].image.id \in 1..(serial + 1 - 1)
    <3>1. \A d \in Made(win) : w[d].image.id \in 1..serial
      BY <1>2, <2>1
    <3>2. w[c].image.id \in 1..serial
      BY <1>2, <1>3, <1>4
    <3> QED
      BY <1>2, <1>5, <3>1, <3>2
  <2>3. ASSUME NEW d \in Made(w), NEW e \in Made(w), w[d].image.id = w[e].image.id PROVE d = e
    <3>1. CASE d \in Made(win) /\ e \in Made(win)
      BY <3>1, <2>1, <2>3, <1>2 DEF Surfaces
    <3>2. w[c].image.id = serial /\ \A x \in Made(win) : w[x].image.id # serial
      <4>1. w[c].image.id = serial
        BY <1>3, <1>4
      <4>2. \A x \in Made(win) : w[x].image.id \in 1..(serial - 1)
        BY <2>1
      <4> QED
        BY <4>1, <4>2, <1>2
    <3>3. CASE d = c \/ e = c
      BY <3>2, <3>3, <1>5, <2>3
    <3> QED
      BY <3>1, <3>3, <1>5
  <2> QED
    BY <1>2, <1>4, <2>2, <2>3 DEF Surfaces
<1>8. /\ OnSurfaces(ws, w) /\ ws # <<>> /\ c \in Range(ws)
  <2>1. /\ ws \in Seq(Clients) /\ Len(ws) = Len(windows) + 1 /\ Len(windows) \in Nat
        /\ \A i \in 1..Len(windows) : ws[i] = windows[i] /\ windows[i] \in Made(win)
        /\ ws[Len(windows) + 1] = c
    BY <1>2 DEF Range
  <2>2. \A i \in 1..(Len(windows) + 1) : i \in 1..Len(windows) \/ i = Len(windows) + 1
    BY <2>1
  <2>3. DOMAIN ws = 1..(Len(windows) + 1) /\ DOMAIN windows = 1..Len(windows)
    BY <2>1
  <2> HIDE DEF ws
  <2>4. IsInjective(ws)
    BY <2>1, <2>2, <2>3, <1>2, <1>5 DEF IsInjective
  <2>5. Range(ws) \subseteq Made(w)
    BY <2>1, <2>2, <2>3, <1>5 DEF Range
  <2>6. c \in Range(ws) /\ ws # <<>>
    BY <2>1, <2>3 DEF Range
  <2> QED
    BY <2>1, <2>4, <2>5, <2>6 DEF OnSurfaces
<1>9. mapped \cup {im} = Of(w, Made(w))
  <2>1. w[c].image = im /\ \A d \in Made(win) : w[d].image = win[d].image
    BY <1>4, <1>5 DEF Made
  <2> QED
    BY <1>2, <1>5, <2>1 DEF Of
<1> HIDE DEF ws
<1>10. WindowsOnSurfaces' /\ MapsWhatIsMade' /\ windows' = ws
  <2>1. serial + 1 \in Nat \ {0} /\ serial + 1 = serial + Cardinality({im})
    BY <1>2, <1>6
  <2> QED
    BY <2>1, <1>1, <1>7, <1>8, <1>9, LayKeeps
<1>11. FocusOnWindow'
  BY <1>1, <1>8, <1>10 DEF FocusOnWindow
<1> QED
  BY <1>10, <1>11 DEF DInv

(* The windows are laid out again, some of them at most having gone. *)
LEMMA LayAgain ==
    ASSUME DInv, NEW ws, Lay(ws, win, {}, None), OnSurfaces(ws, win)
    PROVE  WindowsOnSurfaces' /\ MapsWhatIsMade' /\ windows' = ws
<1>1. Surfaces(win, serial) /\ serial \in Nat \ {0} /\ mapped \cup {} = Of(win, Made(win))
  BY DEF DInv, WindowsOnSurfaces, Surfaces, MapsWhatIsMade
<1>2. serial = serial + Cardinality({})
  BY <1>1, FS_EmptySet
<1> QED
  BY <1>1, <1>2, LayKeeps

(* A window that goes leaves the others, each once. *)
LEMMA WithoutKeeps ==
    ASSUME DInv
    PROVE  LET ws == Without(windows, active)
           IN  OnSurfaces(ws, win) /\ Range(ws) \subseteq Range(windows)
<1> DEFINE ws == Without(windows, active)
<1> SUFFICES OnSurfaces(ws, win) /\ Range(ws) \subseteq Range(windows)
  OBVIOUS
<1>0. /\ windows \in Seq(Clients) /\ IsInjective(windows) /\ Range(windows) \subseteq Made(win)
  BY DEF DInv, WindowsOnSurfaces, OnSurfaces
<1>1. CASE active \notin Range(windows)
  BY <1>1, <1>0 DEF Without, OnSurfaces
<1>2. CASE active \in Range(windows)
  <2> DEFINE i == Index(windows, active)
             left == SubSeq(windows, 1, i - 1)
             right == SubSeq(windows, i + 1, Len(windows))
  <2>1. i \in 1..Len(windows) /\ ws = left \o right /\ Len(windows) \in Nat
    <3>1. i \in 1..Len(windows) /\ Len(windows) \in Nat
      BY <1>2, <1>0, IndexOf
    <3>2. ws = left \o right
      BY <1>2 DEF Without, RemoveAt
    <3> QED
      BY <3>1, <3>2
  <2>2. /\ left \in Seq(Clients) /\ Len(left) = i - 1
        /\ \A j \in 1..(i - 1) : left[j] = windows[j]
    BY <2>1, <1>0, SubSeqProperties
  <2>3. /\ right \in Seq(Clients) /\ Len(right) = Len(windows) - i
        /\ \A j \in 1..(Len(windows) - i) : right[j] = windows[j + i]
    BY <2>1, <1>0, SubSeqProperties
  <2> HIDE DEF i, left, right, ws
  <2> DEFINE skip(j) == IF j < i THEN j ELSE j + 1
  <2>4. ws \in Seq(Clients) /\ Len(ws) = Len(windows) - 1 /\ DOMAIN ws = 1..(Len(windows) - 1)
    <3>1. ws \in Seq(Clients) /\ Len(ws) = Len(left) + Len(right)
      BY <2>1, <2>2, <2>3, ConcatProperties
    <3>2. Len(left) + Len(right) = Len(windows) - 1
      BY <2>1, <2>2, <2>3
    <3> QED
      BY <3>1, <3>2
  <2>5. ASSUME NEW j \in DOMAIN ws
        PROVE  ws[j] = windows[skip(j)] /\ skip(j) \in DOMAIN windows
    <3>1. ws[j] = IF j <= Len(left) THEN left[j] ELSE right[j - Len(left)]
      BY <2>1, <2>2, <2>3, <2>4, ConcatProperties
    <3>2. CASE j < i
      BY <3>1, <3>2, <2>1, <2>2, <2>4, <1>0
    <3>3. CASE ~(j < i)
      <4>1. j - (i - 1) \in 1..(Len(windows) - i)
        BY <3>3, <2>1, <2>4
      <4>4. ws[j] = right[j - (i - 1)]
        BY <3>1, <3>3, <2>1, <2>2, <2>4
      <4>2. right[j - (i - 1)] = windows[j - (i - 1) + i]
        BY <4>1, <2>3
      <4>3. j - (i - 1) + i = j + 1 /\ j + 1 \in 1..Len(windows)
        BY <3>3, <2>1, <2>4
      <4> QED
        BY <4>2, <4>3, <4>4, <3>3, <1>0
    <3> QED
      BY <3>2, <3>3
  <2>6. IsInjective(ws)
    <3>1. \A j, k \in DOMAIN ws : skip(j) = skip(k) => j = k
      BY <2>1, <2>4
    <3> QED
      BY <2>5, <3>1, <1>0 DEF IsInjective
  <2>7. Range(ws) \subseteq Range(windows)
    BY <2>5 DEF Range
  <2> QED
    BY <2>4, <2>6, <2>7, <1>0 DEF OnSurfaces
<1> QED
  BY <1>1, <1>2

LEMMA RemoveKeeps == ASSUME DInv, RemoveActive PROVE DInv'
<1> DEFINE ws == Without(windows, active)
<1>1. active' = (IF ws = <<>> THEN None ELSE Last(ws)) /\ Lay(ws, win, {}, None)
  BY DEF RemoveActive
<1>2. OnSurfaces(ws, win)
  BY WithoutKeeps
<1> HIDE DEF ws
<1>3. WindowsOnSurfaces' /\ MapsWhatIsMade' /\ windows' = ws
  BY <1>1, <1>2, LayAgain
<1>4. ws # <<>> => Last(ws) \in Range(ws)
  BY <1>2 DEF OnSurfaces, Last, Range
<1>5. FocusOnWindow'
  BY <1>1, <1>3, <1>4 DEF FocusOnWindow
<1> QED
  BY <1>3, <1>5 DEF DInv

LEMMA SwitchKeeps == ASSUME DInv, Switch PROVE DInv'
<1>1. /\ windows \in Seq(Clients) /\ UNCHANGED <<windows, win, mapped, serial>>
  BY DEF Switch, DInv, WindowsOnSurfaces, OnSurfaces
<1>2. FocusOnWindow'
  <2>1. CASE windows = <<>>
    BY <2>1, <1>1 DEF Switch, DInv, FocusOnWindow
  <2>2. CASE windows # <<>>
    <3> DEFINE i == Index(windows, active)
    <3>1. i \in 1..Len(windows) /\ Len(windows) \in Nat \ {0}
      BY <2>2, <1>1, IndexOf DEF DInv, FocusOnWindow
    <3>2. active' = windows[(i % Len(windows)) + 1]
      BY <2>2 DEF Switch
    <3> HIDE DEF i
    <3>3. (i % Len(windows)) + 1 \in 1..Len(windows)
      BY <3>1
    <3>4. active' \in Range(windows)
      BY <3>2, <3>3, <1>1 DEF Range
    <3> QED
      BY <2>2, <3>4, <1>1 DEF FocusOnWindow
  <2> QED
    BY <2>1, <2>2
<1> QED
  BY <1>1, <1>2 DEF DInv, WindowsOnSurfaces, MapsWhatIsMade

LEMMA OthersKeep ==
    ASSUME DInv, UNCHANGED <<windows, active, win, mapped, serial>>
    PROVE  DInv'
  BY DEF DInv, WindowsOnSurfaces, MapsWhatIsMade, FocusOnWindow

LEMMA DInvStep == ASSUME DInv, [SysNext]_vars PROVE DInv'
<1>1. CASE UNCHANGED vars
  BY <1>1, OthersKeep DEF vars, desktop
<1>2. CASE Frame
  <2>1. OnSurfaces(windows, win) /\ Lay(windows, win, {}, None) /\ active' = active
    BY <1>2 DEF Frame, DInv, WindowsOnSurfaces
  <2>2. WindowsOnSurfaces' /\ MapsWhatIsMade' /\ windows' = windows
    BY <2>1, LayAgain
  <2> QED
    BY <2>1, <2>2 DEF DInv, FocusOnWindow
<1>3. ASSUME NEW k \in Keys, NEW state, Type(k, state) PROVE DInv'
  <2>1. Switch \/ RemoveActive \/ Propagate
    BY <1>3 DEF Type, Handle
  <2> QED
    BY <2>1, SwitchKeeps, RemoveKeeps, OthersKeep DEF Propagate
<1>4. ASSUME NEW c \in Clients, Serve(c) PROVE DInv'
  BY <1>4, CreateKeeps, OthersKeep DEF Serve, CreateRefused
<1>5. ASSUME NEW c \in Clients, Ask(c) \/ Reply(c) \/ Poll(c) \/ Quit(c) PROVE DInv'
  BY <1>5, OthersKeep DEF Ask, Reply, Poll, Quit, Close, desktop
<1> QED
  BY <1>1, <1>2, <1>3, <1>4, <1>5 DEF SysNext

-----------------------------------------------------------------------------
(* What a connection's messages say of images: the last Resize names im, or     *)
(* there is none.                                                           *)
IsSeq(s) == \E S : s \in Seq(S)
Tells(s, i) == s[i].type = "Resize"
LastAt(s, im, i) == /\ Tells(s, i) /\ s[i].image = im
                    /\ \A j \in 1..Len(s) : j > i => ~Tells(s, j)
LastTold(s, im) == \E i \in 1..Len(s) : LastAt(s, im, i)
NoneTold(s) == \A i \in 1..Len(s) : ~Tells(s, i)

(* Who has not been served has no surface and no messages; the first message of *)
(* who waits names an image.                                                *)
Quiet(c) == toClient[c] = <<>> /\ c \notin Made(win)
Names(s) == s # <<>> => Head(s).type \in {"Created", "Resize"}
QueuesAre == toClient = [c \in Clients |-> toClient[c]] /\ \A c \in Clients : IsSeq(toClient[c])
Waits ==
    \A c \in Clients :
        /\ phase[c] \in {"off", "asked"} => Quiet(c) /\ c \in open
        /\ phase[c] = "left" => Quiet(c) /\ c \notin open
        /\ phase[c] = "waiting" => (Quiet(c) \/ toClient[c] # <<>>) /\ Names(toClient[c])
PhasesAre == phase = [c \in Clients |-> phase[c]] /\ img = [c \in Clients |-> img[c]]

(* The last Resize names the image that the window shows; without one, that is  *)
(* the image the client draws into, or will be told in the reply.            *)
Follows(c) ==
    /\ NoneTold(toClient[c])
    /\ phase[c] = "running" /\ c \notin lost => img[c].id = win[c].image.id
    /\ phase[c] = "waiting" /\ toClient[c] # <<>> => Head(toClient[c]).image.id = win[c].image.id
Current ==
    \A c \in Range(windows) \cap open : LastTold(toClient[c], win[c].image) \/ Follows(c)

QInv == QueuesAre /\ PhasesAre /\ Waits /\ Current

-----------------------------------------------------------------------------
LEMMA Sending ==
    ASSUME NEW s, IsSeq(s), NEW m
    PROVE  LET t == Append(s, m)
           IN  /\ IsSeq(t) /\ t # <<>>
               /\ Head(t) = IF s = <<>> THEN m ELSE Head(s)
               /\ m.type = "Resize" => LastTold(t, m.image)
               /\ m.type # "Resize" => /\ NoneTold(s) => NoneTold(t)
                                       /\ \A im : LastTold(s, im) => LastTold(t, im)
<1> DEFINE t == Append(s, m)
<1>1. PICK S : s \in Seq(S)
  BY DEF IsSeq
<1> DEFINE U == S \cup {m}
<1>2. s \in Seq(U) /\ m \in U
  BY <1>1
<1>3. /\ t \in Seq(U) /\ t # <<>> /\ Len(t) = Len(s) + 1 /\ t[Len(s) + 1] = m
      /\ \A i \in 1..Len(s) : t[i] = s[i]
  BY <1>2, AppendProperties
<1>4. Head(t) = IF s = <<>> THEN m ELSE Head(s)
  BY <1>2, HeadTailAppend
<1>5. Len(s) \in Nat
  BY <1>2
<1> HIDE DEF t
<1>6. IsSeq(t)
  BY <1>3 DEF IsSeq
<1>7. ASSUME m.type = "Resize" PROVE LastTold(t, m.image)
  <2>1. LastAt(t, m.image, Len(s) + 1)
    BY <1>3, <1>5, <1>7 DEF LastAt, Tells
  <2> QED
    BY <2>1, <1>3, <1>5 DEF LastTold
<1>8. ASSUME m.type # "Resize", NoneTold(s) PROVE NoneTold(t)
  BY <1>3, <1>5, <1>8 DEF NoneTold, Tells
<1>9. ASSUME m.type # "Resize", NEW im, LastTold(s, im) PROVE LastTold(t, im)
  <2>1. PICK i \in 1..Len(s) : LastAt(s, im, i)
    BY <1>9 DEF LastTold
  <2>2. LastAt(t, im, i)
    BY <2>1, <1>3, <1>5, <1>9 DEF LastAt, Tells
  <2> QED
    BY <2>2, <1>3, <1>5 DEF LastTold
<1> QED
  BY <1>3, <1>4, <1>6, <1>7, <1>8, <1>9 DEF t

(* One Receive, which takes the first message and drops those up to the k-th. *)
LEMMA Reading ==
    ASSUME NEW s, IsSeq(s), NEW n \in Nat \ {0}, n <= Len(s), NEW cut \in BOOLEAN,
           cut => Len(s) > n
    PROVE  LET t == Left(s, n, cut)
               k == IF cut THEN n + 1 ELSE n
           IN  /\ IsSeq(t)
               /\ NoneTold(s) => NoneTold(t) /\ ~Misses(s, k) /\ ~Tells(s, 1)
               /\ \A im : LastTold(s, im) =>
                     LastTold(t, im) \/ (NoneTold(t) /\ (Misses(s, k) \/ LastAt(s, im, 1)))
<1> DEFINE t == Left(s, n, cut)
           k == IF cut THEN n + 1 ELSE n
<1>1. PICK S : s \in Seq(S)
  BY DEF IsSeq
<1>2. Len(s) \in Nat /\ \A i \in 1..Len(s) : s[i] \in S
  BY <1>1
<1> DEFINE U == S \cup {Torn}
<1>3. /\ t \in Seq(U) /\ Len(t) = Len(s) - n
      /\ \A i \in 1..Len(t) : t[i] = s[n + i] \/ (cut /\ i = 1 /\ t[i] = Torn)
  <2>1. CASE ~cut
    <3> DEFINE r == SubSeq(s, n + 1, Len(s))
    <3>1. /\ r \in Seq(U) /\ Len(r) = IF n + 1 <= Len(s) THEN Len(s) - (n + 1) + 1 ELSE 0
          /\ \A i \in 1..(Len(s) - (n + 1) + 1) : r[i] = s[n + 1 + i - 1]
      <4>1. n + 1 \in Int /\ Len(s) \in Int /\ \A i \in (n + 1)..Len(s) : s[i] \in U
        BY <1>2
      <4> QED
        BY <4>1, SubSeqProperties
    <3>2. t = r
      BY <2>1 DEF Left
    <3> HIDE DEF r, t
    <3>3. Len(t) = Len(s) - n
      BY <3>1, <3>2, <1>2
    <3>4. \A i \in 1..Len(t) : t[i] = s[n + i]
      <4>1. \A i \in 1..Len(t) : i \in 1..(Len(s) - (n + 1) + 1) /\ n + 1 + i - 1 = n + i
        BY <3>3, <1>2
      <4> QED
        BY <4>1, <3>1, <3>2
    <3> QED
      BY <3>1, <3>2, <3>3, <3>4
  <2>2. CASE cut
    <3> DEFINE r == SubSeq(s, n + 2, Len(s))
    <3>1. /\ r \in Seq(U) /\ Len(r) = IF n + 2 <= Len(s) THEN Len(s) - (n + 2) + 1 ELSE 0
          /\ \A i \in 1..(Len(s) - (n + 2) + 1) : r[i] = s[n + 2 + i - 1]
      <4>1. n + 2 \in Int /\ Len(s) \in Int /\ \A i \in (n + 2)..Len(s) : s[i] \in U
        BY <1>2
      <4> QED
        BY <4>1, SubSeqProperties
    <3>2. t = <<Torn>> \o r
      BY <2>2 DEF Left
    <3>3. <<Torn>> \in Seq(U) /\ Len(<<Torn>>) = 1 /\ <<Torn>>[1] = Torn
      OBVIOUS
    <3> HIDE DEF r, t
    <3>4. /\ t \in Seq(U) /\ Len(t) = 1 + Len(r)
          /\ \A i \in 1..(1 + Len(r)) : t[i] = IF i <= 1 THEN <<Torn>>[i] ELSE r[i - 1]
      <4>1. /\ <<Torn>> \o r \in Seq(U) /\ Len(<<Torn>> \o r) = Len(<<Torn>>) + Len(r)
            /\ \A i \in 1..(Len(<<Torn>>) + Len(r)) :
                  (<<Torn>> \o r)[i] = IF i <= Len(<<Torn>>) THEN <<Torn>>[i] ELSE r[i - Len(<<Torn>>)]
        BY <3>1, <3>3, ConcatProperties
      <4> QED
        BY <4>1, <3>2, <3>3
    <3>5. Len(t) = Len(s) - n
      BY <3>1, <3>4, <2>2, <1>2
    <3>6. ASSUME NEW i \in 1..Len(t), i # 1 PROVE t[i] = s[n + i]
      <4>1. i - 1 \in 1..(Len(s) - (n + 2) + 1) /\ n + 2 + (i - 1) - 1 = n + i
        BY <3>5, <3>6, <1>2
      <4>2. r[i - 1] = s[n + i]
        BY <4>1, <3>1
      <4>3. t[i] = r[i - 1]
        BY <3>4, <3>6
      <4> QED
        BY <4>2, <4>3
    <3>7. 1 \in 1..Len(t) => t[1] = Torn
      BY <3>3, <3>4
    <3> QED
      BY <3>4, <3>5, <3>6, <3>7, <2>2
  <2> QED
    BY <2>1, <2>2
<1>4. Torn.type # "Resize"
  BY DEF Torn, Message
<1> HIDE DEF t
<1>5. IsSeq(t)
  BY <1>3 DEF IsSeq
<1>6. ASSUME NEW i \in 1..Len(t), Tells(t, i) PROVE n + i \in 1..Len(s) /\ Tells(s, n + i)
  BY <1>2, <1>3, <1>4, <1>6 DEF Tells
<1>7. ASSUME NoneTold(s) PROVE NoneTold(t) /\ ~Misses(s, k) /\ ~Tells(s, 1)
  <2>1. k <= Len(s) /\ k \in Nat
    BY <1>2
  <2> HIDE DEF k
  <2> QED
    BY <1>6, <1>7, <1>2, <2>1 DEF NoneTold, Misses, Tells
<1>8. ASSUME NEW im, LastTold(s, im)
      PROVE  LastTold(t, im) \/ (NoneTold(t) /\ (Misses(s, k) \/ LastAt(s, im, 1)))
  <2>1. PICK p \in 1..Len(s) : LastAt(s, im, p)
    BY <1>8 DEF LastTold
  <2>2. CASE p > k
    <3>1. p - n \in 1..Len(t) /\ n + (p - n) = p
      BY <2>2, <1>2, <1>3
    <3>2. t[p - n] = s[p]
      BY <3>1, <2>2, <1>3, <1>2
    <3>3. \A j \in 1..Len(t) : j > p - n => ~Tells(t, j)
      <4> SUFFICES ASSUME NEW j \in 1..Len(t), j > p - n, Tells(t, j) PROVE FALSE
        OBVIOUS
      <4>1. n + j \in 1..Len(s) /\ Tells(s, n + j)
        BY <1>6
      <4>2. n + j > p
        BY <1>2, <1>3
      <4> QED
        BY <4>1, <4>2, <2>1 DEF LastAt
    <3>4. LastAt(t, im, p - n)
      BY <3>2, <3>3, <2>1 DEF LastAt, Tells
    <3> QED
      BY <3>1, <3>4 DEF LastTold
  <2>3. CASE ~(p > k)
    <3>1. NoneTold(t)
      <4> SUFFICES ASSUME NEW j \in 1..Len(t), Tells(t, j) PROVE FALSE
        BY DEF NoneTold
      <4>1. n + j \in 1..Len(s) /\ Tells(s, n + j)
        BY <1>6
      <4>2. ~(n + j > p)
        BY <4>1, <2>1 DEF LastAt
      <4>3. cut /\ j = 1
        BY <4>2, <2>3, <1>2, <1>3
      <4>4. t[j] = Torn \/ t[j] = s[n + j]
        BY <1>3
      <4>5. p = n + 1
        BY <4>2, <4>3, <2>3, <1>2
      <4>6. t[1] = Torn
        BY <4>3 DEF t, Left
      <4> QED
        BY <4>3, <4>6, <1>4 DEF Tells
    <3>2. CASE p = 1
      BY <3>1, <3>2, <2>1
    <3>3. CASE p # 1
      <4>1. p \in 2..k
        BY <3>3, <2>3, <1>2
      <4>2. Misses(s, k)
        BY <4>1, <2>1 DEF Misses, LastAt, Tells
      <4> QED
        BY <3>1, <4>2
    <3> QED
      BY <3>2, <3>3
  <2> QED
    BY <2>2, <2>3
<1> QED
  BY <1>5, <1>7, <1>8 DEF t

-----------------------------------------------------------------------------
(* A client is told of its new image, or keeps the one it has. *)
ToldOf(d, w, fresh) ==
    \/ LastTold(toClient'[d], win'[d].image)
    \/ /\ win'[d].image = w[d].image
       /\ NoneTold(toClient[d]) => NoneTold(toClient'[d])
       /\ \A im : LastTold(toClient[d], im) => LastTold(toClient'[d], im)
       /\ d = fresh /\ toClient[d] = <<>> =>
             Head(toClient'[d]).image.id = win'[d].image.id

(* A layout tells of the images it replaces, and announces the new surface. *)
LEMMA LaySends ==
    ASSUME NEW ws, NEW w, NEW made, NEW fresh, Lay(ws, w, made, fresh),
           QueuesAre, ws \in Seq(Clients), w = [c \in Clients |-> w[c]],
           NEW d \in Clients
    PROVE  /\ windows' = ws /\ QueuesAre'
           /\ d \notin Range(ws) => win'[d] = w[d]
           /\ d \notin Range(ws) \cup {fresh} => toClient'[d] = toClient[d]
           /\ toClient[d] # <<>> => toClient'[d] # <<>> /\ Head(toClient'[d]) = Head(toClient[d])
           /\ toClient[d] = <<>> => Names(toClient'[d])
           /\ d = fresh /\ d \in open => toClient'[d] # <<>>
           /\ d \in Range(ws) \cap open => ToldOf(d, w, fresh)
<1>1. PICK refused \in SUBSET Misfits(ws, w) :
          LET n == serial + Cardinality(made)
              new == Misfits(ws, w) \ refused
              w2 == Tiled(ws, w, new, n)
          IN  /\ windows' = ws /\ win' = w2
              /\ toClient' = Announced(ToldResize(toClient, w2, Resized(ws, new)), w2, fresh)
  BY DEF Lay
<1> DEFINE n == serial + Cardinality(made)
           new == Misfits(ws, w) \ refused
           w2 == Tiled(ws, w, new, n)
           cs == Resized(ws, new)
           told == ToldResize(toClient, w2, cs)
<1>2. windows' = ws /\ win' = w2 /\ toClient' = Announced(told, w2, fresh)
  BY <1>1
<1>3. new \subseteq DOMAIN ws
  BY DEF Misfits
<1>4. cs \subseteq Range(ws)
  BY <1>3 DEF Resized, Range
<1>5. /\ d \notin Range(ws) => w2[d] = w[d]
      /\ d \in Range(ws) /\ d \notin cs => w2[d].image = w[d].image
  <2>1. d \notin Range(ws) => w2[d] = w[d]
    BY DEF Tiled
  <2>2. ASSUME d \in Range(ws), d \notin cs PROVE w2[d].image = w[d].image
    <3>1. Index(ws, d) \in 1..Len(ws) /\ ws[Index(ws, d)] = d
      BY <2>2, IndexOf
    <3>2. Index(ws, d) \notin new
      BY <3>1, <2>2 DEF Resized
    <3>3. w2[d] = Placed(ws, w, new, n, Index(ws, d))
      BY <2>2 DEF Tiled
    <3> QED
      BY <3>1, <3>2, <3>3 DEF Placed
  <2> QED
    BY <2>1, <2>2
<1> HIDE DEF w2, cs, new, n
<1> DEFINE resize(c) == Message("Resize", w2[c].image)
           created(c) == Message("Created", Image(w2[c].image.id, w2[c].rect))
<1>6. \A c \in Clients :
          told[c] = IF c \in cs /\ c \in open THEN Append(toClient[c], resize(c)) ELSE toClient[c]
  BY DEF ToldResize
<1>7. /\ toClient' = [c \in Clients |-> toClient'[c]]
      /\ \A c \in Clients :
            toClient'[c] = IF c = fresh /\ c \in open THEN Append(told[c], created(c)) ELSE told[c]
  BY <1>2 DEF Announced
<1>8. /\ \A c \in Clients : resize(c).type = "Resize" /\ resize(c).image = w2[c].image
      /\ \A c \in Clients : created(c).type = "Created" /\ created(c).image.id = w2[c].image.id
  BY DEF Message, Image
<1> HIDE DEF told, resize, created
<1>9. ASSUME NEW c \in Clients PROVE IsSeq(toClient[c]) /\ IsSeq(told[c]) /\ IsSeq(toClient'[c])
  <2>1. IsSeq(toClient[c])
    BY DEF QueuesAre
  <2>2. IsSeq(told[c])
    BY <2>1, <1>6, Sending
  <2> QED
    BY <2>1, <2>2, <1>7, Sending
<1>10. QueuesAre'
  BY <1>7, <1>9 DEF QueuesAre
<1>11. CASE d \in cs /\ d \in open
  <2>1. /\ told[d] # <<>> /\ LastTold(told[d], w2[d].image)
        /\ Head(told[d]) = IF toClient[d] = <<>> THEN resize(d) ELSE Head(toClient[d])
    <3>1. told[d] = Append(toClient[d], resize(d)) /\ IsSeq(toClient[d])
      BY <1>11, <1>6, <1>9
    <3>2. resize(d).type = "Resize" /\ resize(d).image = w2[d].image
      BY <1>8
    <3> QED
      BY <3>1, <3>2, Sending
  <2>2. /\ toClient'[d] # <<>> /\ LastTold(toClient'[d], w2[d].image)
        /\ Head(toClient'[d]) = Head(told[d])
    <3>1. CASE d = fresh
      <4>1. toClient'[d] = Append(told[d], created(d)) /\ IsSeq(told[d])
        BY <3>1, <1>11, <1>7, <1>9
      <4>2. created(d).type # "Resize"
        BY <1>8
      <4> QED
        BY <2>1, <4>1, <4>2, Sending
    <3>2. CASE d # fresh
      BY <3>2, <2>1, <1>7
    <3> QED
      BY <3>1, <3>2
  <2> QED
    BY <1>2, <1>4, <1>5, <1>8, <1>10, <1>11, <2>1, <2>2 DEF Names, ToldOf
<1>12. CASE ~(d \in cs /\ d \in open) /\ d = fresh /\ d \in open
  <2>1. told[d] = toClient[d] /\ toClient'[d] = Append(toClient[d], created(d))
    BY <1>12, <1>6, <1>7
  <2>2. /\ toClient'[d] # <<>>
        /\ Head(toClient'[d]) = IF toClient[d] = <<>> THEN created(d) ELSE Head(toClient[d])
        /\ NoneTold(toClient[d]) => NoneTold(toClient'[d])
        /\ \A im : LastTold(toClient[d], im) => LastTold(toClient'[d], im)
    <3>1. created(d).type # "Resize" /\ IsSeq(toClient[d])
      BY <1>8, <1>9
    <3> QED
      BY <2>1, <3>1, Sending
  <2> QED
    BY <1>2, <1>5, <1>8, <1>10, <1>12, <2>2 DEF Names, ToldOf
<1>13. CASE ~(d \in cs /\ d \in open) /\ ~(d = fresh /\ d \in open)
  <2>1. toClient'[d] = toClient[d]
    BY <1>13, <1>6, <1>7
  <2> QED
    BY <1>2, <1>4, <1>5, <1>10, <1>13, <2>1 DEF Names, ToldOf
<1> QED
  BY <1>11, <1>12, <1>13

(* The windows are laid out again, some of them perhaps without one that goes. *)
LEMMA LayKeepsQueues ==
    ASSUME DInv, QInv, NEW ws, Range(ws) \subseteq Range(windows), ws \in Seq(Clients),
           Lay(ws, win, {}, None), UNCHANGED <<phase, img, lost, open>>
    PROVE  QInv'
<1>1. win = [c \in Clients |-> win[c]] /\ Range(windows) \subseteq Made(win)
  BY DEF DInv, WindowsOnSurfaces, Surfaces, OnSurfaces
<1>2. QueuesAre /\ QueuesAre' /\ PhasesAre' /\ windows' = ws
  <2>1. ASSUME NEW d \in Clients PROVE QueuesAre' /\ windows' = ws
    BY <1>1, LaySends DEF QInv
  <2>2. CASE Clients = {}
    <3>1. toClient' = [c \in Clients |-> toClient'[c]] /\ windows' = ws
      BY DEF Lay, Announced
    <3> QED
      BY <2>2, <3>1 DEF QueuesAre, PhasesAre, QInv
  <2> QED
    BY <2>1, <2>2 DEF QInv, PhasesAre
<1>3. Waits'
  <2> SUFFICES ASSUME NEW c \in Clients
               PROVE /\ phase[c] \in {"off", "asked"} => Quiet(c)' /\ c \in open
                     /\ phase[c] = "left" => Quiet(c)' /\ c \notin open
                     /\ phase[c] = "waiting" =>
                           (Quiet(c)' \/ toClient'[c] # <<>>) /\ Names(toClient'[c])
    BY DEF Waits
  <2>1. Quiet(c) => Quiet(c)'
    <3>1. c \notin Made(win) => c \notin Range(ws) /\ c # None
      BY <1>1, NoneIsNone
    <3> QED
      BY <3>1, <1>1, <1>2, LaySends DEF Quiet, Made
  <2>2. Names(toClient[c]) => Names(toClient'[c])
    BY <1>1, <1>2, LaySends DEF Names
  <2>3. toClient[c] # <<>> => toClient'[c] # <<>>
    BY <1>1, <1>2, LaySends
  <2> QED
    BY <2>1, <2>2, <2>3 DEF QInv, Waits
<1>4. Current'
  <2> SUFFICES ASSUME NEW c \in Range(ws) \cap open
               PROVE LastTold(toClient'[c], win'[c].image) \/ Follows(c)'
    BY <1>2 DEF Current
  <2>1. c \in Clients /\ c # None /\ c \in Range(windows)
    BY <1>1, NoneIsNone DEF Made
  <2>2. LastTold(toClient[c], win[c].image) \/ Follows(c)
    BY <2>1 DEF QInv, Current
  <2>3. /\ toClient[c] # <<>> => toClient'[c] # <<>> /\ Head(toClient'[c]) = Head(toClient[c])
        /\ ToldOf(c, win, None)
    BY <2>1, <1>1, <1>2, LaySends
  <2>4. phase[c] = "waiting" => toClient[c] # <<>>
    BY <2>1, <1>1 DEF QInv, Waits, Quiet
  <2> QED
    BY <2>2, <2>3, <2>4 DEF Follows, ToldOf
<1> QED
  BY <1>2, <1>3, <1>4 DEF QInv

LEMMA CreateQueues ==
    ASSUME DInv, QInv, NEW c \in Clients, Serve(c), Create(c) PROVE QInv'
<1> DEFINE w == [win EXCEPT ![c].image = Image(serial, Asked)]
           ws == Append(windows, c)
<1>1. /\ phase[c] \in {"asked", "left"}
      /\ phase' = [phase EXCEPT ![c] = IF phase[c] = "asked" THEN "waiting" ELSE "ended"]
      /\ UNCHANGED <<img, lost, open>> /\ Lay(ws, w, {Image(serial, Asked)}, c)
  BY DEF Serve, Becomes, Create
<1>2. /\ win = [d \in Clients |-> win[d]] /\ windows \in Seq(Clients)
      /\ Range(windows) \subseteq Made(win) /\ QueuesAre /\ PhasesAre
  BY DEF DInv, WindowsOnSurfaces, Surfaces, OnSurfaces, QInv
<1>3. toClient[c] = <<>> /\ c \notin Made(win) /\ (c \in open <=> phase[c] = "asked")
  BY <1>1 DEF QInv, Waits, Quiet
<1>4. w = [d \in Clients |-> w[d]] /\ \A d \in Clients \ {c} : w[d] = win[d]
  BY <1>2
<1>5. ws \in Seq(Clients) /\ Range(ws) = Range(windows) \cup {c}
  <2>1. /\ ws \in Seq(Clients) /\ Len(ws) = Len(windows) + 1 /\ Len(windows) \in Nat
        /\ \A i \in 1..Len(windows) : ws[i] = windows[i]
        /\ ws[Len(windows) + 1] = c
    BY <1>2
  <2>2. DOMAIN ws = 1..(Len(windows) + 1) /\ DOMAIN windows = 1..Len(windows)
    BY <2>1, <1>2
  <2>3. \A i \in DOMAIN ws : i \in DOMAIN windows \/ i = Len(windows) + 1
    BY <2>1, <2>2
  <2> HIDE DEF ws
  <2>4. Len(windows) + 1 \in DOMAIN ws /\ \A i \in DOMAIN windows : i \in DOMAIN ws
    BY <2>1, <2>2
  <2> QED
    BY <2>1, <2>2, <2>3, <2>4 DEF Range
<1> HIDE DEF ws, w
<1>6. QueuesAre' /\ windows' = ws
  BY <1>1, <1>2, <1>4, <1>5, LaySends
<1>7. /\ PhasesAre' /\ \A d \in Clients \ {c} : phase'[d] = phase[d]
      /\ phase'[c] = IF phase[c] = "asked" THEN "waiting" ELSE "ended"
  BY <1>1, <1>2 DEF PhasesAre
<1>8. ASSUME NEW d \in Clients, d # c
      PROVE  /\ Quiet(d) => Quiet(d)'
             /\ Names(toClient[d]) => Names(toClient'[d])
             /\ toClient[d] # <<>> => toClient'[d] # <<>>
  <2>1. d \notin Made(win) => d \notin Range(ws) \cup {c} /\ w[d] = win[d]
    BY <1>2, <1>4, <1>5, <1>8
  <2>2. Quiet(d) => Quiet(d)'
    BY <2>1, <1>1, <1>2, <1>4, <1>5, LaySends DEF Quiet, Made
  <2>3. /\ toClient[d] # <<>> => toClient'[d] # <<>> /\ Head(toClient'[d]) = Head(toClient[d])
        /\ toClient[d] = <<>> => Names(toClient'[d])
    BY <1>1, <1>2, <1>4, <1>5, LaySends
  <2> QED
    BY <2>2, <2>3 DEF Names
<1>9. c \in open => toClient'[c] # <<>> /\ Names(toClient'[c])
  BY <1>1, <1>2, <1>3, <1>4, <1>5, LaySends
<1>10. Waits'
  BY <1>1, <1>3, <1>7, <1>8, <1>9 DEF QInv, Waits
<1>11. ASSUME c \in open PROVE LastTold(toClient'[c], win'[c].image) \/ Follows(c)'
  <2>1. c \in Range(ws) \cap open
    BY <1>11, <1>5
  <2>2. NoneTold(toClient[c])
    BY <1>3 DEF NoneTold
  <2>3. \/ LastTold(toClient'[c], win'[c].image)
        \/ NoneTold(toClient'[c]) /\ Head(toClient'[c]).image.id = win'[c].image.id
    <3>1. ToldOf(c, w, c)
      BY <2>1, <1>1, <1>2, <1>4, <1>5, LaySends
    <3> QED
      BY <3>1, <2>2, <1>3 DEF ToldOf
  <2> QED
    BY <2>3, <1>3, <1>7, <1>11 DEF Follows
<1>12. ASSUME NEW d \in Range(windows) \cap open, d # c
       PROVE  LastTold(toClient'[d], win'[d].image) \/ Follows(d)'
  <2>1. d \in Clients /\ d \in Made(win) /\ d \in Range(ws) /\ w[d] = win[d]
    BY <1>2, <1>4, <1>5, <1>12 DEF Made
  <2>2. LastTold(toClient[d], win[d].image) \/ Follows(d)
    BY <1>12 DEF QInv, Current
  <2>3. /\ toClient[d] # <<>> => toClient'[d] # <<>> /\ Head(toClient'[d]) = Head(toClient[d])
        /\ ToldOf(d, w, c)
    <3>1. d \in Clients /\ d \in Range(ws) \cap open
      BY <2>1, <1>12
    <3> QED
      BY <3>1, <1>1, <1>2, <1>4, <1>5, LaySends
  <2>4. phase[d] = "waiting" => toClient[d] # <<>>
    BY <2>1 DEF QInv, Waits, Quiet
  <2> QED
    BY <2>2, <2>3, <2>4, <2>1, <1>1, <1>7, <1>12 DEF Follows, ToldOf
<1>13. Current'
  BY <1>1, <1>5, <1>6, <1>11, <1>12 DEF Current
<1> QED
  BY <1>6, <1>7, <1>10, <1>13 DEF QInv

(* A key goes to a window, whose client was served. *)
LEMMA PropagateQueues ==
    ASSUME DInv, QInv, Propagate, UNCHANGED <<phase, img, lost, open>> PROVE QInv'
<1> DEFINE m == Message("key", NoImage)
<1>1. /\ UNCHANGED <<windows, win>> /\ m.type # "Resize"
      /\ toClient' = IF active \in open THEN [toClient EXCEPT ![active] = Append(@, m)] ELSE toClient
  BY DEF Propagate, Message
<1> HIDE DEF m
<1>2. QueuesAre /\ PhasesAre /\ Waits /\ Current /\ Range(windows) \subseteq Made(win)
  BY DEF QInv, DInv, WindowsOnSurfaces, OnSurfaces
<1>3. active \in Clients => active \in Made(win)
  <2>1. windows = <<>> => active \notin Clients
    BY NoneIsNone DEF DInv, FocusOnWindow
  <2> QED
    BY <2>1, <1>2 DEF DInv, FocusOnWindow
<1>4. CASE toClient' = toClient
  <2>1. QueuesAre' /\ PhasesAre'
    BY <1>2, <1>4 DEF QueuesAre, PhasesAre
  <2>2. Waits'
    BY <1>1, <1>2, <1>4 DEF Waits, Quiet, Made
  <2>3. Current'
    BY <1>1, <1>2, <1>4 DEF Current, Follows
  <2> QED
    BY <2>1, <2>2, <2>3 DEF QInv
<1>5. CASE active \in Clients /\ active \in open
  <2>1. /\ toClient' = [c \in Clients |-> toClient'[c]]
        /\ toClient'[active] = Append(toClient[active], m)
        /\ \A c \in Clients \ {active} : toClient'[c] = toClient[c]
    BY <1>1, <1>2, <1>5 DEF QueuesAre
  <2>2. IsSeq(toClient[active])
    BY <1>2, <1>5 DEF QueuesAre
  <2>3. /\ IsSeq(toClient'[active]) /\ toClient'[active] # <<>>
        /\ toClient[active] # <<>> => Head(toClient'[active]) = Head(toClient[active])
        /\ NoneTold(toClient[active]) => NoneTold(toClient'[active])
        /\ \A im : LastTold(toClient[active], im) => LastTold(toClient'[active], im)
    <3>1. PICK s : s = toClient[active]
      OBVIOUS
    <3>2. IsSeq(s) /\ toClient'[active] = Append(s, m) /\ m.type # "Resize"
      BY <3>1, <2>1, <2>2, <1>1
    <3> QED
      BY <3>1, <3>2, Sending
  <2>4. QueuesAre'
    BY <2>1, <2>3, <1>2 DEF QueuesAre
  <2>5. phase[active] = "waiting" => toClient[active] # <<>> /\ Names(toClient'[active])
    BY <2>3, <1>2, <1>3, <1>5 DEF Waits, Quiet, Names
  <2>6. phase[active] \notin {"off", "asked", "left"}
    BY <1>2, <1>3, <1>5 DEF Waits, Quiet
  <2>7. Waits'
    BY <2>1, <2>3, <2>5, <2>6, <1>1, <1>2 DEF Waits, Quiet
  <2>8. Current'
    <3>1. \A c \in Range(windows) : c \in Clients
      BY <1>2 DEF Made
    <3> QED
      BY <3>1, <2>1, <2>3, <2>5, <1>1, <1>2 DEF Current, Follows
  <2> QED
    BY <2>4, <2>7, <2>8, <1>1, <1>2 DEF QInv, PhasesAre
<1>6. CASE active \notin Clients /\ active \in open
  <2>1. toClient' = toClient
    BY <1>1, <1>2, <1>6 DEF QueuesAre
  <2> QED
    BY <2>1, <1>4
<1> QED
  BY <1>1, <1>4, <1>5, <1>6

(* Steps that touch neither windows nor messages. *)
LEMMA QuietSteps ==
    ASSUME DInv, QInv, UNCHANGED <<windows, win, toClient, open, img, lost>>, PhasesAre',
           \A c \in Clients : \/ phase'[c] = phase[c]
                              \/ phase[c] = "off" /\ phase'[c] = "asked"
                              \/ phase[c] = "asked" /\ phase'[c] = "waiting"
                              \/ phase[c] = "left" /\ phase'[c] = "ended"
    PROVE  QInv'
<1>1. QueuesAre' /\ \A c \in Clients : Quiet(c) <=> Quiet(c)'
  BY DEF QInv, QueuesAre, Quiet, Made
<1>2. \A c \in Clients : Quiet(c) => Names(toClient[c])
  BY DEF Quiet, Names
<1>3. Waits'
  BY <1>1, <1>2 DEF QInv, Waits
<1>4. Current'
  <2>1. \A c \in Range(windows) : c \in Clients /\ c \in Made(win)
    BY DEF DInv, WindowsOnSurfaces, OnSurfaces, Made
  <2>2. ASSUME NEW c \in Range(windows) \cap open, Follows(c) PROVE Follows(c)'
    <3>1. phase'[c] = phase[c]
      BY <2>1 DEF QInv, Waits, Quiet
    <3> QED
      BY <2>2, <3>1 DEF Follows
  <2> QED
    BY <2>2 DEF QInv, Current
<1> QED
  BY <1>1, <1>3, <1>4 DEF QInv

(* A client reads: the first message of its connection, and what it loses. *)
LEMMA ReceiveQueues ==
    ASSUME DInv, QInv, NEW c \in Clients, Receive(c), toClient[c] # <<>>,
           UNCHANGED <<windows, win, open>>,
           phase[c] \in {"waiting", "running"},
           phase' = [phase EXCEPT ![c] = "running"],
           IF phase[c] = "waiting" \/ Head(toClient[c]).type = "Resize"
           THEN img' = [img EXCEPT ![c] = Head(toClient[c]).image] ELSE UNCHANGED img
    PROVE  QInv'
<1> DEFINE s == toClient[c]
<1>1. /\ QueuesAre /\ PhasesAre /\ Waits /\ Current /\ IsSeq(s)
  BY DEF QInv, QueuesAre
<1>2. PICK n \in 1..Buffer, cut \in BOOLEAN :
          /\ n <= Len(s) /\ (cut => Cuttable(s, n))
          /\ toClient' = [toClient EXCEPT ![c] = Left(@, n, cut)]
          /\ lost' = Missing(c, IF cut THEN n + 1 ELSE n)
  BY DEF Receive
<1> DEFINE t == Left(s, n, cut)
           k == IF cut THEN n + 1 ELSE n
<1>3. n \in Nat \ {0} /\ (cut => Len(s) > n)
  BY <1>2, BufferPositive DEF Cuttable
<1>4. /\ IsSeq(t)
      /\ NoneTold(s) => NoneTold(t) /\ ~Misses(s, k) /\ ~Tells(s, 1)
      /\ \A im : LastTold(s, im) =>
            LastTold(t, im) \/ (NoneTold(t) /\ (Misses(s, k) \/ LastAt(s, im, 1)))
  BY <1>1, <1>2, <1>3, Reading
<1>5. Head(s) = s[1]
  OBVIOUS
<1>6. /\ lost' \ {c} = lost \ {c}
      /\ c \in lost' <=> Misses(s, k) \/ (c \in lost /\ ~Tells(s, 1))
  BY <1>2 DEF Missing, Tells
<1>7. /\ toClient' = [d \in Clients |-> toClient'[d]] /\ toClient'[c] = t
      /\ \A d \in Clients \ {c} : toClient'[d] = toClient[d]
  BY <1>1, <1>2 DEF QueuesAre
<1>8. /\ PhasesAre' /\ phase'[c] = "running"
      /\ \A d \in Clients \ {c} : phase'[d] = phase[d] /\ img'[d] = img[d]
      /\ phase[c] = "waiting" \/ Tells(s, 1) => img'[c] = s[1].image
      /\ ~(phase[c] = "waiting" \/ Tells(s, 1)) => img'[c] = img[c]
  BY <1>1, <1>5 DEF PhasesAre, Tells
<1> HIDE DEF k, t, s
<1>9. QueuesAre'
  BY <1>1, <1>4, <1>7 DEF QueuesAre
<1>10. Waits'
  BY <1>1, <1>7, <1>8 DEF Waits, Quiet, Made
<1>11. ASSUME NEW d \in Range(windows) \cap open, d \in Clients, d # c
       PROVE  LastTold(toClient'[d], win'[d].image) \/ Follows(d)'
  <2>1. LastTold(toClient[d], win[d].image) \/ Follows(d)
    BY <1>1, <1>11 DEF Current
  <2>2. d \in lost' <=> d \in lost
    BY <1>6, <1>11
  <2> QED
    BY <2>1, <2>2, <1>7, <1>8, <1>11 DEF Follows
<1>12. ASSUME c \in Range(windows) \cap open
       PROVE  LastTold(toClient'[c], win'[c].image) \/ Follows(c)'
  <2>1. CASE LastTold(s, win[c].image)
    <3>1. CASE LastTold(t, win[c].image)
      BY <3>1, <1>7
    <3>2. CASE NoneTold(t) /\ Misses(s, k)
      BY <3>2, <1>6, <1>7, <1>8 DEF Follows
    <3>3. CASE NoneTold(t) /\ LastAt(s, win[c].image, 1)
      <4>1. img'[c] = win[c].image
        BY <3>3, <1>8 DEF LastAt
      <4> QED
        BY <4>1, <3>3, <1>7, <1>8 DEF Follows
    <3> QED
      BY <2>1, <3>1, <3>2, <3>3, <1>4
  <2>2. CASE Follows(c)
    <3>1. NoneTold(t) /\ ~Misses(s, k) /\ ~Tells(s, 1)
      BY <2>2, <1>4 DEF Follows, s
    <3>2. CASE phase[c] = "waiting"
      <4>1. img'[c].id = win[c].image.id
        BY <2>2, <3>2, <1>5, <1>8 DEF Follows, s
      <4> QED
        BY <4>1, <3>1, <1>7, <1>8 DEF Follows
    <3>3. CASE phase[c] = "running"
      <4>1. img'[c] = img[c] /\ (c \in lost' <=> c \in lost)
        BY <3>1, <3>3, <1>6, <1>8
      <4> QED
        BY <4>1, <2>2, <3>1, <3>3, <1>7, <1>8 DEF Follows
    <3> QED
      BY <3>2, <3>3
  <2> QED
    BY <2>1, <2>2, <1>1, <1>12 DEF Current, s
<1>13. Current'
  <2>1. \A d \in Range(windows) : d \in Clients
    BY DEF DInv, WindowsOnSurfaces, OnSurfaces, Made
  <2> QED
    BY <2>1, <1>11, <1>12 DEF Current
<1> QED
  BY <1>8, <1>9, <1>10, <1>13 DEF QInv

(* A client ends, whatever it waits for. *)
LEMMA EndQueues ==
    ASSUME DInv, QInv, NEW c \in Clients,
           UNCHANGED <<windows, win, img, lost>>, phase[c] \in {"asked", "waiting", "running"},
           phase' = [phase EXCEPT ![c] = IF phase[c] = "asked" THEN "left" ELSE "ended"],
           open' = open \ {c},
           toClient' = [toClient EXCEPT ![c] = <<>>]
    PROVE  QInv'
<1>1. QueuesAre /\ PhasesAre /\ Waits /\ Current
  BY DEF QInv
<1>2. /\ PhasesAre' /\ phase'[c] = IF phase[c] = "asked" THEN "left" ELSE "ended"
      /\ \A d \in Clients \ {c} : phase'[d] = phase[d]
  BY <1>1 DEF PhasesAre
<1>3. /\ toClient' = [d \in Clients |-> toClient'[d]] /\ toClient'[c] = <<>>
      /\ \A d \in Clients \ {c} : toClient'[d] = toClient[d]
  BY <1>1 DEF QueuesAre
<1>4. IsSeq(<<>>)
  <2>1. <<>> \in Seq({})
    OBVIOUS
  <2> QED
    BY <2>1 DEF IsSeq
<1>5. QueuesAre'
  BY <1>1, <1>3, <1>4 DEF QueuesAre
<1>6. Waits'
  BY <1>1, <1>2, <1>3 DEF Waits, Quiet, Made
<1>7. Current'
  <2>1. \A d \in Range(windows) : d \in Clients
    BY DEF DInv, WindowsOnSurfaces, OnSurfaces, Made
  <2> QED
    BY <2>1, <1>1, <1>2, <1>3 DEF Current, Follows
<1> QED
  BY <1>2, <1>5, <1>6, <1>7 DEF QInv

LEMMA QInvStep == ASSUME DInv, QInv, [SysNext]_vars PROVE QInv'
<1>1. CASE UNCHANGED vars
  <2>1. PhasesAre'
    BY <1>1 DEF vars, PhasesAre, QInv
  <2> QED
    BY <1>1, <2>1, QuietSteps DEF vars, desktop
<1>2. CASE Frame /\ UNCHANGED <<phase, img, lost>>
  <2>1. windows \in Seq(Clients) /\ Lay(windows, win, {}, None) /\ UNCHANGED open
    BY <1>2 DEF Frame, DInv, WindowsOnSurfaces, OnSurfaces
  <2> QED
    BY <1>2, <2>1, LayKeepsQueues
<1>3. ASSUME NEW key \in Keys, NEW state, Type(key, state), UNCHANGED <<phase, img, lost>>
      PROVE QInv'
  <2>1. (Switch \/ RemoveActive \/ Propagate) /\ UNCHANGED open
    BY <1>3 DEF Type, Handle
  <2>2. CASE Switch
    <3>1. PhasesAre'
      BY <1>3 DEF PhasesAre, QInv
    <3> QED
      BY <1>3, <2>1, <2>2, <3>1, QuietSteps DEF Switch
  <2>3. CASE RemoveActive
    <3> DEFINE ws == Without(windows, active)
    <3>1. OnSurfaces(ws, win) /\ Range(ws) \subseteq Range(windows) /\ Lay(ws, win, {}, None)
      BY <2>3, WithoutKeeps DEF RemoveActive
    <3> HIDE DEF ws
    <3>2. ws \in Seq(Clients)
      BY <3>1 DEF OnSurfaces
    <3> QED
      BY <1>3, <2>1, <3>1, <3>2, LayKeepsQueues
  <2> QED
    BY <1>3, <2>1, <2>2, <2>3, PropagateQueues
<1>4. ASSUME NEW c \in Clients, Ask(c) PROVE QInv'
  <2>1. phase[c] = "off" /\ phase' = [phase EXCEPT ![c] = "asked"]
    BY <1>4 DEF Ask, Becomes
  <2>2. PhasesAre' /\ phase'[c] = "asked" /\ \A d \in Clients \ {c} : phase'[d] = phase[d]
    BY <1>4, <2>1 DEF Ask, PhasesAre, QInv
  <2> QED
    BY <1>4, <2>1, <2>2, QuietSteps DEF Ask, desktop
<1>5. ASSUME NEW c \in Clients, Serve(c) PROVE QInv'
  <2>1. CASE CreateRefused(c)
    <3>1. /\ phase[c] \in {"asked", "left"}
          /\ phase' = [phase EXCEPT ![c] = IF phase[c] = "asked" THEN "waiting" ELSE "ended"]
      BY <1>5 DEF Serve, Becomes
    <3>2. /\ PhasesAre' /\ \A d \in Clients \ {c} : phase'[d] = phase[d]
          /\ phase'[c] = IF phase[c] = "asked" THEN "waiting" ELSE "ended"
      BY <1>5, <3>1 DEF Serve, PhasesAre, QInv
    <3> QED
      BY <1>5, <2>1, <3>1, <3>2, QuietSteps DEF Serve, CreateRefused
  <2> QED
    BY <1>5, <2>1, CreateQueues DEF Serve
<1>6. ASSUME NEW c \in Clients, Reply(c) PROVE QInv'
  <2>1. CASE Receive(c) /\ Attach(c, Head(toClient[c]).image) /\ Becomes(c, "running") /\ UNCHANGED open
    BY <1>6, <2>1, ReceiveQueues DEF Reply, Attach, Becomes
  <2>2. CASE End(c) /\ UNCHANGED <<img, lost>>
    BY <1>6, <2>2, EndQueues DEF Reply, End, Becomes
  <2> QED
    BY <1>6, <2>1, <2>2 DEF Reply
<1>7. ASSUME NEW c \in Clients, Poll(c) PROVE QInv'
  <2>1. CASE Receive(c) /\ UNCHANGED <<phase, open>>
             /\ IF Head(toClient[c]).type = "Resize" THEN Attach(c, Head(toClient[c]).image) ELSE UNCHANGED img
    <3>1. phase' = [phase EXCEPT ![c] = "running"]
      BY <1>7, <2>1 DEF Poll, PhasesAre, QInv
    <3> QED
      BY <1>7, <2>1, <3>1, ReceiveQueues DEF Poll, Attach
  <2>2. CASE End(c) /\ UNCHANGED <<img, lost>>
    BY <1>7, <2>2, EndQueues DEF Poll, End, Becomes
  <2> QED
    BY <1>7, <2>1, <2>2 DEF Poll
<1>8. ASSUME NEW c \in Clients, Quit(c) PROVE QInv'
  BY <1>8, EndQueues DEF Quit, Close, Becomes
<1> QED
  BY <1>1, <1>2, <1>3, <1>4, <1>5, <1>6, <1>7, <1>8 DEF SysNext

LEMMA SysInitQInv == SysInit => QInv
<1> SUFFICES ASSUME SysInit PROVE QInv
  OBVIOUS
<1>1. /\ windows = <<>> /\ open = Clients /\ win = [c \in Clients |-> NoSurface]
      /\ toClient = [c \in Clients |-> <<>>] /\ phase = [c \in Clients |-> "off"]
      /\ img = [c \in Clients |-> NoImage]
  BY DEF SysInit, Init
<1>2. IsSeq(<<>>)
  <2>1. <<>> \in Seq({})
    OBVIOUS
  <2> QED
    BY <2>1 DEF IsSeq
<1>3. QueuesAre /\ PhasesAre
  BY <1>1, <1>2 DEF QueuesAre, PhasesAre
<1>4. Waits
  BY <1>1 DEF Waits, Quiet, Made
<1>5. Current
  <2>1. Range(windows) = {}
    BY <1>1 DEF Range
  <2> QED
    BY <2>1 DEF Current
<1> QED
  BY <1>3, <1>4, <1>5 DEF QInv

-----------------------------------------------------------------------------
(* The inductive invariant: windows are surfaces, each once, whose images have  *)
(* names of their own, and exactly those are mapped.                         *)
THEOREM DesktopInvariant == SysSpec => []DInv
<1>1. DInv /\ [SysNext]_vars => DInv'
  BY DInvStep
<1> QED
  BY SysInitDInv, <1>1, PTL DEF SysSpec

(* Desktop.activeSurface is a window of the workspace as long as there is one. *)
THEOREM FocusStaysOnWindow == SysSpec => []FocusOnWindow
<1>1. DInv => FocusOnWindow
  BY DEF DInv
<1> QED
  BY DesktopInvariant, <1>1, PTL

(* Surface.SetBounds and the desktop leave one image of each surface mapped. *)
THEOREM OneImageOfEach == SysSpec => []OneImageEach
<1>1. ASSUME DInv PROVE OneImageEach
  <2> DEFINE made == Made(win)
  <2>1. mapped = Of(win, made)
    BY <1>1 DEF DInv, MapsWhatIsMade
  <2>2. \A c, d \in made : win[c].image = win[d].image => c = d
    BY <1>1 DEF DInv, WindowsOnSurfaces, Surfaces
  <2>3. IsFiniteSet(made)
    BY ClientsFinite, FS_Subset DEF Made
  <2> DEFINE f == [c \in made |-> win[c].image]
  <2>4. f \in Bijection(made, Of(win, made))
    BY <2>2 DEF Of, Bijection, Injection, Surjection, IsInjective
  <2>5. Cardinality(Of(win, made)) = Cardinality(made)
    BY <2>3, <2>4, FS_Bijection DEF ExistsBijection
  <2> QED
    BY <2>1, <2>5 DEF OneImageEach, Made
<1> QED
  BY DesktopInvariant, <1>1, PTL

(* What a client is told, and what it draws into, stays what the invariant says. *)
THEOREM QueuesInvariant == SysSpec => []QInv
<1>1. DInv /\ QInv /\ [SysNext]_vars => QInv'
  BY QInvStep
<1> QED
  BY SysInitQInv, DesktopInvariant, <1>1, PTL DEF SysSpec

(* Backend.Init takes the first message for the reply: it names an image. *)
THEOREM ReplyIsNamed == SysSpec => []ReplyNamesImage
<1>1. QInv => ReplyNamesImage
  BY DEF QInv, Waits, Names, ReplyNamesImage
<1> QED
  BY QueuesInvariant, <1>1, PTL

(* Backend.PollEvents: a client draws into the image that its window shows,     *)
(* but for what Receive drops.                                              *)
THEOREM ClientsDrawWhatIsShown == SysSpec => []DrawsWhatIsShown
<1>1. ASSUME QInv PROVE DrawsWhatIsShown
  <2> SUFFICES ASSUME NEW c \in Range(windows) \cap open
               PROVE  IF Told(c) # {} THEN toClient[c][Max(Told(c))].image = win[c].image
                      ELSE phase[c] = "running" /\ c \notin lost => img[c].id = win[c].image.id
    BY DEF DrawsWhatIsShown
  <2>1. LastTold(toClient[c], win[c].image) \/ Follows(c)
    BY <1>1 DEF QInv, Current
  <2>2. CASE LastTold(toClient[c], win[c].image)
    <3>1. PICK i \in 1..Len(toClient[c]) : LastAt(toClient[c], win[c].image, i)
      BY <2>2 DEF LastTold
    <3>2. i \in Told(c) /\ \A j \in Told(c) : i >= j
      BY <3>1 DEF LastAt, Tells, Told
    <3>3. PICK m : m = Max(Told(c))
      OBVIOUS
    <3>4. m \in Told(c) /\ \A j \in Told(c) : m >= j
      <4>1. PICK T : T = Told(c)
        OBVIOUS
      <4>2. \E x \in T : \A j \in T : x >= j
        BY <3>2, <4>1
      <4>3. m = CHOOSE x \in T : \A j \in T : x >= j
        BY <3>3, <4>1 DEF Max
      <4> QED
        BY <4>1, <4>2, <4>3
    <3>5. i \in Int /\ m \in Int /\ i >= m /\ m >= i
      <4>1. \A j \in Told(c) : j \in Int
        BY DEF Told
      <4> QED
        BY <3>2, <3>4, <4>1
    <3>6. m = i
      BY <3>5
    <3> QED
      BY <3>1, <3>2, <3>3, <3>6 DEF LastAt
  <2>3. CASE Follows(c)
    <3>1. Told(c) = {}
      BY <2>3 DEF Follows, NoneTold, Tells, Told
    <3> QED
      BY <2>3, <3>1 DEF Follows
  <2> QED
    BY <2>1, <2>2, <2>3
<1> QED
  BY QueuesInvariant, <1>1, PTL
=============================================================================
