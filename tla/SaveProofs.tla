----------------------------- MODULE SaveProofs -----------------------------
(***************************************************************************)
(* Theorems about SaveSeries, for any number of figures, saves and formats. *)
(***************************************************************************)
EXTENDS SaveSeries, TLAPS

(***************************************************************************)
(* Images.                                                                 *)
(***************************************************************************)
\* The two save areas share no block, and no block of theirs is in plain text:
\* one can be written while the other stays valid (the checksums of crypto.rs,
\* the areas of image.rs).
THEOREM AreasApart ==
  /\ AreaBlocks(1) \intersect AreaBlocks(2) = {}
  /\ \A a \in Areas : \A b \in AreaBlocks(a) : ~IsPlaintextBlock(b)
  <1>1. AreaBlocks(1) \subseteq (8 .. 10) \union (12 .. 14) \union (16 .. 18) \union (20 .. 21)
    BY DEF AreaBlocks, PrimaryBlocks, SecondaryBlocks, PrimaryArea, SecondaryArea, Covered, Block
  <1>2. AreaBlocks(2) \subseteq (36 .. 38) \union (40 .. 42) \union (44 .. 46) \union (48 .. 49)
    BY DEF AreaBlocks, PrimaryBlocks, SecondaryBlocks, PrimaryArea, SecondaryArea, Covered, Block
  <1> QED BY <1>1, <1>2 DEF Areas, IsPlaintextBlock

LEMMA SaveInRange ==
  ASSUME NEW img \in Images, NEW a \in Areas
  PROVE  SaveIn(img, a) \in 0 .. MaxSave
  <1>1. Decrypted(img.header, img.area[a]["head"]) \in Junk .. MaxSave
    BY SeriesAssumption DEF Images, Blocks, Parts, Decrypted, Junk
  <1> QED BY <1>1, SeriesAssumption DEF SaveIn, Junk

LEMMA NewestRange ==
  ASSUME NEW img \in Images
  PROVE  /\ NewestArea(img) \in Areas /\ Other(NewestArea(img)) \in Areas
         /\ Newest(img) \in 0 .. MaxSave
         /\ \A a \in Areas : SaveIn(img, a) <= Newest(img)
  <1>1. SaveIn(img, 1) \in 0 .. MaxSave /\ SaveIn(img, 2) \in 0 .. MaxSave
    BY SaveInRange DEF Areas
  <1> QED BY <1>1, SeriesAssumption DEF NewestArea, Newest, Areas, Other

LEMMA OtherArea ==
  ASSUME NEW a \in Areas
  PROVE  Other(a) \in Areas /\ Other(a) # a /\ Other(Other(a)) = a
  BY DEF Areas, Other

LEMMA NewestOfArea ==
  ASSUME NEW img
  PROVE  Newest(img) = SaveIn(img, NewestArea(img))
  BY DEF Newest, NewestArea

LEMMA NewestByAreas ==
  ASSUME NEW img \in Images, NEW a \in Areas
  PROVE  Newest(img) = SaveIn(img, a) \/ Newest(img) = SaveIn(img, Other(a))
  BY DEF NewestArea, Newest, Areas, Other

\* A figure that was just created has a first save.
LEMMA NewImageHasSave ==
  ASSUME NEW h \in Headers
  PROVE  /\ NewImage(h) \in Images /\ NewImage(h).header = h
         /\ Newest(NewImage(h)) = 1
  <1> DEFINE plain == DecryptFigure(Placeholder(h))
  <1>1. plain = [a \in Areas |-> [p \in Parts |-> 0]]
    BY DEF DecryptFigure, Placeholder, Decrypted
  <1>2. AreaToWrite(plain) = 1
    BY <1>1 DEF AreaToWrite, Areas, Parts
  <1>3. NewImage(h) = EncryptFigure(h, [a \in Areas |-> [p \in Parts |-> IF a = 1 THEN 1 ELSE 0]])
    BY <1>1, <1>2 DEF NewImage, Areas, Parts, Other
  <1>4. /\ NewImage(h).header = h
        /\ \A p \in Parts : NewImage(h).area[1][p] = Encrypted(h, 1)
        /\ \A p \in Parts : NewImage(h).area[2][p] = Encrypted(h, 0)
    BY <1>3 DEF EncryptFigure, Areas
  <1>5. NewImage(h) \in Images
    BY <1>3, SeriesAssumption DEF EncryptFigure, Encrypted, Images, Blocks, Junk
  <1>6. SaveIn(NewImage(h), 1) = 1 /\ SaveIn(NewImage(h), 2) = 0
    BY <1>4 DEF SaveIn, Decrypted, Encrypted, Zero, Parts
  <1> QED BY <1>4, <1>5, <1>6 DEF Newest, NewestArea

\* A clone is loaded with the save of its model.
LEMMA RekeyedKeepsSave ==
  ASSUME NEW img \in Images, NEW h \in Headers
  PROVE  /\ Rekeyed(img, h) \in Images /\ Rekeyed(img, h).header = h
         /\ Newest(img) > 0 => Newest(Rekeyed(img, h)) = Newest(img)
  <1> DEFINE plain == DecryptFigure(img)
  <1>1. plain \in [Areas -> [Parts -> Junk .. MaxSave]]
    BY SeriesAssumption DEF DecryptFigure, Decrypted, Images, Blocks, Junk
  <1>2. EncryptFigure(h, plain) \in Images /\ EncryptFigure(h, plain).header = h
    BY <1>1 DEF EncryptFigure, Encrypted, Images, Blocks
  <1>3. Rekeyed(img, h) \in Images /\ Rekeyed(img, h).header = h
    BY <1>2 DEF Rekeyed, Images
  <1>4. ASSUME NEW a \in Areas
        PROVE  SaveIn(EncryptFigure(h, plain), a) = SaveIn(img, a)
    <2> DEFINE new == EncryptFigure(h, plain)
    <2>1. ASSUME NEW p \in Parts
          PROVE  Decrypted(h, new.area[a][p]) = Decrypted(img.header, img.area[a][p])
      <3>1. new.area[a][p] = Encrypted(h, plain[a][p])
        BY DEF EncryptFigure
      <3>2. new.area[a][p] # Zero
        BY <3>1, SeriesAssumption DEF Encrypted, Zero
      <3>3. plain[a][p] = Decrypted(img.header, img.area[a][p])
        BY DEF DecryptFigure
      <3> HIDE DEF plain, new
      <3>4. Decrypted(h, new.area[a][p]) = plain[a][p]
        BY <3>1, <3>2 DEF Decrypted, Encrypted
      <3> QED BY <3>3, <3>4
    <2> QED BY <2>1, <1>2 DEF SaveIn, Parts
  <1>5. Newest(EncryptFigure(h, plain)) = Newest(img)
    BY <1>4 DEF Newest, NewestArea, Areas
  <1>6. ASSUME Newest(img) > 0 PROVE HasNonzeroData(img)
    <2>1. SaveIn(img, NewestArea(img)) > 0
      BY <1>6, NewestOfArea
    <2>2. img.area[NewestArea(img)]["head"] # Zero
      BY <2>1 DEF SaveIn, Decrypted, Zero
    <2> QED BY <2>2, NewestRange DEF HasNonzeroData, Parts
  <1> QED BY <1>3, <1>5, <1>6 DEF Rekeyed

\* A part of save n is written: the other area is left alone, and this one holds
\* that save or none.
LEMMA WrittenKeepsOther ==
  ASSUME NEW img \in Images, NEW a \in Areas, NEW p \in Parts, NEW n \in 1 .. MaxSave,
         NEW key \in Headers
  PROVE  LET new == Written(img, a, p, Encrypted(key, n))
         IN  /\ new \in Images /\ new.header = img.header
             /\ \A b \in Areas \ {a} : SaveIn(new, b) = SaveIn(img, b)
             /\ new.area[a][p] = Encrypted(key, n)
             /\ \A q \in Parts \ {p} : new.area[a][q] = img.area[a][q]
  <1> DEFINE new == Written(img, a, p, Encrypted(key, n))
  <1>1. Encrypted(key, n) \in Blocks
    BY SeriesAssumption DEF Encrypted, Blocks, Junk
  <1> DEFINE area == [img.area EXCEPT ![a] = [img.area[a] EXCEPT ![p] = Encrypted(key, n)]]
  <1>0. area \in [Areas -> [Parts -> Blocks]]
    BY <1>1 DEF Images
  <1>2. new = [img EXCEPT !.area = area]
    BY DEF Written
  <1>3. new \in Images /\ new.header = img.header /\ new.area = area
    BY <1>0, <1>2, Zenon DEF Images
  <1>4. /\ \A b \in Areas \ {a} : new.area[b] = img.area[b]
        /\ new.area[a][p] = Encrypted(key, n)
        /\ \A q \in Parts \ {p} : new.area[a][q] = img.area[a][q]
    BY <1>3 DEF Images
  <1> HIDE DEF new
  <1>5. \A b \in Areas \ {a} : SaveIn(new, b) = SaveIn(img, b)
    BY <1>3, <1>4 DEF SaveIn
  <1> QED BY <1>3, <1>4, <1>5 DEF new

\* A part encrypted with the key of the figure.
LEMMA PartDecrypted ==
  ASSUME NEW img \in Images, NEW a \in Areas, NEW n \in 1 .. MaxSave, NEW p \in Parts,
         img.header \in Headers, img.area[a][p] = Encrypted(img.header, n)
  PROVE  /\ SaveIn(img, a) \in {0, n}
         /\ (\A q \in Parts : img.area[a][q] = Encrypted(img.header, n)) => SaveIn(img, a) = n
  <1>1. Decrypted(img.header, img.area[a][p]) = n
    BY DEF Decrypted, Encrypted, Zero
  <1>2. p = "head" \/ p = "body" BY DEF Parts
  <1>3. SaveIn(img, a) \in {0, n}
    BY <1>1, <1>2 DEF SaveIn
  <1>4. ASSUME \A q \in Parts : img.area[a][q] = Encrypted(img.header, n)
        PROVE  SaveIn(img, a) = n
    BY <1>4 DEF SaveIn, Decrypted, Encrypted, Zero, Parts
  <1> QED BY <1>3, <1>4

(***************************************************************************)
(* The invariant.                                                          *)
(***************************************************************************)
\* Every image has a header, and every figure is of some kind.
HeadersGiven ==
  /\ \A i \in Ids : stored[i] # None => kind[i] \in Kinds /\ stored[i].header \in Headers
  /\ slot.entity # None => slot.image.header \in Headers

Existing ==
  /\ \A i \in spoilt : stored[i] # None
  /\ selected # None => stored[selected] # None
  /\ slot.entity # None /\ ~slot.old => slot.entity < next

\* What a poll or a deadline may save at any moment is good, and, unless it is
\* from before a format, not older than what the library holds.
Keeps(s) ==
  s.entity # None /\ ~s.strayed =>
    /\ Newest(s.image) > 0
    /\ ~s.old /\ s.entity \notin spoilt /\ stored[s.entity] # None
       => s.image.header = Header(s.entity) /\ Newest(s.image) >= Newest(stored[s.entity])

SlotGood == Keeps(slot)

\* While the console writes one area, the other holds the save before.
ConsoleKnows ==
  /\ left # {} => known # None
  /\ known # None /\ slot.told /\ ~slot.strayed =>
       /\ slot.entity # None /\ known.key = slot.image.header
       /\ left = {} =>
            /\ SaveIn(slot.image, known.area) = known.save
            /\ SaveIn(slot.image, Other(known.area)) <= known.save
       /\ left # {} =>
            /\ SaveIn(slot.image, known.area) <= known.save
            /\ SaveIn(slot.image, Other(known.area)) = known.save - 1
            /\ known.save > 1
            /\ \A p \in Parts \ left :
                 slot.image.area[known.area][p] = Encrypted(known.key, known.save)

IInv == TypeOK /\ HeadersGiven /\ Existing /\ AlwaysPlayable /\ SlotGood /\ ConsoleKnows

-----------------------------------------------------------------------------
LEMMA EmptyType ==
  Empty \in SlotType /\ Empty.entity = None
  BY SeriesAssumption DEF Empty, SlotType, Placeholder, Images, Blocks, Zero, Junk

LEMMA InitKeeps == Init => IInv
  <1> SUFFICES ASSUME Init PROVE IInv
    OBVIOUS
  <1>1. Empty \in SlotType
    BY EmptyType
  <1>2. TypeOK
    <2>1. stored \in [Ids -> Images \union {None}] /\ \A i \in Ids : stored[i] = None
      BY DEF Init
    <2>2. formats \in 0 .. MaxFormats
      BY SeriesAssumption DEF Init
    <2>3. next \in Nat \ {0}
      BY DEF Init
    <2>5. changed \in BOOLEAN
      BY Zenon DEF Init
    <2>4. left \subseteq Parts /\ spoilt \subseteq Ids
      BY DEF Init
    <2> QED BY <1>1, <2>1, <2>2, <2>3, <2>4, <2>5, Zenon DEF Init, TypeOK
  <1> QED
    BY <1>2 DEF Init, IInv, HeadersGiven, Existing, AlwaysPlayable, SlotGood, Keeps,
                ConsoleKnows, Empty

LEMMA HeaderType ==
  ASSUME NEW i \in Ids, NEW k \in Kinds
  PROVE  HeaderOf(i, k) \in Headers
  BY SeriesAssumption DEF HeaderOf, Headers

\* A new figure or a clone.
LEMMA AddedKeeps ==
  ASSUME IInv, NEW k \in Kinds, NEW img \in Images, img.header = HeaderOf(next, k),
         Added(k, img), spoilt \subseteq spoilt', spoilt' \subseteq spoilt \union {next},
         next \in spoilt' \/ Newest(img) > 0
  PROVE  IInv'
  <1> USE DEF IInv
  <1>0. /\ next \in Ids /\ stored'[next] = img /\ formats' = formats /\ slot' = slot
        /\ \A i \in Ids \ {next} : stored'[i] = stored[i]
        /\ kind'[next] = k /\ \A i \in Ids \ {next} : kind'[i] = kind[i]
        /\ next' = next + 1 /\ selected' = selected
    BY DEF Added, TypeOK, console
  <1>1. TypeOK'
    <2>1. stored' \in [Ids -> Images \union {None}] /\ kind' \in [Ids -> Kinds \union {None}]
      BY DEF Added, TypeOK
    <2>2. next' \in Nat \ {0} /\ \A i \in Ids : stored'[i] # None => i < next'
      BY <1>0 DEF TypeOK, Ids
    <2>3. spoilt' \subseteq Ids
      BY <1>0 DEF TypeOK
    <2>4. UNCHANGED <<formats, selected, changed, slot, known, left>>
      BY DEF Added, console
    <2> QED BY <2>1, <2>2, <2>3, <2>4 DEF TypeOK
  <1>2. HeadersGiven'
    <2>1. HeaderOf(next, k) \in Headers
      BY <1>0, HeaderType
    <2> QED BY <1>0, <2>1 DEF HeadersGiven
  <1>3. Existing'
    <2>1. img # None
      BY SeriesAssumption
    <2>2. spoilt \subseteq Ids /\ selected \in Ids \union {None} /\ slot.entity \in Ids \union {None}
      BY DEF TypeOK, SlotType
    <2>3. (\A i \in spoilt : stored[i] # None)'
      BY <1>0, <2>1, <2>2 DEF Existing
    <2>4. (selected # None => stored[selected] # None)'
      BY <1>0, <2>1, <2>2 DEF Existing
    <2>5. (slot.entity # None /\ ~slot.old => slot.entity < next)'
      BY <1>0, <2>2 DEF Existing, Ids, TypeOK
    <2> QED BY <2>3, <2>4, <2>5 DEF Existing
  <1>4. AlwaysPlayable'
    BY <1>0 DEF AlwaysPlayable, Header
  <1>5. SlotGood'
    <2>1. SUFFICES ASSUME slot.entity # None, ~slot.strayed, ~slot.old,
                          slot.entity \notin spoilt', stored'[slot.entity] # None
                   PROVE  /\ slot.image.header = Header(slot.entity)'
                          /\ Newest(slot.image) >= Newest(stored'[slot.entity])
      BY <1>0 DEF SlotGood, Keeps
    <2>2. slot.entity \in Ids /\ slot.entity < next
      BY <2>1 DEF Existing, TypeOK, SlotType
    <2>3. slot.entity # next
      BY <2>2, <1>0 DEF Ids
    <2> QED BY <1>0, <2>1, <2>2, <2>3 DEF SlotGood, Keeps, Header
  <1>6. ConsoleKnows'
    BY DEF Added, ConsoleKnows, console
  <1> QED BY <1>1, <1>2, <1>3, <1>4, <1>5, <1>6

\* A save of a dirty slot, or its refusal.
LEMMA FlushedKeeps ==
  ASSUME IInv, NEW s \in {slot, [slot EXCEPT !.dirty = FALSE]}, Flushed(s),
         UNCHANGED <<kind, next, formats>>
  PROVE  /\ s \in SlotType
         /\ s.entity = slot.entity /\ s.image = slot.image
         /\ s.told = slot.told /\ s.strayed = slot.strayed /\ s.old = slot.old
         /\ stored' \in [Ids -> Images \union {None}] /\ spoilt' \subseteq Ids
         /\ \A i \in Ids : stored'[i] # None <=> stored[i] # None
         /\ \A i \in Ids : stored'[i] # None => stored'[i].header \in Headers
         /\ \A i \in spoilt' : stored'[i] # None
         /\ AlwaysPlayable'
         /\ Keeps(s)'
  <1> USE DEF IInv
  <1>1. /\ s \in SlotType
        /\ s.entity = slot.entity /\ s.image = slot.image
        /\ s.told = slot.told /\ s.strayed = slot.strayed /\ s.old = slot.old
    BY DEF TypeOK, SlotType
  <1>2. CASE UNCHANGED <<stored, spoilt>>
    BY <1>1, <1>2 DEF TypeOK, HeadersGiven, Existing, AlwaysPlayable, SlotGood, Keeps, Header
  <1>3. CASE /\ slot.entity # None /\ stored[slot.entity] # None
             /\ stored' = [stored EXCEPT ![slot.entity] = slot.image]
             /\ spoilt' = spoilt \union
                  {i \in {slot.entity} : slot.strayed \/ slot.old}
    <2>1. slot.entity \in Ids /\ slot.image \in Images
      BY <1>3 DEF TypeOK, SlotType
    <2>2. /\ stored'[slot.entity] = slot.image /\ slot.image # None
          /\ \A i \in Ids \ {slot.entity} : stored'[i] = stored[i]
      BY <1>3, <2>1, SeriesAssumption DEF TypeOK
    <2>3. stored' \in [Ids -> Images \union {None}] /\ spoilt' \subseteq Ids
      BY <1>3, <2>1 DEF TypeOK
    <2>4. \A i \in Ids : stored'[i] # None <=> stored[i] # None
      BY <1>3, <2>2
    <2>5. \A i \in Ids : stored'[i] # None => stored'[i].header \in Headers
      BY <1>3, <2>2 DEF HeadersGiven
    <2>6. \A i \in spoilt' : stored'[i] # None
      BY <1>3, <2>1, <2>4 DEF Existing, TypeOK
    <2>7. AlwaysPlayable'
      BY <1>3, <2>2 DEF AlwaysPlayable, SlotGood, Keeps, Header
    <2>8. Keeps(s)'
      <3>1. Newest(slot.image) \in 0 .. MaxSave
        BY <2>1, NewestRange
      <3>2. ASSUME ~slot.strayed, ~slot.old, slot.entity \notin spoilt'
            PROVE  s.image.header = Header(s.entity)'
        BY <1>1, <1>3, <3>2 DEF SlotGood, Keeps, Header
      <3>3. ASSUME ~slot.strayed PROVE Newest(slot.image) > 0
        BY <1>3, <3>3 DEF SlotGood, Keeps
      <3>4. Newest(s.image) >= Newest(stored'[s.entity])
        BY <1>1, <2>2, <3>1
      <3> QED BY <1>1, <3>2, <3>3, <3>4 DEF Keeps
    <2> QED BY <1>1, <2>3, <2>4, <2>5, <2>6, <2>7, <2>8
  <1> QED BY <1>2, <1>3 DEF Flushed

LEMMA DeleteKeeps ==
  ASSUME IInv, NEW i \in Ids, DeleteEntity(i)
  PROVE  IInv'
  <1> USE DEF IInv
  <1>1. /\ stored'[i] = None /\ formats' = formats /\ slot' = slot /\ next' = next
        /\ \A j \in Ids \ {i} : stored'[j] = stored[j] /\ kind'[j] = kind[j]
        /\ spoilt' = spoilt \ {i} /\ known' = known /\ left' = left
        /\ selected' = IF selected = i THEN None ELSE selected
    BY DEF DeleteEntity, TypeOK, console
  <1>2. TypeOK'
    <2>1. /\ stored' \in [Ids -> Images \union {None}] /\ changed' \in BOOLEAN
          /\ kind' \in [Ids -> Kinds \union {None}]
      BY DEF DeleteEntity, TypeOK
    <2> QED BY <1>1, <2>1 DEF TypeOK
  <1>3. HeadersGiven'
    BY <1>1 DEF HeadersGiven
  <1>4. Existing'
    BY <1>1 DEF Existing, TypeOK, Header
  <1>5. AlwaysPlayable'
    BY <1>1 DEF AlwaysPlayable, Header
  <1>6. SlotGood'
    BY <1>1 DEF SlotGood, Keeps, Header, TypeOK, SlotType
  <1>7. ConsoleKnows'
    BY <1>1 DEF ConsoleKnows
  <1> QED BY <1>2, <1>3, <1>4, <1>5, <1>6, <1>7

LEMMA FormatKeeps ==
  ASSUME IInv, Format
  PROVE  IInv'
  <1> USE DEF IInv, Format
  <1>1. /\ \A i \in Ids : stored'[i] = None
        /\ known' = known /\ left' = left
    BY DEF console
  <1>2. /\ slot' = [slot EXCEPT !.old = slot.entity # None] /\ slot' \in SlotType
        /\ slot'.entity = slot.entity /\ slot'.image = slot.image
        /\ slot'.told = slot.told /\ slot'.strayed = slot.strayed
        /\ slot'.entity # None => slot'.old
    BY DEF TypeOK, SlotType
  <1>3. TypeOK'
    <2>1. stored' \in [Ids -> Images \union {None}] /\ kind' \in [Ids -> Kinds \union {None}]
      OBVIOUS
    <2>2. formats' \in 0 .. MaxFormats
      BY SeriesAssumption DEF TypeOK
    <2>3. next' \in Nat \ {0}
      OBVIOUS
    <2>4. selected' = None /\ changed' \in BOOLEAN /\ spoilt' \subseteq Ids
      BY Zenon
    <2> QED BY <1>1, <1>2, <2>1, <2>2, <2>3, <2>4, Zenon DEF TypeOK
  <1>5. HeadersGiven'
    BY <1>1, <1>2 DEF HeadersGiven
  <1>6. Existing'
    BY <1>1, <1>2 DEF Existing
  <1>7. AlwaysPlayable'
    BY <1>1 DEF AlwaysPlayable
  <1>8. SlotGood'
    BY <1>1, <1>2 DEF SlotGood, Keeps
  <1>9. ConsoleKnows'
    BY <1>1, <1>2 DEF ConsoleKnows
  <1> QED BY <1>3, <1>5, <1>6, <1>7, <1>8, <1>9

\* Steps that only choose what is selected.
LEMMA SelectionKeeps ==
  ASSUME IInv, UNCHANGED <<library, slot, console>>, changed' \in BOOLEAN,
         selected' \in Ids \union {None}, selected' # None => stored[selected'] # None
  PROVE  IInv'
  BY Zenon DEF IInv, library, console, TypeOK, HeadersGiven, Existing, AlwaysPlayable, SlotGood, Keeps,
         ConsoleKnows, Header

-----------------------------------------------------------------------------
\* A save with what the device makes of the slot afterwards.
LEMMA DeviceKeeps ==
  ASSUME IInv, NEW s \in {slot, [slot EXCEPT !.dirty = FALSE]}, Flushed(s),
         UNCHANGED <<kind, next, formats, selected, console>>, changed' \in BOOLEAN,
         \/ slot' = s \/ slot' = Cleared(s)
         \/ selected # None /\ slot' = Loaded(s, selected)
  PROVE  IInv'
  <1> USE DEF IInv
  <1>1. /\ s \in SlotType
        /\ s.entity = slot.entity /\ s.image = slot.image
        /\ s.told = slot.told /\ s.strayed = slot.strayed /\ s.old = slot.old
        /\ stored' \in [Ids -> Images \union {None}] /\ spoilt' \subseteq Ids
        /\ \A i \in Ids : stored'[i] # None <=> stored[i] # None
        /\ \A i \in Ids : stored'[i] # None => stored'[i].header \in Headers
        /\ \A i \in spoilt' : stored'[i] # None
        /\ AlwaysPlayable'
        /\ Keeps(s)'
    BY FlushedKeeps
  <1>2. /\ next' = next /\ formats' = formats /\ selected' = selected /\ kind' = kind
        /\ known' = known /\ left' = left
    BY DEF console
  <1>3. SUFFICES /\ slot' \in SlotType
                 /\ slot'.entity # None => slot'.image.header \in Headers
                 /\ slot'.entity # None /\ ~slot'.old => slot'.entity < next
                 /\ Keeps(slot)'
                 /\ ConsoleKnows'
    <2>1. TypeOK'
      BY <1>1, <1>2, <1>3 DEF TypeOK
    <2>2. HeadersGiven'
      BY <1>1, <1>2, <1>3 DEF HeadersGiven
    <2>3. Existing'
      BY <1>1, <1>2, <1>3 DEF Existing, Header, TypeOK
    <2> QED BY <1>1, <1>3, <2>1, <2>2, <2>3 DEF SlotGood
  <1>4. CASE slot' = s
    <2>1. Keeps(slot)'
      BY <1>1, <1>4 DEF Keeps
    <2>2. ConsoleKnows'
      BY <1>1, <1>2, <1>4 DEF ConsoleKnows
    <2> QED BY <1>1, <1>4, <2>1, <2>2 DEF HeadersGiven, Existing
  <1>5. CASE slot' = Cleared(s) /\ s.entity # None
    <2>1. slot' = [Empty EXCEPT !.told = FALSE]
      BY <1>5 DEF Cleared
    <2>2. slot' \in SlotType /\ slot'.entity = None /\ ~slot'.told
      BY <2>1, EmptyType DEF SlotType
    <2> QED BY <1>2, <2>2 DEF Keeps, ConsoleKnows
  <1>6. CASE selected # None /\ slot' = Loaded(s, selected)
    <2>1. selected \in Ids /\ stored'[selected] # None /\ selected < next
      BY <1>1, <1>6 DEF TypeOK, Existing
    <2>2. stored'[selected] \in Images
      BY <1>1, <2>1
    <2>3. slot' \in SlotType
      BY <1>6, <2>1, <2>2 DEF Loaded, SlotType
    <2>4. /\ slot'.entity = selected /\ slot'.image = stored'[selected]
          /\ ~slot'.told /\ (slot'.strayed <=> selected \in spoilt')
      BY <1>6 DEF Loaded
    <2>5. Keeps(slot)'
      <3>1. Newest(stored'[selected]) \in 0 .. MaxSave
        BY <2>2, NewestRange
      <3> QED BY <1>1, <2>1, <2>4, <3>1 DEF Keeps, AlwaysPlayable
    <2> QED BY <1>1, <1>2, <2>1, <2>3, <2>4, <2>5 DEF ConsoleKnows
  <1> QED BY <1>4, <1>5, <1>6 DEF Cleared

LEMMA RestartKeeps ==
  ASSUME IInv, Restart
  PROVE  IInv'
  <1> USE DEF IInv
  <1>1. Empty \in SlotType /\ Empty.entity = None
    BY EmptyType
  <1>2. /\ UNCHANGED <<stored, kind, next, formats, spoilt>>
        /\ selected' = None /\ slot' = Empty /\ known' = None /\ left' = {}
    BY DEF Restart, library
  <1>3. changed' \in BOOLEAN
    BY Zenon DEF Restart
  <1>4. TypeOK'
    BY <1>1, <1>2, <1>3 DEF TypeOK
  <1> QED BY <1>1, <1>2, <1>4
    DEF HeadersGiven, Existing, AlwaysPlayable, SlotGood, Keeps, ConsoleKnows, Header

LEMMA NoticeKeeps ==
  ASSUME IInv, Notice
  PROVE  IInv'
  <1> USE DEF IInv
  <1>1. /\ UNCHANGED <<stored, kind, next, formats, spoilt, selected, changed>>
        /\ slot' = [slot EXCEPT !.told = TRUE] /\ left' = {}
    BY DEF Notice, library
  <1>2. /\ slot' \in SlotType
        /\ slot'.entity = slot.entity /\ slot'.image = slot.image /\ slot'.strayed = slot.strayed
    BY <1>1 DEF TypeOK, SlotType
  <1> DEFINE img == slot.image
  <1>3. img \in Images
    BY DEF TypeOK, SlotType
  <1>4. CASE slot.entity # None /\ Newest(img) > 0
    <2>1. known' = [key |-> img.header, area |-> NewestArea(img), save |-> Newest(img)]
      BY <1>4 DEF Notice
    <2>2. img.header \in Headers
      BY <1>4, SeriesAssumption DEF HeadersGiven, Headers, TypeOK
    <2>3. /\ NewestArea(img) \in Areas /\ Other(NewestArea(img)) \in Areas
          /\ Newest(img) \in 0 .. MaxSave
          /\ \A a \in Areas : SaveIn(img, a) <= Newest(img)
      BY <1>3, NewestRange
    <2> HIDE DEF img
    <2>4. Newest(img) \in 1 .. MaxSave
      BY <1>4, <2>3, SeriesAssumption
    <2>5. known' \in Knowledge
      BY <2>1, <2>2, <2>3, <2>4 DEF Knowledge
    <2>6. TypeOK'
      BY <1>1, <1>2, <2>5 DEF TypeOK
    <2>7. ConsoleKnows'
      BY <1>1, <1>2, <1>4, <2>1, <2>3, NewestOfArea DEF ConsoleKnows, img
    <2> QED BY <1>1, <1>2, <2>6, <2>7
      DEF HeadersGiven, Existing, AlwaysPlayable, SlotGood, Keeps, Header
  <1>5. CASE ~(slot.entity # None /\ Newest(img) > 0)
    <2>1. known' = None
      BY <1>5 DEF Notice
    <2>2. TypeOK'
      BY <1>1, <1>2, <2>1 DEF TypeOK
    <2> QED BY <1>1, <1>2, <2>1, <2>2
      DEF HeadersGiven, Existing, AlwaysPlayable, SlotGood, Keeps, Header, ConsoleKnows
  <1> QED BY <1>4, <1>5

LEMMA StartSaveKeeps ==
  ASSUME IInv, StartSave
  PROVE  IInv'
  <1> USE DEF IInv
  <1>1. /\ UNCHANGED <<stored, kind, next, formats, spoilt, selected, changed, slot>>
        /\ known # None /\ left = {} /\ left' = Parts /\ known.save < MaxSave
        /\ known' = [known EXCEPT !.area = Other(@), !.save = @ + 1]
    BY DEF StartSave, library
  <1>2. known \in Knowledge
    BY <1>1 DEF TypeOK
  <1>3. Other(known.area) \in Areas /\ Other(Other(known.area)) = known.area
    BY <1>2, OtherArea DEF Knowledge
  <1>4. /\ known'.key = known.key /\ known'.area = Other(known.area)
        /\ known'.save = known.save + 1
        /\ known' \in Knowledge
    <2>1. known.save + 1 \in 1 .. MaxSave
      BY <1>1, <1>2, SeriesAssumption DEF Knowledge
    <2>2. known' = [key |-> known.key, area |-> Other(known.area), save |-> known.save + 1]
      BY <1>1, <1>2 DEF Knowledge
    <2> QED BY <1>2, <1>3, <2>1, <2>2 DEF Knowledge
  <1>5. TypeOK'
    BY <1>1, <1>4 DEF TypeOK
  <1>6. ConsoleKnows'
    <2>1. SUFFICES ASSUME slot.told, ~slot.strayed
                   PROVE  ConsoleKnows'
      BY <1>1, <1>4, SeriesAssumption DEF ConsoleKnows
    <2>2. SaveIn(slot.image, Other(known.area)) \in 0 .. MaxSave
      BY <1>3, SaveInRange DEF TypeOK, SlotType
    <2>3. known.save \in 1 .. MaxSave /\ Parts # {}
      BY <1>2 DEF Parts, Knowledge
    <2> QED BY <1>1, <1>3, <1>4, <2>1, <2>2, <2>3, SeriesAssumption DEF ConsoleKnows
  <1> QED BY <1>1, <1>5, <1>6
    DEF HeadersGiven, Existing, AlwaysPlayable, SlotGood, Keeps, Header

LEMMA WriteRefusedKeeps ==
  ASSUME IInv, WriteRefused
  PROVE  IInv'
  <1>1. /\ UNCHANGED <<stored, kind, next, formats, spoilt, selected, changed, slot>>
        /\ known' = None /\ left' = {}
    BY DEF WriteRefused, library
  <1> QED BY <1>1 DEF IInv, TypeOK, HeadersGiven, Existing, AlwaysPlayable, SlotGood, Keeps,
                      Header, ConsoleKnows

\* A part that the console means for this figure.
LEMMA WriteBlockKeeps ==
  ASSUME IInv, NEW p \in Parts, WriteBlock(p)
  PROVE  IInv'
  <1> USE DEF IInv
  <1> DEFINE img == slot.image
             a   == known.area
             n   == known.save
             new == Written(img, a, p, Encrypted(known.key, n))
  <1>1. /\ UNCHANGED <<stored, kind, next, formats, spoilt, selected, changed, known>>
        /\ p \in left /\ left' = left \ {p} /\ slot.entity # None /\ ~slot.strayed
        /\ slot' = IF new = img THEN slot
                   ELSE [slot EXCEPT !.image = new, !.dirty = TRUE, !.strayed = ~slot.told]
    BY DEF WriteBlock, library, OneStray
  <1>2. known # None /\ known \in Knowledge
    BY <1>1 DEF ConsoleKnows, TypeOK
  <1>3. img \in Images /\ a \in Areas /\ n \in 1 .. MaxSave /\ known.key \in Headers
    BY <1>2 DEF TypeOK, SlotType, Knowledge
  <1>4. /\ new \in Images /\ new.header = img.header
        /\ \A b \in Areas \ {a} : SaveIn(new, b) = SaveIn(img, b)
        /\ new.area[a][p] = Encrypted(known.key, n)
        /\ \A q \in Parts \ {p} : new.area[a][q] = img.area[a][q]
    BY <1>3, WrittenKeepsOther
  <1> HIDE DEF new
  <1>5. /\ slot'.entity = slot.entity /\ slot'.image = new /\ slot'.told = slot.told
        /\ slot' = slot \/ (slot'.strayed <=> ~slot.told)
        /\ slot.told => ~slot'.strayed
        /\ slot' \in SlotType
    BY <1>1, <1>4 DEF TypeOK, SlotType
  <1>6. TypeOK'
    BY <1>1, <1>5 DEF TypeOK
  <1>7. HeadersGiven' /\ Existing' /\ AlwaysPlayable'
    BY <1>1, <1>4, <1>5 DEF HeadersGiven, Existing, AlwaysPlayable, Header
  <1>8. CASE ~slot.told
    <2>1. ConsoleKnows'
      BY <1>1, <1>2, <1>5, <1>8 DEF ConsoleKnows
    <2>2. CASE slot' = slot
      BY <1>1, <1>6, <1>7, <2>1, <2>2 DEF SlotGood, Keeps, Header
    <2>3. CASE slot'.strayed
      BY <1>6, <1>7, <2>1, <2>3 DEF SlotGood, Keeps
    <2> QED BY <1>5, <1>8, <2>2, <2>3
  <1>9. CASE slot.told
    <2>1. /\ known.key = img.header /\ n > 1
          /\ SaveIn(img, a) <= n /\ SaveIn(img, Other(a)) = n - 1
          /\ \A q \in Parts \ left : img.area[a][q] = Encrypted(img.header, n)
      BY <1>1, <1>2, <1>9 DEF ConsoleKnows
    <2>2. Other(a) \in Areas \ {a} /\ SaveIn(new, Other(a)) = n - 1
      BY <1>3, <1>4, <2>1, OtherArea
    <2>3. /\ SaveIn(new, a) \in {0, n}
          /\ (\A q \in Parts : new.area[a][q] = Encrypted(new.header, n)) => SaveIn(new, a) = n
      BY <1>3, <1>4, <2>1, PartDecrypted
    <2>4. SaveIn(img, a) = n => SaveIn(new, a) = n
      <3>1. Decrypted(new.header, new.area[a][p]) = n
        BY <1>3, <1>4, <2>1, SeriesAssumption DEF Decrypted, Encrypted, Zero
      <3> QED BY <1>3, <1>4, <3>1 DEF SaveIn, Parts
    <2>5. Newest(new) >= Newest(img) /\ Newest(new) > 0
      <3>1. /\ SaveIn(new, a) <= Newest(new) /\ n - 1 <= Newest(new)
            /\ Newest(new) \in 0 .. MaxSave
        BY <1>3, <1>4, <2>2, NewestRange
      <3>2. Newest(img) = SaveIn(img, a) \/ Newest(img) = n - 1
        BY <1>3, <2>1, NewestByAreas
      <3>3. SaveIn(img, a) \in 0 .. MaxSave
        BY <1>3, SaveInRange
      <3> QED BY <1>3, <2>1, <2>4, <3>1, <3>2, <3>3, SeriesAssumption
    <2>6. SlotGood'
      <3>1. slot.entity \in Ids
        BY <1>1 DEF TypeOK, SlotType
      <3>2. stored[slot.entity] # None => Newest(stored[slot.entity]) \in 0 .. MaxSave
        BY <3>1, NewestRange DEF TypeOK
      <3>3. Newest(new) \in 0 .. MaxSave /\ Newest(img) \in 0 .. MaxSave
        BY <1>3, <1>4, NewestRange
      <3> QED BY <1>1, <1>4, <1>5, <2>5, <3>2, <3>3, SeriesAssumption
               DEF SlotGood, Keeps, Header
    <2>7. ConsoleKnows'
      <3>1. left' = {} => SaveIn(new, a) = n
        BY <1>1, <1>4, <2>1, <2>3
      <3>2. \A q \in Parts \ left' : new.area[a][q] = Encrypted(known.key, n)
        BY <1>1, <1>4, <2>1
      <3> QED BY <1>1, <1>2, <1>3, <1>4, <1>5, <2>1, <2>2, <2>3, <3>1, <3>2 DEF ConsoleKnows
    <2> QED BY <1>6, <1>7, <2>6, <2>7
  <1> QED BY <1>8, <1>9

LEMMA NextKeeps ==
  ASSUME IInv, [Next]_vars
  PROVE  IInv'
  <1>1. ASSUME NEW k \in Kinds, CreateEntity(k) PROVE IInv'
    <2>1. next \in Ids
      BY <1>1 DEF CreateEntity, Added
    <2>2. /\ NewImage(HeaderOf(next, k)) \in Images
          /\ NewImage(HeaderOf(next, k)).header = HeaderOf(next, k)
          /\ Newest(NewImage(HeaderOf(next, k))) > 0
      BY <2>1, HeaderType, NewImageHasSave DEF IInv
    <2> QED BY <1>1, <2>2, AddedKeeps DEF CreateEntity
  <1>2. ASSUME NEW i \in Ids, CloneEntity(i) PROVE IInv'
    <2>1. /\ next \in Ids /\ stored[i] \in Images /\ kind[i] \in Kinds
          /\ spoilt' = spoilt \union {n \in {next} : i \in spoilt}
      BY <1>2 DEF CloneEntity, Added, IInv, TypeOK, HeadersGiven
    <2> DEFINE img == Rekeyed(stored[i], HeaderOf(next, kind[i]))
    <2>2. /\ img \in Images /\ img.header = HeaderOf(next, kind[i])
          /\ Newest(stored[i]) > 0 => Newest(img) = Newest(stored[i])
      BY <2>1, HeaderType, RekeyedKeepsSave DEF IInv
    <2>3. Added(kind[i], img) /\ stored[i] # None
      BY <1>2 DEF CloneEntity
    <2> HIDE DEF img
    <2>4. next \in spoilt' \/ Newest(img) > 0
      BY <1>2, <2>1, <2>2, <2>3 DEF IInv, AlwaysPlayable
    <2> QED BY <2>1, <2>2, <2>3, <2>4, AddedKeeps
  <1>3. ASSUME NEW i \in Ids, SelectEntity(i) PROVE IInv'
    <2>1. changed' \in BOOLEAN
      BY <1>3 DEF SelectEntity
    <2> QED BY <1>3, <2>1, SelectionKeeps DEF SelectEntity, Selectable
  <1>4. CASE ClearActive
    <2>1. changed' \in BOOLEAN
      BY <1>4, Zenon DEF ClearActive
    <2> QED BY <1>4, <2>1, SelectionKeeps DEF ClearActive
  <1>5. CASE Flush
    BY <1>5, DeviceKeeps DEF Flush, IInv, TypeOK
  <1>6. CASE PollActiveEntity
    <2>1. changed' \in BOOLEAN
      BY <1>6, Zenon DEF PollActiveEntity
    <2> QED BY <1>6, <2>1, DeviceKeeps DEF PollActiveEntity
  <1>7. CASE PollFails
    BY <1>7, DeviceKeeps DEF PollFails, IInv, TypeOK
  <1>8. CASE UNCHANGED vars
    BY <1>8 DEF vars, library, console, IInv, TypeOK, HeadersGiven, Existing, AlwaysPlayable,
                SlotGood, Keeps, ConsoleKnows, Header
  <1> QED
    BY <1>1, <1>2, <1>3, <1>4, <1>5, <1>6, <1>7, <1>8, DeleteKeeps, FormatKeeps, RestartKeeps,
       NoticeKeeps, StartSaveKeeps, WriteBlockKeeps, WriteRefusedKeeps
    DEF Next

THEOREM Invariance == Spec => []IInv
  <1>1. IInv /\ [Next]_vars => IInv'
    BY NextKeeps
  <1> QED BY InitKeeps, <1>1, PTL DEF Spec

\* Types of the library, the portal and the console's plans.
THEOREM TypeCorrect == Spec => []TypeOK
  BY Invariance, PTL DEF IInv

\* At any moment, whatever was saved in the middle of a series, refused, cloned or
\* replaced: every figure in the library has a valid save under its own header,
\* unless a console wrote to it what it meant for another one, or the portal's
\* copy of a figure from before a format was taken for it (AlwaysPlayable).
THEOREM FiguresStayPlayable == Spec => []AlwaysPlayable
  BY Invariance, PTL DEF IInv

-----------------------------------------------------------------------------
(***************************************************************************)
(* Refinement.                                                             *)
(***************************************************************************)
LEMMA SaveOfFigure ==
  ASSUME IInv, NEW i \in Ids
  PROVE  /\ stored[i] # None /\ i \notin spoilt
              => /\ SaveOf[i] = Newest(stored[i]) /\ SaveOf[i] \in 1 .. MaxSave
                 /\ SaveOf[i] \notin {None, Spoilt}
         /\ stored[i] # None /\ i \in spoilt => SaveOf[i] = Spoilt
         /\ SaveOf[i] = None <=> stored[i] = None
  <1>1. stored[i] # None => Newest(stored[i]) \in 0 .. MaxSave
    BY NewestRange DEF IInv, TypeOK
  <1>2. stored[i] # None /\ i \notin spoilt => Newest(stored[i]) > 0
    BY DEF IInv, AlwaysPlayable
  <1>3. /\ stored[i] = None => SaveOf[i] = None
        /\ stored[i] # None /\ i \in spoilt => SaveOf[i] = Spoilt
        /\ stored[i] # None /\ i \notin spoilt => SaveOf[i] = Newest(stored[i])
    BY DEF SaveOf
  <1> QED BY <1>1, <1>2, <1>3, SeriesAssumption

\* A save replaces the image in the library by one that is not older.
LEMMA FlushedImplements ==
  ASSUME IInv, IInv', NEW s, Flushed(s), UNCHANGED <<kind, next, formats>>, NEW i \in Ids
  PROVE  Progress!Becomes(SaveOf[i], SaveOf'[i])
  <1>1. CASE UNCHANGED <<stored, spoilt>>
    BY <1>1 DEF SaveOf, Progress!Becomes
  <1>2. CASE /\ slot.entity # None /\ stored[slot.entity] # None
             /\ stored' = [stored EXCEPT ![slot.entity] = slot.image]
             /\ spoilt' = spoilt \union
                  {j \in {slot.entity} : slot.strayed \/ slot.old}
    <2>1. CASE i # slot.entity
      <3>1. stored'[i] = stored[i] /\ (i \in spoilt' <=> i \in spoilt)
        BY <1>2, <2>1 DEF IInv, TypeOK
      <3>2. SaveOf'[i] = SaveOf[i]
        BY <3>1 DEF SaveOf
      <3> QED BY <3>2 DEF Progress!Becomes
    <2>2. CASE i = slot.entity /\ i \in spoilt'
      <3>1. SaveOf[i] # None
        BY <1>2, <2>2, SaveOfFigure
      <3>2. stored'[i] # None
        BY <2>2 DEF IInv, Existing
      <3>3. SaveOf'[i] = Spoilt
        BY <2>2, <3>2 DEF SaveOf
      <3> QED BY <3>1, <3>3 DEF Progress!Becomes, Progress!Spoil
    <2>3. CASE i = slot.entity /\ i \notin spoilt'
      <3>1. /\ stored'[i] = slot.image /\ slot.image # None /\ i \notin spoilt
            /\ ~slot.strayed /\ ~slot.old
        BY <1>2, <2>3, SeriesAssumption DEF IInv, TypeOK, SlotType
      <3>2. Newest(slot.image) >= Newest(stored[i])
        BY <1>2, <2>3, <3>1 DEF IInv, SlotGood, Keeps
      <3>3. SaveOf[i] = Newest(stored[i]) /\ SaveOf[i] \in 1 .. MaxSave
            /\ SaveOf[i] \notin {None, Spoilt}
        BY <1>2, <2>3, <3>1, SaveOfFigure
      <3>4. SaveOf'[i] = Newest(slot.image)
        BY <2>3, <3>1 DEF SaveOf
      <3>5. Newest(slot.image) \in 0 .. MaxSave /\ Newest(slot.image) \notin {None, Spoilt}
        BY NewestRange, SeriesAssumption DEF IInv, TypeOK, SlotType
      <3>6. SaveOf'[i] = SaveOf[i] \/ SaveOf'[i] > SaveOf[i]
        BY <3>2, <3>3, <3>4, <3>5, SeriesAssumption
      <3> QED BY <3>3, <3>4, <3>5, <3>6 DEF Progress!Becomes, Progress!Save
    <2> QED BY <2>1, <2>2, <2>3
  <1> QED BY <1>1, <1>2 DEF Flushed

\* A figure appears with a first save or as a clone; the others keep theirs.
LEMMA AddedImplements ==
  ASSUME IInv, IInv', NEW k, NEW img \in Images, Added(k, img), NEW i \in Ids,
         spoilt \subseteq spoilt', spoilt' \subseteq spoilt \union {next},
         \/ next \notin spoilt' /\ Newest(img) = 1
         \/ \E j \in Ids :
              /\ stored[j] # None
              /\ j \in spoilt <=> next \in spoilt'
              /\ j \notin spoilt => Newest(img) = Newest(stored[j])
  PROVE  Progress!Becomes(SaveOf[i], SaveOf'[i])
  <1>1. /\ next \in Ids /\ stored'[next] = img /\ img # None
        /\ \A j \in Ids \ {next} : stored'[j] = stored[j]
    BY SeriesAssumption DEF Added, IInv, TypeOK
  <1>2. CASE i # next
    <2>1. stored'[i] = stored[i] /\ (i \in spoilt' <=> i \in spoilt)
      BY <1>1, <1>2
    <2>2. SaveOf'[i] = SaveOf[i]
      BY <2>1 DEF SaveOf
    <2> QED BY <2>2 DEF Progress!Becomes
  <1>3. CASE i = next
    <2>1. stored[next] = None
      BY <1>1 DEF IInv, TypeOK
    <2>2. SaveOf[i] = None
      BY <1>3, <2>1 DEF SaveOf
    <2>3. SaveOf'[i] = IF i \in spoilt' THEN Spoilt ELSE Newest(img)
      BY <1>1, <1>3 DEF SaveOf
    <2>4. CASE next \notin spoilt' /\ Newest(img) = 1
      BY <1>3, <2>2, <2>3, <2>4 DEF Progress!Becomes, Progress!Create
    <2>5. ASSUME NEW j \in Ids, stored[j] # None, j \in spoilt <=> next \in spoilt',
                 j \notin spoilt => Newest(img) = Newest(stored[j])
          PROVE  Progress!Becomes(SaveOf[i], SaveOf'[i])
      <3>1. SaveOf[j] # None /\ SaveOf'[i] = SaveOf[j]
        BY <1>3, <2>3, <2>5, SaveOfFigure
      <3> QED BY <2>2, <3>1 DEF Progress!Becomes, Progress!Clone
    <2> QED BY <2>4, <2>5
  <1> QED BY <1>2, <1>3

LEMMA StepImplements ==
  ASSUME IInv, IInv', [Next]_vars, NEW i \in Ids
  PROVE  Progress!Becomes(SaveOf[i], SaveOf'[i])
  <1>1. ASSUME NEW k \in Kinds, CreateEntity(k)
        PROVE  Progress!Becomes(SaveOf[i], SaveOf'[i])
    <2>1. next \in Ids
      BY <1>1 DEF CreateEntity, Added
    <2>2. NewImage(HeaderOf(next, k)) \in Images /\ Newest(NewImage(HeaderOf(next, k))) = 1
      BY <2>1, HeaderType, NewImageHasSave DEF IInv
    <2>3. next \notin spoilt /\ spoilt' = spoilt
      BY <1>1, <2>1 DEF CreateEntity, IInv, Existing, TypeOK
    <2> QED BY <1>1, <2>2, <2>3, AddedImplements DEF CreateEntity
  <1>2. ASSUME NEW j \in Ids, CloneEntity(j)
        PROVE  Progress!Becomes(SaveOf[i], SaveOf'[i])
    <2>1. /\ next \in Ids /\ stored[j] \in Images /\ stored[j] # None /\ kind[j] \in Kinds
          /\ spoilt' = spoilt \union {n \in {next} : j \in spoilt}
          /\ next \notin spoilt
      BY <1>2 DEF CloneEntity, Added, IInv, TypeOK, Existing, HeadersGiven
    <2> DEFINE img == Rekeyed(stored[j], HeaderOf(next, kind[j]))
    <2>2. img \in Images /\ (Newest(stored[j]) > 0 => Newest(img) = Newest(stored[j]))
      BY <2>1, HeaderType, RekeyedKeepsSave DEF IInv
    <2>3. Added(kind[j], img)
      BY <1>2 DEF CloneEntity
    <2> HIDE DEF img
    <2>4. j \notin spoilt => Newest(img) = Newest(stored[j])
      BY <2>1, <2>2 DEF IInv, AlwaysPlayable
    <2> QED BY <2>1, <2>2, <2>3, <2>4, AddedImplements
  <1>3. ASSUME NEW j \in Ids, DeleteEntity(j)
        PROVE  Progress!Becomes(SaveOf[i], SaveOf'[i])
    <2>1. CASE i = j
      <3>1. SaveOf'[i] = None
        BY <1>3, <2>1 DEF DeleteEntity, SaveOf, IInv, TypeOK
      <3> QED BY <3>1 DEF Progress!Becomes, Progress!Delete
    <2>2. CASE i # j
      <3>1. stored'[i] = stored[i] /\ (i \in spoilt' <=> i \in spoilt)
        BY <1>3, <2>2 DEF DeleteEntity, IInv, TypeOK
      <3>2. SaveOf'[i] = SaveOf[i]
        BY <3>1 DEF SaveOf
      <3> QED BY <3>2 DEF Progress!Becomes
    <2> QED BY <2>1, <2>2
  <1>4. CASE Format
    <2>1. SaveOf'[i] = None
      BY <1>4 DEF Format, SaveOf
    <2> QED BY <2>1 DEF Progress!Becomes, Progress!Delete
  <1>5. CASE Flush \/ PollActiveEntity \/ PollFails
    BY <1>5, FlushedImplements DEF Flush, PollActiveEntity, PollFails
  <1>6. CASE UNCHANGED <<stored, spoilt>>
    BY <1>6 DEF SaveOf, Progress!Becomes
  <1> QED
    BY <1>1, <1>2, <1>3, <1>4, <1>5, <1>6
    DEF Next, SelectEntity, ClearActive, Restart, Notice, StartSave, WriteRefused, WriteBlock,
        vars, library

\* The save in a figure never gets older: the library, the portal and the console
\* together implement Saves (ImplementsSaves).
THEOREM SavesNeverGetOlder == Spec => ImplementsSaves
  <1>1. Init => Progress!Init
    BY DEF Init, Progress!Init, SaveOf
  <1>2. IInv /\ IInv' /\ [Next]_vars => [Progress!Next]_SaveOf
    BY StepImplements DEF Progress!Next
  <1> QED BY <1>1, <1>2, Invariance, PTL DEF Spec, ImplementsSaves, Progress!Spec

=============================================================================
