---------------------------- MODULE FigureImage -----------------------------
(***************************************************************************)
(* The image of a Skylanders figure (src/figures/skylanders): a header, in *)
(* plain text, and two save areas, which the game writes in turn.  A save  *)
(* area is valid when its checksums are, and the valid one with the higher *)
(* sequence number counts.  Its blocks are encrypted with a key made from  *)
(* the header, so a header stands here for its key.                        *)
(*                                                                         *)
(* An area is reduced to two parts: the head, with the sequence number and *)
(* the checksums, and the body they cover.  The content of a part is the   *)
(* number of the save it was written by.                                   *)
(***************************************************************************)
EXTENDS Integers

CONSTANT None

Areas == {1, 2}
Parts == {"head", "body"}

-----------------------------------------------------------------------------
(***************************************************************************)
(* Where the parts are, in blocks of 16 bytes.                             *)
(***************************************************************************)
Block(byte) == byte \div 16

\* Sector trailers and the first two sectors are never encrypted.
IsPlaintextBlock(b) == b < 8 \/ b % 4 = 3

\* The primary areas start at 0x80 and 0x240.
PrimaryArea == <<128, 576>>
SecondaryArea == <<272, 720>>

\* The blocks that a checksum over the first n bytes, and m bytes from 0x30
\* on, takes from `start`.
Covered(start, n, m) ==
  {Block(start + i) : i \in 0 .. n - 1} \union {Block(start + 48 + i) : i \in 0 .. m - 1}

\* checksum_type1, checksum_type2 and checksum_type3.
PrimaryBlocks(start) ==
  Covered(start, 16, 0) \union Covered(start + 16, 32, 16)
                        \union Covered(start + 80, 32, 16)

\* checksum_type6.
SecondaryBlocks(start) == Covered(start, 32, 32)

AreaBlocks(a) == PrimaryBlocks(PrimaryArea[a]) \union SecondaryBlocks(SecondaryArea[a])

-----------------------------------------------------------------------------
(***************************************************************************)
(* Encryption.                                                             *)
(***************************************************************************)
\* A block of zeroes, in plain text or not yet written.
Zero == [key |-> None, save |-> 0]

\* What decrypting with the wrong key yields.
Junk == -1

Encrypted(key, n) == [key |-> key, save |-> n]

\* Zeroes stay zeroes.
Decrypted(key, block) ==
  IF block = Zero THEN 0 ELSE IF block.key = key THEN block.save ELSE Junk

DecryptFigure(img) ==
  [a \in Areas |-> [p \in Parts |-> Decrypted(img.header, img.area[a][p])]]

EncryptFigure(header, plain) ==
  [header |-> header,
   area |-> [a \in Areas |-> [p \in Parts |-> Encrypted(header, plain[a][p])]]]

Placeholder(header) ==
  [header |-> header, area |-> [a \in Areas |-> [p \in Parts |-> Zero]]]

-----------------------------------------------------------------------------
(***************************************************************************)
(* Saves in an image.                                                      *)
(***************************************************************************)
\* The save in area a, if the checksums in the head fit the body; else 0.
SaveIn(img, a) ==
  LET n == Decrypted(img.header, img.area[a]["head"])
  IN IF n > 0 /\ Decrypted(img.header, img.area[a]["body"]) = n THEN n ELSE 0

\* The save that counts, and where it is; 0 when no area is valid.
NewestArea(img) == IF SaveIn(img, 1) >= SaveIn(img, 2) THEN 1 ELSE 2

Newest(img) ==
  LET one == SaveIn(img, 1)
      two == SaveIn(img, 2)
  IN IF one >= two THEN one ELSE two

Other(a) == 3 - a

Written(img, a, p, block) == [img EXCEPT !.area[a][p] = block]

\* primary_area_to_write: the area whose turn it is.
AreaToWrite(plain) == IF plain[1]["head"] # plain[2]["head"] + 1 THEN 1 ELSE 2

\* initialize_mutable_skylanders_entity_image: the first save, by the device.
NewImage(header) ==
  LET plain == DecryptFigure(Placeholder(header))
      a     == AreaToWrite(plain)
  IN EncryptFigure(header,
       [plain EXCEPT ![a] = [p \in Parts |-> plain[Other(a)]["head"] + 1]])

HasNonzeroData(img) == \E a \in Areas, p \in Parts : img.area[a][p] # Zero

\* Mutant of Rekeyed: encrypted before the header is replaced.
RekeyedTooEarly(img, header) ==
  [EncryptFigure(img.header, DecryptFigure(img)) EXCEPT !.header = header]

\* rekey_skylanders_entity_image: the same data under the header of a clone.
Rekeyed(img, header) ==
  IF HasNonzeroData(img) THEN EncryptFigure(header, DecryptFigure(img))
  ELSE [img EXCEPT !.header = header]
=============================================================================
