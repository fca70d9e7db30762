-------------------------- MODULE LoadModelsProofs --------------------------
(***************************************************************************)
(* Proofs about LoadModels, for files, resolutions and surfaces of every   *)
(* size: the meshes of squares are oriented and share their corners, the   *)
(* triangles of marching cubes follow the surface, and a finished model    *)
(* draws what it was made from, wherever that came from.                   *)
(*                                                                         *)
(* The tables of marching cubes come first, then squares, cells, the       *)
(* making of a model and at last the composition.                          *)
(***************************************************************************)
EXTENDS LoadModels, InductionProofs

(***************************************************************************)
(* The tables of marching cubes (tables.hpp:7-300)                         *)
(***************************************************************************)

(* The bit of weight w, and whether edge e of a cell, counted from 0, is cut in case c:
   one of its corners is inside and the other one is not
   (marchingcubes.cpp:109-134).                                            *)
Bit(c, w) == (c \div w) % 2

CutIn(c, e) ==
    \/ e = 0 /\ Bit(c, 1) # Bit(c, 2)
    \/ e = 1 /\ Bit(c, 2) # Bit(c, 4)
    \/ e = 2 /\ Bit(c, 4) # Bit(c, 8)
    \/ e = 3 /\ Bit(c, 8) # Bit(c, 1)
    \/ e = 4 /\ Bit(c, 16) # Bit(c, 32)
    \/ e = 5 /\ Bit(c, 32) # Bit(c, 64)
    \/ e = 6 /\ Bit(c, 64) # Bit(c, 128)
    \/ e = 7 /\ Bit(c, 128) # Bit(c, 16)
    \/ e = 8 /\ Bit(c, 1) # Bit(c, 16)
    \/ e = 9 /\ Bit(c, 2) # Bit(c, 32)
    \/ e = 10 /\ Bit(c, 4) # Bit(c, 64)
    \/ e = 11 /\ Bit(c, 8) # Bit(c, 128)

(* The entry of edgeTable for case c has a bit for each edge that is cut. *)
EdgesFit(bits, c) ==
    /\ (Bit(bits, 1) = 1) <=> CutIn(c, 0)
    /\ (Bit(bits, 2) = 1) <=> CutIn(c, 1)
    /\ (Bit(bits, 4) = 1) <=> CutIn(c, 2)
    /\ (Bit(bits, 8) = 1) <=> CutIn(c, 3)
    /\ (Bit(bits, 16) = 1) <=> CutIn(c, 4)
    /\ (Bit(bits, 32) = 1) <=> CutIn(c, 5)
    /\ (Bit(bits, 64) = 1) <=> CutIn(c, 6)
    /\ (Bit(bits, 128) = 1) <=> CutIn(c, 7)
    /\ (Bit(bits, 256) = 1) <=> CutIn(c, 8)
    /\ (Bit(bits, 512) = 1) <=> CutIn(c, 9)
    /\ (Bit(bits, 1024) = 1) <=> CutIn(c, 10)
    /\ (Bit(bits, 2048) = 1) <=> CutIn(c, 11)

(* The row of triTable for case c: at most four triangles of edges that are cut, and -1. *)
RowFits(entries, c) ==
    /\ Len(entries) \in {1, 4, 7, 10, 13} /\ entries[Len(entries)] < 0
    /\ \A k \in 1 .. (Len(entries) - 1) : CutIn(c, entries[k])

CaseFits(c) == EdgesFit(Cells!EdgeTable[c + 1], c) /\ RowFits(Cells!TriTable[c + 1], c)

(* The cases 0 to 15. *)
LEMMA Cases0 == \A c \in 0 .. 15 : CaseFits(c)
<1>0. \A c \in 0 .. 15 : \A bits : bits = Cells!EdgeTable[c + 1] => EdgesFit(bits, c)
  BY DEF EdgesFit, CutIn, Bit, Cells!EdgeTable
<1>1. \A entries : entries = Cells!TriTable[1] => RowFits(entries, 0)
  BY DEF Cells!TriTable, RowFits, CutIn, Bit
<1>2. \A entries : entries = Cells!TriTable[2] => RowFits(entries, 1)
  BY DEF Cells!TriTable, RowFits, CutIn, Bit
<1>3. \A entries : entries = Cells!TriTable[3] => RowFits(entries, 2)
  BY DEF Cells!TriTable, RowFits, CutIn, Bit
<1>4. \A entries : entries = Cells!TriTable[4] => RowFits(entries, 3)
  BY DEF Cells!TriTable, RowFits, CutIn, Bit
<1>5. \A entries : entries = Cells!TriTable[5] => RowFits(entries, 4)
  BY DEF Cells!TriTable, RowFits, CutIn, Bit
<1>6. \A entries : entries = Cells!TriTable[6] => RowFits(entries, 5)
  BY DEF Cells!TriTable, RowFits, CutIn, Bit
<1>7. \A entries : entries = Cells!TriTable[7] => RowFits(entries, 6)
  BY DEF Cells!TriTable, RowFits, CutIn, Bit
<1>8. \A entries : entries = Cells!TriTable[8] => RowFits(entries, 7)
  BY DEF Cells!TriTable, RowFits, CutIn, Bit
<1>9. \A entries : entries = Cells!TriTable[9] => RowFits(entries, 8)
  BY DEF Cells!TriTable, RowFits, CutIn, Bit
<1>10. \A entries : entries = Cells!TriTable[10] => RowFits(entries, 9)
  BY DEF Cells!TriTable, RowFits, CutIn, Bit
<1>11. \A entries : entries = Cells!TriTable[11] => RowFits(entries, 10)
  BY DEF Cells!TriTable, RowFits, CutIn, Bit
<1>12. \A entries : entries = Cells!TriTable[12] => RowFits(entries, 11)
  BY DEF Cells!TriTable, RowFits, CutIn, Bit
<1>13. \A entries : entries = Cells!TriTable[13] => RowFits(entries, 12)
  BY DEF Cells!TriTable, RowFits, CutIn, Bit
<1>14. \A entries : entries = Cells!TriTable[14] => RowFits(entries, 13)
  BY DEF Cells!TriTable, RowFits, CutIn, Bit
<1>15. \A entries : entries = Cells!TriTable[15] => RowFits(entries, 14)
  BY DEF Cells!TriTable, RowFits, CutIn, Bit
<1>16. \A entries : entries = Cells!TriTable[16] => RowFits(entries, 15)
  BY DEF Cells!TriTable, RowFits, CutIn, Bit
<1> QED BY <1>0, <1>1, <1>2, <1>3, <1>4, <1>5, <1>6, <1>7, <1>8, <1>9, <1>10, <1>11, <1>12, <1>13, <1>14, <1>15, <1>16 DEF CaseFits

(* The cases 16 to 31. *)
LEMMA Cases16 == \A c \in 16 .. 31 : CaseFits(c)
<1>0. \A c \in 16 .. 31 : \A bits : bits = Cells!EdgeTable[c + 1] => EdgesFit(bits, c)
  BY DEF EdgesFit, CutIn, Bit, Cells!EdgeTable
<1>1. \A entries : entries = Cells!TriTable[17] => RowFits(entries, 16)
  BY DEF Cells!TriTable, RowFits, CutIn, Bit
<1>2. \A entries : entries = Cells!TriTable[18] => RowFits(entries, 17)
  BY DEF Cells!TriTable, RowFits, CutIn, Bit
<1>3. \A entries : entries = Cells!TriTable[19] => RowFits(entries, 18)
  BY DEF Cells!TriTable, RowFits, CutIn, Bit
<1>4. \A entries : entries = Cells!TriTable[20] => RowFits(entries, 19)
  BY DEF Cells!TriTable, RowFits, CutIn, Bit
<1>5. \A entries : entries = Cells!TriTable[21] => RowFits(entries, 20)
  BY DEF Cells!TriTable, RowFits, CutIn, Bit
<1>6. \A entries : entries = Cells!TriTable[22] => RowFits(entries, 21)
  BY DEF Cells!TriTable, RowFits, CutIn, Bit
<1>7. \A entries : entries = Cells!TriTable[23] => RowFits(entries, 22)
  BY DEF Cells!TriTable, RowFits, CutIn, Bit
<1>8. \A entries : entries = Cells!TriTable[24] => RowFits(entries, 23)
  BY DEF Cells!TriTable, RowFits, CutIn, Bit
<1>9. \A entries : entries = Cells!TriTable[25] => RowFits(entries, 24)
  BY DEF Cells!TriTable, RowFits, CutIn, Bit
<1>10. \A entries : entries = Cells!TriTable[26] => RowFits(entries, 25)
  BY DEF Cells!TriTable, RowFits, CutIn, Bit
<1>11. \A entries : entries = Cells!TriTable[27] => RowFits(entries, 26)
  BY DEF Cells!TriTable, RowFits, CutIn, Bit
<1>12. \A entries : entries = Cells!TriTable[28] => RowFits(entries, 27)
  BY DEF Cells!TriTable, RowFits, CutIn, Bit
<1>13. \A entries : entries = Cells!TriTable[29] => RowFits(entries, 28)
  BY DEF Cells!TriTable, RowFits, CutIn, Bit
<1>14. \A entries : entries = Cells!TriTable[30] => RowFits(entries, 29)
  BY DEF Cells!TriTable, RowFits, CutIn, Bit
<1>15. \A entries : entries = Cells!TriTable[31] => RowFits(entries, 30)
  BY DEF Cells!TriTable, RowFits, CutIn, Bit
<1>16. \A entries : entries = Cells!TriTable[32] => RowFits(entries, 31)
  BY DEF Cells!TriTable, RowFits, CutIn, Bit
<1> QED BY <1>0, <1>1, <1>2, <1>3, <1>4, <1>5, <1>6, <1>7, <1>8, <1>9, <1>10, <1>11, <1>12, <1>13, <1>14, <1>15, <1>16 DEF CaseFits

(* The cases 32 to 47. *)
LEMMA Cases32 == \A c \in 32 .. 47 : CaseFits(c)
<1>0. \A c \in 32 .. 47 : \A bits : bits = Cells!EdgeTable[c + 1] => EdgesFit(bits, c)
  BY DEF EdgesFit, CutIn, Bit, Cells!EdgeTable
<1>1. \A entries : entries = Cells!TriTable[33] => RowFits(entries, 32)
  BY DEF Cells!TriTable, RowFits, CutIn, Bit
<1>2. \A entries : entries = Cells!TriTable[34] => RowFits(entries, 33)
  BY DEF Cells!TriTable, RowFits, CutIn, Bit
<1>3. \A entries : entries = Cells!TriTable[35] => RowFits(entries, 34)
  BY DEF Cells!TriTable, RowFits, CutIn, Bit
<1>4. \A entries : entries = Cells!TriTable[36] => RowFits(entries, 35)
  BY DEF Cells!TriTable, RowFits, CutIn, Bit
<1>5. \A entries : entries = Cells!TriTable[37] => RowFits(entries, 36)
  BY DEF Cells!TriTable, RowFits, CutIn, Bit
<1>6. \A entries : entries = Cells!TriTable[38] => RowFits(entries, 37)
  BY DEF Cells!TriTable, RowFits, CutIn, Bit
<1>7. \A entries : entries = Cells!TriTable[39] => RowFits(entries, 38)
  BY DEF Cells!TriTable, RowFits, CutIn, Bit
<1>8. \A entries : entries = Cells!TriTable[40] => RowFits(entries, 39)
  BY DEF Cells!TriTable, RowFits, CutIn, Bit
<1>9. \A entries : entries = Cells!TriTable[41] => RowFits(entries, 40)
  BY DEF Cells!TriTable, RowFits, CutIn, Bit
<1>10. \A entries : entries = Cells!TriTable[42] => RowFits(entries, 41)
  BY DEF Cells!TriTable, RowFits, CutIn, Bit
<1>11. \A entries : entries = Cells!TriTable[43] => RowFits(entries, 42)
  BY DEF Cells!TriTable, RowFits, CutIn, Bit
<1>12. \A entries : entries = Cells!TriTable[44] => RowFits(entries, 43)
  BY DEF Cells!TriTable, RowFits, CutIn, Bit
<1>13. \A entries : entries = Cells!TriTable[45] => RowFits(entries, 44)
  BY DEF Cells!TriTable, RowFits, CutIn, Bit
<1>14. \A entries : entries = Cells!TriTable[46] => RowFits(entries, 45)
  BY DEF Cells!TriTable, RowFits, CutIn, Bit
<1>15. \A entries : entries = Cells!TriTable[47] => RowFits(entries, 46)
  BY DEF Cells!TriTable, RowFits, CutIn, Bit
<1>16. \A entries : entries = Cells!TriTable[48] => RowFits(entries, 47)
  BY DEF Cells!TriTable, RowFits, CutIn, Bit
<1> QED BY <1>0, <1>1, <1>2, <1>3, <1>4, <1>5, <1>6, <1>7, <1>8, <1>9, <1>10, <1>11, <1>12, <1>13, <1>14, <1>15, <1>16 DEF CaseFits

(* The cases 48 to 63. *)
LEMMA Cases48 == \A c \in 48 .. 63 : CaseFits(c)
<1>0. \A c \in 48 .. 63 : \A bits : bits = Cells!EdgeTable[c + 1] => EdgesFit(bits, c)
  BY DEF EdgesFit, CutIn, Bit, Cells!EdgeTable
<1>1. \A entries : entries = Cells!TriTable[49] => RowFits(entries, 48)
  BY DEF Cells!TriTable, RowFits, CutIn, Bit
<1>2. \A entries : entries = Cells!TriTable[50] => RowFits(entries, 49)
  BY DEF Cells!TriTable, RowFits, CutIn, Bit
<1>3. \A entries : entries = Cells!TriTable[51] => RowFits(entries, 50)
  BY DEF Cells!TriTable, RowFits, CutIn, Bit
<1>4. \A entries : entries = Cells!TriTable[52] => RowFits(entries, 51)
  BY DEF Cells!TriTable, RowFits, CutIn, Bit
<1>5. \A entries : entries = Cells!TriTable[53] => RowFits(entries, 52)
  BY DEF Cells!TriTable, RowFits, CutIn, Bit
<1>6. \A entries : entries = Cells!TriTable[54] => RowFits(entries, 53)
  BY DEF Cells!TriTable, RowFits, CutIn, Bit
<1>7. \A entries : entries = Cells!TriTable[55] => RowFits(entries, 54)
  BY DEF Cells!TriTable, RowFits, CutIn, Bit
<1>8. \A entries : entries = Cells!TriTable[56] => RowFits(entries, 55)
  BY DEF Cells!TriTable, RowFits, CutIn, Bit
<1>9. \A entries : entries = Cells!TriTable[57] => RowFits(entries, 56)
  BY DEF Cells!TriTable, RowFits, CutIn, Bit
<1>10. \A entries : entries = Cells!TriTable[58] => RowFits(entries, 57)
  BY DEF Cells!TriTable, RowFits, CutIn, Bit
<1>11. \A entries : entries = Cells!TriTable[59] => RowFits(entries, 58)
  BY DEF Cells!TriTable, RowFits, CutIn, Bit
<1>12. \A entries : entries = Cells!TriTable[60] => RowFits(entries, 59)
  BY DEF Cells!TriTable, RowFits, CutIn, Bit
<1>13. \A entries : entries = Cells!TriTable[61] => RowFits(entries, 60)
  BY DEF Cells!TriTable, RowFits, CutIn, Bit
<1>14. \A entries : entries = Cells!TriTable[62] => RowFits(entries, 61)
  BY DEF Cells!TriTable, RowFits, CutIn, Bit
<1>15. \A entries : entries = Cells!TriTable[63] => RowFits(entries, 62)
  BY DEF Cells!TriTable, RowFits, CutIn, Bit
<1>16. \A entries : entries = Cells!TriTable[64] => RowFits(entries, 63)
  BY DEF Cells!TriTable, RowFits, CutIn, Bit
<1> QED BY <1>0, <1>1, <1>2, <1>3, <1>4, <1>5, <1>6, <1>7, <1>8, <1>9, <1>10, <1>11, <1>12, <1>13, <1>14, <1>15, <1>16 DEF CaseFits

(* The cases 64 to 79. *)
LEMMA Cases64 == \A c \in 64 .. 79 : CaseFits(c)
<1>0. \A c \in 64 .. 79 : \A bits : bits = Cells!EdgeTable[c + 1] => EdgesFit(bits, c)
  BY DEF EdgesFit, CutIn, Bit, Cells!EdgeTable
<1>1. \A entries : entries = Cells!TriTable[65] => RowFits(entries, 64)
  BY DEF Cells!TriTable, RowFits, CutIn, Bit
<1>2. \A entries : entries = Cells!TriTable[66] => RowFits(entries, 65)
  BY DEF Cells!TriTable, RowFits, CutIn, Bit
<1>3. \A entries : entries = Cells!TriTable[67] => RowFits(entries, 66)
  BY DEF Cells!TriTable, RowFits, CutIn, Bit
<1>4. \A entries : entries = Cells!TriTable[68] => RowFits(entries, 67)
  BY DEF Cells!TriTable, RowFits, CutIn, Bit
<1>5. \A entries : entries = Cells!TriTable[69] => RowFits(entries, 68)
  BY DEF Cells!TriTable, RowFits, CutIn, Bit
<1>6. \A entries : entries = Cells!TriTable[70] => RowFits(entries, 69)
  BY DEF Cells!TriTable, RowFits, CutIn, Bit
<1>7. \A entries : entries = Cells!TriTable[71] => RowFits(entries, 70)
  BY DEF Cells!TriTable, RowFits, CutIn, Bit
<1>8. \A entries : entries = Cells!TriTable[72] => RowFits(entries, 71)
  BY DEF Cells!TriTable, RowFits, CutIn, Bit
<1>9. \A entries : entries = Cells!TriTable[73] => RowFits(entries, 72)
  BY DEF Cells!TriTable, RowFits, CutIn, Bit
<1>10. \A entries : entries = Cells!TriTable[74] => RowFits(entries, 73)
  BY DEF Cells!TriTable, RowFits, CutIn, Bit
<1>11. \A entries : entries = Cells!TriTable[75] => RowFits(entries, 74)
  BY DEF Cells!TriTable, RowFits, CutIn, Bit
<1>12. \A entries : entries = Cells!TriTable[76] => RowFits(entries, 75)
  BY DEF Cells!TriTable, RowFits, CutIn, Bit
<1>13. \A entries : entries = Cells!TriTable[77] => RowFits(entries, 76)
  BY DEF Cells!TriTable, RowFits, CutIn, Bit
<1>14. \A entries : entries = Cells!TriTable[78] => RowFits(entries, 77)
  BY DEF Cells!TriTable, RowFits, CutIn, Bit
<1>15. \A entries : entries = Cells!TriTable[79] => RowFits(entries, 78)
  BY DEF Cells!TriTable, RowFits, CutIn, Bit
<1>16. \A entries : entries = Cells!TriTable[80] => RowFits(entries, 79)
  BY DEF Cells!TriTable, RowFits, CutIn, Bit
<1> QED BY <1>0, <1>1, <1>2, <1>3, <1>4, <1>5, <1>6, <1>7, <1>8, <1>9, <1>10, <1>11, <1>12, <1>13, <1>14, <1>15, <1>16 DEF CaseFits

(* The cases 80 to 95. *)
LEMMA Cases80 == \A c \in 80 .. 95 : CaseFits(c)
<1>0. \A c \in 80 .. 95 : \A bits : bits = Cells!EdgeTable[c + 1] => EdgesFit(bits, c)
  BY DEF EdgesFit, CutIn, Bit, Cells!EdgeTable
<1>1. \A entries : entries = Cells!TriTable[81] => RowFits(entries, 80)
  BY DEF Cells!TriTable, RowFits, CutIn, Bit
<1>2. \A entries : entries = Cells!TriTable[82] => RowFits(entries, 81)
  BY DEF Cells!TriTable, RowFits, CutIn, Bit
<1>3. \A entries : entries = Cells!TriTable[83] => RowFits(entries, 82)
  BY DEF Cells!TriTable, RowFits, CutIn, Bit
<1>4. \A entries : entries = Cells!TriTable[84] => RowFits(entries, 83)
  BY DEF Cells!TriTable, RowFits, CutIn, Bit
<1>5. \A entries : entries = Cells!TriTable[85] => RowFits(entries, 84)
  BY DEF Cells!TriTable, RowFits, CutIn, Bit
<1>6. \A entries : entries = Cells!TriTable[86] => RowFits(entries, 85)
  BY DEF Cells!TriTable, RowFits, CutIn, Bit
<1>7. \A entries : entries = Cells!TriTable[87] => RowFits(entries, 86)
  BY DEF Cells!TriTable, RowFits, CutIn, Bit
<1>8. \A entries : entries = Cells!TriTable[88] => RowFits(entries, 87)
  BY DEF Cells!TriTable, RowFits, CutIn, Bit
<1>9. \A entries : entries = Cells!TriTable[89] => RowFits(entries, 88)
  BY DEF Cells!TriTable, RowFits, CutIn, Bit
<1>10. \A entries : entries = Cells!TriTable[90] => RowFits(entries, 89)
  BY DEF Cells!TriTable, RowFits, CutIn, Bit
<1>11. \A entries : entries = Cells!TriTable[91] => RowFits(entries, 90)
  BY DEF Cells!TriTable, RowFits, CutIn, Bit
<1>12. \A entries : entries = Cells!TriTable[92] => RowFits(entries, 91)
  BY DEF Cells!TriTable, RowFits, CutIn, Bit
<1>13. \A entries : entries = Cells!TriTable[93] => RowFits(entries, 92)
  BY DEF Cells!TriTable, RowFits, CutIn, Bit
<1>14. \A entries : entries = Cells!TriTable[94] => RowFits(entries, 93)
  BY DEF Cells!TriTable, RowFits, CutIn, Bit
<1>15. \A entries : entries = Cells!TriTable[95] => RowFits(entries, 94)
  BY DEF Cells!TriTable, RowFits, CutIn, Bit
<1>16. \A entries : entries = Cells!TriTable[96] => RowFits(entries, 95)
  BY DEF Cells!TriTable, RowFits, CutIn, Bit
<1> QED BY <1>0, <1>1, <1>2, <1>3, <1>4, <1>5, <1>6, <1>7, <1>8, <1>9, <1>10, <1>11, <1>12, <1>13, <1>14, <1>15, <1>16 DEF CaseFits

(* The cases 96 to 111. *)
LEMMA Cases96 == \A c \in 96 .. 111 : CaseFits(c)
<1>0. \A c \in 96 .. 111 : \A bits : bits = Cells!EdgeTable[c + 1] => EdgesFit(bits, c)
  BY DEF EdgesFit, CutIn, Bit, Cells!EdgeTable
<1>1. \A entries : entries = Cells!TriTable[97] => RowFits(entries, 96)
  BY DEF Cells!TriTable, RowFits, CutIn, Bit
<1>2. \A entries : entries = Cells!TriTable[98] => RowFits(entries, 97)
  BY DEF Cells!TriTable, RowFits, CutIn, Bit
<1>3. \A entries : entries = Cells!TriTable[99] => RowFits(entries, 98)
  BY DEF Cells!TriTable, RowFits, CutIn, Bit
<1>4. \A entries : entries = Cells!TriTable[100] => RowFits(entries, 99)
  BY DEF Cells!TriTable, RowFits, CutIn, Bit
<1>5. \A entries : entries = Cells!TriTable[101] => RowFits(entries, 100)
  BY DEF Cells!TriTable, RowFits, CutIn, Bit
<1>6. \A entries : entries = Cells!TriTable[102] => RowFits(entries, 101)
  BY DEF Cells!TriTable, RowFits, CutIn, Bit
<1>7. \A entries : entries = Cells!TriTable[103] => RowFits(entries, 102)
  BY DEF Cells!TriTable, RowFits, CutIn, Bit
<1>8. \A entries : entries = Cells!TriTable[104] => RowFits(entries, 103)
  BY DEF Cells!TriTable, RowFits, CutIn, Bit
<1>9. \A entries : entries = Cells!TriTable[105] => RowFits(entries, 104)
  BY DEF Cells!TriTable, RowFits, CutIn, Bit
<1>10. \A entries : entries = Cells!TriTable[106] => RowFits(entries, 105)
  BY DEF Cells!TriTable, RowFits, CutIn, Bit
<1>11. \A entries : entries = Cells!TriTable[107] => RowFits(entries, 106)
  BY DEF Cells!TriTable, RowFits, CutIn, Bit
<1>12. \A entries : entries = Cells!TriTable[108] => RowFits(entries, 107)
  BY DEF Cells!TriTable, RowFits, CutIn, Bit
<1>13. \A entries : entries = Cells!TriTable[109] => RowFits(entries, 108)
  BY DEF Cells!TriTable, RowFits, CutIn, Bit
<1>14. \A entries : entries = Cells!TriTable[110] => RowFits(entries, 109)
  BY DEF Cells!TriTable, RowFits, CutIn, Bit
<1>15. \A entries : entries = Cells!TriTable[111] => RowFits(entries, 110)
  BY DEF Cells!TriTable, RowFits, CutIn, Bit
<1>16. \A entries : entries = Cells!TriTable[112] => RowFits(entries, 111)
  BY DEF Cells!TriTable, RowFits, CutIn, Bit
<1> QED BY <1>0, <1>1, <1>2, <1>3, <1>4, <1>5, <1>6, <1>7, <1>8, <1>9, <1>10, <1>11, <1>12, <1>13, <1>14, <1>15, <1>16 DEF CaseFits

(* The cases 112 to 127. *)
LEMMA Cases112 == \A c \in 112 .. 127 : CaseFits(c)
<1>0. \A c \in 112 .. 127 : \A bits : bits = Cells!EdgeTable[c + 1] => EdgesFit(bits, c)
  BY DEF EdgesFit, CutIn, Bit, Cells!EdgeTable
<1>1. \A entries : entries = Cells!TriTable[113] => RowFits(entries, 112)
  BY DEF Cells!TriTable, RowFits, CutIn, Bit
<1>2. \A entries : entries = Cells!TriTable[114] => RowFits(entries, 113)
  BY DEF Cells!TriTable, RowFits, CutIn, Bit
<1>3. \A entries : entries = Cells!TriTable[115] => RowFits(entries, 114)
  BY DEF Cells!TriTable, RowFits, CutIn, Bit
<1>4. \A entries : entries = Cells!TriTable[116] => RowFits(entries, 115)
  BY DEF Cells!TriTable, RowFits, CutIn, Bit
<1>5. \A entries : entries = Cells!TriTable[117] => RowFits(entries, 116)
  BY DEF Cells!TriTable, RowFits, CutIn, Bit
<1>6. \A entries : entries = Cells!TriTable[118] => RowFits(entries, 117)
  BY DEF Cells!TriTable, RowFits, CutIn, Bit
<1>7. \A entries : entries = Cells!TriTable[119] => RowFits(entries, 118)
  BY DEF Cells!TriTable, RowFits, CutIn, Bit
<1>8. \A entries : entries = Cells!TriTable[120] => RowFits(entries, 119)
  BY DEF Cells!TriTable, RowFits, CutIn, Bit
<1>9. \A entries : entries = Cells!TriTable[121] => RowFits(entries, 120)
  BY DEF Cells!TriTable, RowFits, CutIn, Bit
<1>10. \A entries : entries = Cells!TriTable[122] => RowFits(entries, 121)
  BY DEF Cells!TriTable, RowFits, CutIn, Bit
<1>11. \A entries : entries = Cells!TriTable[123] => RowFits(entries, 122)
  BY DEF Cells!TriTable, RowFits, CutIn, Bit
<1>12. \A entries : entries = Cells!TriTable[124] => RowFits(entries, 123)
  BY DEF Cells!TriTable, RowFits, CutIn, Bit
<1>13. \A entries : entries = Cells!TriTable[125] => RowFits(entries, 124)
  BY DEF Cells!TriTable, RowFits, CutIn, Bit
<1>14. \A entries : entries = Cells!TriTable[126] => RowFits(entries, 125)
  BY DEF Cells!TriTable, RowFits, CutIn, Bit
<1>15. \A entries : entries = Cells!TriTable[127] => RowFits(entries, 126)
  BY DEF Cells!TriTable, RowFits, CutIn, Bit
<1>16. \A entries : entries = Cells!TriTable[128] => RowFits(entries, 127)
  BY DEF Cells!TriTable, RowFits, CutIn, Bit
<1> QED BY <1>0, <1>1, <1>2, <1>3, <1>4, <1>5, <1>6, <1>7, <1>8, <1>9, <1>10, <1>11, <1>12, <1>13, <1>14, <1>15, <1>16 DEF CaseFits

(* The cases 128 to 143. *)
LEMMA Cases128 == \A c \in 128 .. 143 : CaseFits(c)
<1>0. \A c \in 128 .. 143 : \A bits : bits = Cells!EdgeTable[c + 1] => EdgesFit(bits, c)
  BY DEF EdgesFit, CutIn, Bit, Cells!EdgeTable
<1>1. \A entries : entries = Cells!TriTable[129] => RowFits(entries, 128)
  BY DEF Cells!TriTable, RowFits, CutIn, Bit
<1>2. \A entries : entries = Cells!TriTable[130] => RowFits(entries, 129)
  BY DEF Cells!TriTable, RowFits, CutIn, Bit
<1>3. \A entries : entries = Cells!TriTable[131] => RowFits(entries, 130)
  BY DEF Cells!TriTable, RowFits, CutIn, Bit
<1>4. \A entries : entries = Cells!TriTable[132] => RowFits(entries, 131)
  BY DEF Cells!TriTable, RowFits, CutIn, Bit
<1>5. \A entries : entries = Cells!TriTable[133] => RowFits(entries, 132)
  BY DEF Cells!TriTable, RowFits, CutIn, Bit
<1>6. \A entries : entries = Cells!TriTable[134] => RowFits(entries, 133)
  BY DEF Cells!TriTable, RowFits, CutIn, Bit
<1>7. \A entries : entries = Cells!TriTable[135] => RowFits(entries, 134)
  BY DEF Cells!TriTable, RowFits, CutIn, Bit
<1>8. \A entries : entries = Cells!TriTable[136] => RowFits(entries, 135)
  BY DEF Cells!TriTable, RowFits, CutIn, Bit
<1>9. \A entries : entries = Cells!TriTable[137] => RowFits(entries, 136)
  BY DEF Cells!TriTable, RowFits, CutIn, Bit
<1>10. \A entries : entries = Cells!TriTable[138] => RowFits(entries, 137)
  BY DEF Cells!TriTable, RowFits, CutIn, Bit
<1>11. \A entries : entries = Cells!TriTable[139] => RowFits(entries, 138)
  BY DEF Cells!TriTable, RowFits, CutIn, Bit
<1>12. \A entries : entries = Cells!TriTable[140] => RowFits(entries, 139)
  BY DEF Cells!TriTable, RowFits, CutIn, Bit
<1>13. \A entries : entries = Cells!TriTable[141] => RowFits(entries, 140)
  BY DEF Cells!TriTable, RowFits, CutIn, Bit
<1>14. \A entries : entries = Cells!TriTable[142] => RowFits(entries, 141)
  BY DEF Cells!TriTable, RowFits, CutIn, Bit
<1>15. \A entries : entries = Cells!TriTable[143] => RowFits(entries, 142)
  BY DEF Cells!TriTable, RowFits, CutIn, Bit
<1>16. \A entries : entries = Cells!TriTable[144] => RowFits(entries, 143)
  BY DEF Cells!TriTable, RowFits, CutIn, Bit
<1> QED BY <1>0, <1>1, <1>2, <1>3, <1>4, <1>5, <1>6, <1>7, <1>8, <1>9, <1>10, <1>11, <1>12, <1>13, <1>14, <1>15, <1>16 DEF CaseFits

(* The cases 144 to 159. *)
LEMMA Cases144 == \A c \in 144 .. 159 : CaseFits(c)
<1>0. \A c \in 144 .. 159 : \A bits : bits = Cells!EdgeTable[c + 1] => EdgesFit(bits, c)
  BY DEF EdgesFit, CutIn, Bit, Cells!EdgeTable
<1>1. \A entries : entries = Cells!TriTable[145] => RowFits(entries, 144)
  BY DEF Cells!TriTable, RowFits, CutIn, Bit
<1>2. \A entries : entries = Cells!TriTable[146] => RowFits(entries, 145)
  BY DEF Cells!TriTable, RowFits, CutIn, Bit
<1>3. \A entries : entries = Cells!TriTable[147] => RowFits(entries, 146)
  BY DEF Cells!TriTable, RowFits, CutIn, Bit
<1>4. \A entries : entries = Cells!TriTable[148] => RowFits(entries, 147)
  BY DEF Cells!TriTable, RowFits, CutIn, Bit
<1>5. \A entries : entries = Cells!TriTable[149] => RowFits(entries, 148)
  BY DEF Cells!TriTable, RowFits, CutIn, Bit
<1>6. \A entries : entries = Cells!TriTable[150] => RowFits(entries, 149)
  BY DEF Cells!TriTable, RowFits, CutIn, Bit
<1>7. \A entries : entries = Cells!TriTable[151] => RowFits(entries, 150)
  BY DEF Cells!TriTable, RowFits, CutIn, Bit
<1>8. \A entries : entries = Cells!TriTable[152] => RowFits(entries, 151)
  BY DEF Cells!TriTable, RowFits, CutIn, Bit
<1>9. \A entries : entries = Cells!TriTable[153] => RowFits(entries, 152)
  BY DEF Cells!TriTable, RowFits, CutIn, Bit
<1>10. \A entries : entries = Cells!TriTable[154] => RowFits(entries, 153)
  BY DEF Cells!TriTable, RowFits, CutIn, Bit
<1>11. \A entries : entries = Cells!TriTable[155] => RowFits(entries, 154)
  BY DEF Cells!TriTable, RowFits, CutIn, Bit
<1>12. \A entries : entries = Cells!TriTable[156] => RowFits(entries, 155)
  BY DEF Cells!TriTable, RowFits, CutIn, Bit
<1>13. \A entries : entries = Cells!TriTable[157] => RowFits(entries, 156)
  BY DEF Cells!TriTable, RowFits, CutIn, Bit
<1>14. \A entries : entries = Cells!TriTable[158] => RowFits(entries, 157)
  BY DEF Cells!TriTable, RowFits, CutIn, Bit
<1>15. \A entries : entries = Cells!TriTable[159] => RowFits(entries, 158)
  BY DEF Cells!TriTable, RowFits, CutIn, Bit
<1>16. \A entries : entries = Cells!TriTable[160] => RowFits(entries, 159)
  BY DEF Cells!TriTable, RowFits, CutIn, Bit
<1> QED BY <1>0, <1>1, <1>2, <1>3, <1>4, <1>5, <1>6, <1>7, <1>8, <1>9, <1>10, <1>11, <1>12, <1>13, <1>14, <1>15, <1>16 DEF CaseFits

(* The cases 160 to 175. *)
LEMMA Cases160 == \A c \in 160 .. 175 : CaseFits(c)
<1>0. \A c \in 160 .. 175 : \A bits : bits = Cells!EdgeTable[c + 1] => EdgesFit(bits, c)
  BY DEF EdgesFit, CutIn, Bit, Cells!EdgeTable
<1>1. \A entries : entries = Cells!TriTable[161] => RowFits(entries, 160)
  BY DEF Cells!TriTable, RowFits, CutIn, Bit
<1>2. \A entries : entries = Cells!TriTable[162] => RowFits(entries, 161)
  BY DEF Cells!TriTable, RowFits, CutIn, Bit
<1>3. \A entries : entries = Cells!TriTable[163] => RowFits(entries, 162)
  BY DEF Cells!TriTable, RowFits, CutIn, Bit
<1>4. \A entries : entries = Cells!TriTable[164] => RowFits(entries, 163)
  BY DEF Cells!TriTable, RowFits, CutIn, Bit
<1>5. \A entries : entries = Cells!TriTable[165] => RowFits(entries, 164)
  BY DEF Cells!TriTable, RowFits, CutIn, Bit
<1>6. \A entries : entries = Cells!TriTable[166] => RowFits(entries, 165)
  BY DEF Cells!TriTable, RowFits, CutIn, Bit
<1>7. \A entries : entries = Cells!TriTable[167] => RowFits(entries, 166)
  BY DEF Cells!TriTable, RowFits, CutIn, Bit
<1>8. \A entries : entries = Cells!TriTable[168] => RowFits(entries, 167)
  BY DEF Cells!TriTable, RowFits, CutIn, Bit
<1>9. \A entries : entries = Cells!TriTable[169] => RowFits(entries, 168)
  BY DEF Cells!TriTable, RowFits, CutIn, Bit
<1>10. \A entries : entries = Cells!TriTable[170] => RowFits(entries, 169)
  BY DEF Cells!TriTable, RowFits, CutIn, Bit
<1>11. \A entries : entries = Cells!TriTable[171] => RowFits(entries, 170)
  BY DEF Cells!TriTable, RowFits, CutIn, Bit
<1>12. \A entries : entries = Cells!TriTable[172] => RowFits(entries, 171)
  BY DEF Cells!TriTable, RowFits, CutIn, Bit
<1>13. \A entries : entries = Cells!TriTable[173] => RowFits(entries, 172)
  BY DEF Cells!TriTable, RowFits, CutIn, Bit
<1>14. \A entries : entries = Cells!TriTable[174] => RowFits(entries, 173)
  BY DEF Cells!TriTable, RowFits, CutIn, Bit
<1>15. \A entries : entries = Cells!TriTable[175] => RowFits(entries, 174)
  BY DEF Cells!TriTable, RowFits, CutIn, Bit
<1>16. \A entries : entries = Cells!TriTable[176] => RowFits(entries, 175)
  BY DEF Cells!TriTable, RowFits, CutIn, Bit
<1> QED BY <1>0, <1>1, <1>2, <1>3, <1>4, <1>5, <1>6, <1>7, <1>8, <1>9, <1>10, <1>11, <1>12, <1>13, <1>14, <1>15, <1>16 DEF CaseFits

(* The cases 176 to 191. *)
LEMMA Cases176 == \A c \in 176 .. 191 : CaseFits(c)
<1>0. \A c \in 176 .. 191 : \A bits : bits = Cells!EdgeTable[c + 1] => EdgesFit(bits, c)
  BY DEF EdgesFit, CutIn, Bit, Cells!EdgeTable
<1>1. \A entries : entries = Cells!TriTable[177] => RowFits(entries, 176)
  BY DEF Cells!TriTable, RowFits, CutIn, Bit
<1>2. \A entries : entries = Cells!TriTable[178] => RowFits(entries, 177)
  BY DEF Cells!TriTable, RowFits, CutIn, Bit
<1>3. \A entries : entries = Cells!TriTable[179] => RowFits(entries, 178)
  BY DEF Cells!TriTable, RowFits, CutIn, Bit
<1>4. \A entries : entries = Cells!TriTable[180] => RowFits(entries, 179)
  BY DEF Cells!TriTable, RowFits, CutIn, Bit
<1>5. \A entries : entries = Cells!TriTable[181] => RowFits(entries, 180)
  BY DEF Cells!TriTable, RowFits, CutIn, Bit
<1>6. \A entries : entries = Cells!TriTable[182] => RowFits(entries, 181)
  BY DEF Cells!TriTable, RowFits, CutIn, Bit
<1>7. \A entries : entries = Cells!TriTable[183] => RowFits(entries, 182)
  BY DEF Cells!TriTable, RowFits, CutIn, Bit
<1>8. \A entries : entries = Cells!TriTable[184] => RowFits(entries, 183)
  BY DEF Cells!TriTable, RowFits, CutIn, Bit
<1>9. \A entries : entries = Cells!TriTable[185] => RowFits(entries, 184)
  BY DEF Cells!TriTable, RowFits, CutIn, Bit
<1>10. \A entries : entries = Cells!TriTable[186] => RowFits(entries, 185)
  BY DEF Cells!TriTable, RowFits, CutIn, Bit
<1>11. \A entries : entries = Cells!TriTable[187] => RowFits(entries, 186)
  BY DEF Cells!TriTable, RowFits, CutIn, Bit
<1>12. \A entries : entries = Cells!TriTable[188] => RowFits(entries, 187)
  BY DEF Cells!TriTable, RowFits, CutIn, Bit
<1>13. \A entries : entries = Cells!TriTable[189] => RowFits(entries, 188)
  BY DEF Cells!TriTable, RowFits, CutIn, Bit
<1>14. \A entries : entries = Cells!TriTable[190] => RowFits(entries, 189)
  BY DEF Cells!TriTable, RowFits, CutIn, Bit
<1>15. \A entries : entries = Cells!TriTable[191] => RowFits(entries, 190)
  BY DEF Cells!TriTable, RowFits, CutIn, Bit
<1>16. \A entries : entries = Cells!TriTable[192] => RowFits(entries, 191)
  BY DEF Cells!TriTable, RowFits, CutIn, Bit
<1> QED BY <1>0, <1>1, <1>2, <1>3, <1>4, <1>5, <1>6, <1>7, <1>8, <1>9, <1>10, <1>11, <1>12, <1>13, <1>14, <1>15, <1>16 DEF CaseFits

(* The cases 192 to 207. *)
LEMMA Cases192 == \A c \in 192 .. 207 : CaseFits(c)
<1>0. \A c \in 192 .. 207 : \A bits : bits = Cells!EdgeTable[c + 1] => EdgesFit(bits, c)
  BY DEF EdgesFit, CutIn, Bit, Cells!EdgeTable
<1>1. \A entries : entries = Cells!TriTable[193] => RowFits(entries, 192)
  BY DEF Cells!TriTable, RowFits, CutIn, Bit
<1>2. \A entries : entries = Cells!TriTable[194] => RowFits(entries, 193)
  BY DEF Cells!TriTable, RowFits, CutIn, Bit
<1>3. \A entries : entries = Cells!TriTable[195] => RowFits(entries, 194)
  BY DEF Cells!TriTable, RowFits, CutIn, Bit
<1>4. \A entries : entries = Cells!TriTable[196] => RowFits(entries, 195)
  BY DEF Cells!TriTable, RowFits, CutIn, Bit
<1>5. \A entries : entries = Cells!TriTable[197] => RowFits(entries, 196)
  BY DEF Cells!TriTable, RowFits, CutIn, Bit
<1>6. \A entries : entries = Cells!TriTable[198] => RowFits(entries, 197)
  BY DEF Cells!TriTable, RowFits, CutIn, Bit
<1>7. \A entries : entries = Cells!TriTable[199] => RowFits(entries, 198)
  BY DEF Cells!TriTable, RowFits, CutIn, Bit
<1>8. \A entries : entries = Cells!TriTable[200] => RowFits(entries, 199)
  BY DEF Cells!TriTable, RowFits, CutIn, Bit
<1>9. \A entries : entries = Cells!TriTable[201] => RowFits(entries, 200)
  BY DEF Cells!TriTable, RowFits, CutIn, Bit
<1>10. \A entries : entries = Cells!TriTable[202] => RowFits(entries, 201)
  BY DEF Cells!TriTable, RowFits, CutIn, Bit
<1>11. \A entries : entries = Cells!TriTable[203] => RowFits(entries, 202)
  BY DEF Cells!TriTable, RowFits, CutIn, Bit
<1>12. \A entries : entries = Cells!TriTable[204] => RowFits(entries, 203)
  BY DEF Cells!TriTable, RowFits, CutIn, Bit
<1>13. \A entries : entries = Cells!TriTable[205] => RowFits(entries, 204)
  BY DEF Cells!TriTable, RowFits, CutIn, Bit
<1>14. \A entries : entries = Cells!TriTable[206] => RowFits(entries, 205)
  BY DEF Cells!TriTable, RowFits, CutIn, Bit
<1>15. \A entries : entries = Cells!TriTable[207] => RowFits(entries, 206)
  BY DEF Cells!TriTable, RowFits, CutIn, Bit
<1>16. \A entries : entries = Cells!TriTable[208] => RowFits(entries, 207)
  BY DEF Cells!TriTable, RowFits, CutIn, Bit
<1> QED BY <1>0, <1>1, <1>2, <1>3, <1>4, <1>5, <1>6, <1>7, <1>8, <1>9, <1>10, <1>11, <1>12, <1>13, <1>14, <1>15, <1>16 DEF CaseFits

(* The cases 208 to 223. *)
LEMMA Cases208 == \A c \in 208 .. 223 : CaseFits(c)
<1>0. \A c \in 208 .. 223 : \A bits : bits = Cells!EdgeTable[c + 1] => EdgesFit(bits, c)
  BY DEF EdgesFit, CutIn, Bit, Cells!EdgeTable
<1>1. \A entries : entries = Cells!TriTable[209] => RowFits(entries, 208)
  BY DEF Cells!TriTable, RowFits, CutIn, Bit
<1>2. \A entries : entries = Cells!TriTable[210] => RowFits(entries, 209)
  BY DEF Cells!TriTable, RowFits, CutIn, Bit
<1>3. \A entries : entries = Cells!TriTable[211] => RowFits(entries, 210)
  BY DEF Cells!TriTable, RowFits, CutIn, Bit
<1>4. \A entries : entries = Cells!TriTable[212] => RowFits(entries, 211)
  BY DEF Cells!TriTable, RowFits, CutIn, Bit
<1>5. \A entries : entries = Cells!TriTable[213] => RowFits(entries, 212)
  BY DEF Cells!TriTable, RowFits, CutIn, Bit
<1>6. \A entries : entries = Cells!TriTable[214] => RowFits(entries, 213)
  BY DEF Cells!TriTable, RowFits, CutIn, Bit
<1>7. \A entries : entries = Cells!TriTable[215] => RowFits(entries, 214)
  BY DEF Cells!TriTable, RowFits, CutIn, Bit
<1>8. \A entries : entries = Cells!TriTable[216] => RowFits(entries, 215)
  BY DEF Cells!TriTable, RowFits, CutIn, Bit
<1>9. \A entries : entries = Cells!TriTable[217] => RowFits(entries, 216)
  BY DEF Cells!TriTable, RowFits, CutIn, Bit
<1>10. \A entries : entries = Cells!TriTable[218] => RowFits(entries, 217)
  BY DEF Cells!TriTable, RowFits, CutIn, Bit
<1>11. \A entries : entries = Cells!TriTable[219] => RowFits(entries, 218)
  BY DEF Cells!TriTable, RowFits, CutIn, Bit
<1>12. \A entries : entries = Cells!TriTable[220] => RowFits(entries, 219)
  BY DEF Cells!TriTable, RowFits, CutIn, Bit
<1>13. \A entries : entries = Cells!TriTable[221] => RowFits(entries, 220)
  BY DEF Cells!TriTable, RowFits, CutIn, Bit
<1>14. \A entries : entries = Cells!TriTable[222] => RowFits(entries, 221)
  BY DEF Cells!TriTable, RowFits, CutIn, Bit
<1>15. \A entries : entries = Cells!TriTable[223] => RowFits(entries, 222)
  BY DEF Cells!TriTable, RowFits, CutIn, Bit
<1>16. \A entries : entries = Cells!TriTable[224] => RowFits(entries, 223)
  BY DEF Cells!TriTable, RowFits, CutIn, Bit
<1> QED BY <1>0, <1>1, <1>2, <1>3, <1>4, <1>5, <1>6, <1>7, <1>8, <1>9, <1>10, <1>11, <1>12, <1>13, <1>14, <1>15, <1>16 DEF CaseFits

(* The cases 224 to 239. *)
LEMMA Cases224 == \A c \in 224 .. 239 : CaseFits(c)
<1>0. \A c \in 224 .. 239 : \A bits : bits = Cells!EdgeTable[c + 1] => EdgesFit(bits, c)
  BY DEF EdgesFit, CutIn, Bit, Cells!EdgeTable
<1>1. \A entries : entries = Cells!TriTable[225] => RowFits(entries, 224)
  BY DEF Cells!TriTable, RowFits, CutIn, Bit
<1>2. \A entries : entries = Cells!TriTable[226] => RowFits(entries, 225)
  BY DEF Cells!TriTable, RowFits, CutIn, Bit
<1>3. \A entries : entries = Cells!TriTable[227] => RowFits(entries, 226)
  BY DEF Cells!TriTable, RowFits, CutIn, Bit
<1>4. \A entries : entries = Cells!TriTable[228] => RowFits(entries, 227)
  BY DEF Cells!TriTable, RowFits, CutIn, Bit
<1>5. \A entries : entries = Cells!TriTable[229] => RowFits(entries, 228)
  BY DEF Cells!TriTable, RowFits, CutIn, Bit
<1>6. \A entries : entries = Cells!TriTable[230] => RowFits(entries, 229)
  BY DEF Cells!TriTable, RowFits, CutIn, Bit
<1>7. \A entries : entries = Cells!TriTable[231] => RowFits(entries, 230)
  BY DEF Cells!TriTable, RowFits, CutIn, Bit
<1>8. \A entries : entries = Cells!TriTable[232] => RowFits(entries, 231)
  BY DEF Cells!TriTable, RowFits, CutIn, Bit
<1>9. \A entries : entries = Cells!TriTable[233] => RowFits(entries, 232)
  BY DEF Cells!TriTable, RowFits, CutIn, Bit
<1>10. \A entries : entries = Cells!TriTable[234] => RowFits(entries, 233)
  BY DEF Cells!TriTable, RowFits, CutIn, Bit
<1>11. \A entries : entries = Cells!TriTable[235] => RowFits(entries, 234)
  BY DEF Cells!TriTable, RowFits, CutIn, Bit
<1>12. \A entries : entries = Cells!TriTable[236] => RowFits(entries, 235)
  BY DEF Cells!TriTable, RowFits, CutIn, Bit
<1>13. \A entries : entries = Cells!TriTable[237] => RowFits(entries, 236)
  BY DEF Cells!TriTable, RowFits, CutIn, Bit
<1>14. \A entries : entries = Cells!TriTable[238] => RowFits(entries, 237)
  BY DEF Cells!TriTable, RowFits, CutIn, Bit
<1>15. \A entries : entries = Cells!TriTable[239] => RowFits(entries, 238)
  BY DEF Cells!TriTable, RowFits, CutIn, Bit
<1>16. \A entries : entries = Cells!TriTable[240] => RowFits(entries, 239)
  BY DEF Cells!TriTable, RowFits, CutIn, Bit
<1> QED BY <1>0, <1>1, <1>2, <1>3, <1>4, <1>5, <1>6, <1>7, <1>8, <1>9, <1>10, <1>11, <1>12, <1>13, <1>14, <1>15, <1>16 DEF CaseFits

(* The cases 240 to 254. *)
LEMMA Cases240 == \A c \in 240 .. 254 : CaseFits(c)
<1>0. \A c \in 240 .. 254 : \A bits : bits = Cells!EdgeTable[c + 1] => EdgesFit(bits, c)
  BY DEF EdgesFit, CutIn, Bit, Cells!EdgeTable
<1>1. \A entries : entries = Cells!TriTable[241] => RowFits(entries, 240)
  BY DEF Cells!TriTable, RowFits, CutIn, Bit
<1>2. \A entries : entries = Cells!TriTable[242] => RowFits(entries, 241)
  BY DEF Cells!TriTable, RowFits, CutIn, Bit
<1>3. \A entries : entries = Cells!TriTable[243] => RowFits(entries, 242)
  BY DEF Cells!TriTable, RowFits, CutIn, Bit
<1>4. \A entries : entries = Cells!TriTable[244] => RowFits(entries, 243)
  BY DEF Cells!TriTable, RowFits, CutIn, Bit
<1>5. \A entries : entries = Cells!TriTable[245] => RowFits(entries, 244)
  BY DEF Cells!TriTable, RowFits, CutIn, Bit
<1>6. \A entries : entries = Cells!TriTable[246] => RowFits(entries, 245)
  BY DEF Cells!TriTable, RowFits, CutIn, Bit
<1>7. \A entries : entries = Cells!TriTable[247] => RowFits(entries, 246)
  BY DEF Cells!TriTable, RowFits, CutIn, Bit
<1>8. \A entries : entries = Cells!TriTable[248] => RowFits(entries, 247)
  BY DEF Cells!TriTable, RowFits, CutIn, Bit
<1>9. \A entries : entries = Cells!TriTable[249] => RowFits(entries, 248)
  BY DEF Cells!TriTable, RowFits, CutIn, Bit
<1>10. \A entries : entries = Cells!TriTable[250] => RowFits(entries, 249)
  BY DEF Cells!TriTable, RowFits, CutIn, Bit
<1>11. \A entries : entries = Cells!TriTable[251] => RowFits(entries, 250)
  BY DEF Cells!TriTable, RowFits, CutIn, Bit
<1>12. \A entries : entries = Cells!TriTable[252] => RowFits(entries, 251)
  BY DEF Cells!TriTable, RowFits, CutIn, Bit
<1>13. \A entries : entries = Cells!TriTable[253] => RowFits(entries, 252)
  BY DEF Cells!TriTable, RowFits, CutIn, Bit
<1>14. \A entries : entries = Cells!TriTable[254] => RowFits(entries, 253)
  BY DEF Cells!TriTable, RowFits, CutIn, Bit
<1>15. \A entries : entries = Cells!TriTable[255] => RowFits(entries, 254)
  BY DEF Cells!TriTable, RowFits, CutIn, Bit
<1> QED BY <1>0, <1>1, <1>2, <1>3, <1>4, <1>5, <1>6, <1>7, <1>8, <1>9, <1>10, <1>11, <1>12, <1>13, <1>14, <1>15 DEF CaseFits

(* edgeTable names the edges that are cut, and the triangles of triTable are made of those,
   in every case (tables.hpp:7-300).                                       *)
LEMMA TablesFit == \A c \in 0 .. 254 : CaseFits(c)
BY Cases0, Cases16, Cases32, Cases48, Cases64, Cases80, Cases96, Cases112, Cases128, Cases144, Cases160, Cases176, Cases192, Cases208, Cases224, Cases240

(* The corners of a case are those that are inside. *)
CaseOf(c, corners) ==
    /\ c \in 0 .. 255
    /\ (Bit(c, 1) = 1) <=> Cells!Inside(corners[1])
    /\ (Bit(c, 2) = 1) <=> Cells!Inside(corners[2])
    /\ (Bit(c, 4) = 1) <=> Cells!Inside(corners[3])
    /\ (Bit(c, 8) = 1) <=> Cells!Inside(corners[4])
    /\ (Bit(c, 16) = 1) <=> Cells!Inside(corners[5])
    /\ (Bit(c, 32) = 1) <=> Cells!Inside(corners[6])
    /\ (Bit(c, 64) = 1) <=> Cells!Inside(corners[7])
    /\ (Bit(c, 128) = 1) <=> Cells!Inside(corners[8])

(* Eight bits added up are the bits of the sum (marchingcubes.cpp:109-117). *)
LEMMA BitsOfSum ==
  ASSUME NEW b1 \in {0, 1}, NEW b2 \in {0, 1}, NEW b3 \in {0, 1}, NEW b4 \in {0, 1},
         NEW b5 \in {0, 1}, NEW b6 \in {0, 1}, NEW b7 \in {0, 1}, NEW b8 \in {0, 1},
         NEW c, c = b1 + 2 * b2 + 4 * b3 + 8 * b4 + 16 * b5 + 32 * b6 + 64 * b7 + 128 * b8
  PROVE  /\ c \in 0 .. 255
         /\ Bit(c, 1) = b1 /\ Bit(c, 2) = b2 /\ Bit(c, 4) = b3 /\ Bit(c, 8) = b4
         /\ Bit(c, 16) = b5 /\ Bit(c, 32) = b6 /\ Bit(c, 64) = b7 /\ Bit(c, 128) = b8
<1>0. c \in 0 .. 255
  OBVIOUS
<1>1. Bit(c, 1) = b1
  BY DEF Bit
<1>2. Bit(c, 2) = b2
  BY DEF Bit
<1>3. Bit(c, 4) = b3
  BY DEF Bit
<1>4. Bit(c, 8) = b4
  BY DEF Bit
<1>5. Bit(c, 16) = b5
  BY DEF Bit
<1>6. Bit(c, 32) = b6
  BY DEF Bit
<1>7. Bit(c, 64) = b7
  BY DEF Bit
<1>8. Bit(c, 128) = b8
  BY DEF Bit
<1> QED BY <1>0, <1>1, <1>2, <1>3, <1>4, <1>5, <1>6, <1>7, <1>8

(* The bits are the powers of two that the code has as literals. *)
LEMMA Powers ==
    /\ 2 ^ 0 = 1 /\ 2 ^ 1 = 2 /\ 2 ^ 2 = 4 /\ 2 ^ 3 = 8 /\ 2 ^ 4 = 16 /\ 2 ^ 5 = 32
    /\ 2 ^ 6 = 64 /\ 2 ^ 7 = 128 /\ 2 ^ 8 = 256 /\ 2 ^ 9 = 512 /\ 2 ^ 10 = 1024 /\ 2 ^ 11 = 2048
<1>0. /\ 2 ^ 0 = 1
      /\ \A n \in Nat : 2 ^ (n + 1) = 2 * 2 ^ n
  BY PowerOfTwo
<1>1. 2 ^ (0 + 1) = 2 * 2 ^ 0 /\ 2 ^ (1 + 1) = 2 * 2 ^ 1 /\ 2 ^ (2 + 1) = 2 * 2 ^ 2
  BY <1>0
<1>2. 2 ^ (3 + 1) = 2 * 2 ^ 3 /\ 2 ^ (4 + 1) = 2 * 2 ^ 4 /\ 2 ^ (5 + 1) = 2 * 2 ^ 5
  BY <1>0
<1>3. 2 ^ (6 + 1) = 2 * 2 ^ 6 /\ 2 ^ (7 + 1) = 2 * 2 ^ 7 /\ 2 ^ (8 + 1) = 2 * 2 ^ 8
  BY <1>0
<1>4. 2 ^ (9 + 1) = 2 * 2 ^ 9 /\ 2 ^ (10 + 1) = 2 * 2 ^ 10
  BY <1>0
<1>5. 2 ^ 0 = 1
  BY <1>0
<1> QED BY <1>1, <1>2, <1>3, <1>4, <1>5

(* The case of a cell has a bit for each corner that is inside, and no other
   (marchingcubes.cpp:109-117). *)
LEMMA CubeIndexIs == ASSUME NEW corners PROVE CaseOf(Cells!CubeIndex(corners), corners)
<1> DEFINE b(n) == IF Cells!Inside(corners[n]) THEN 1 ELSE 0
<1>c. PICK c : c = Cells!CubeIndex(corners)
  OBVIOUS
<1>1. c = b(1) + 2 * b(2) + 4 * b(3) + 8 * b(4) + 16 * b(5) + 32 * b(6) + 64 * b(7) + 128 * b(8)
  <2>1. /\ 2 ^ (1 - 1) = 1 /\ 2 ^ (2 - 1) = 2 /\ 2 ^ (3 - 1) = 4 /\ 2 ^ (4 - 1) = 8 /\ 2 ^ (5 - 1) = 16
        /\ 2 ^ (6 - 1) = 32 /\ 2 ^ (7 - 1) = 64 /\ 2 ^ (8 - 1) = 128
    BY Powers
  <2> HIDE DEF Cells!Inside
  <2> QED BY <1>c, <2>1, SMTT(30) DEF Cells!CubeIndex
<1>2. \A n : b(n) \in {0, 1} /\ (b(n) = 1 <=> Cells!Inside(corners[n]))
  OBVIOUS
<1> HIDE DEF b
<1>3. /\ c \in 0 .. 255
      /\ Bit(c, 1) = b(1) /\ Bit(c, 2) = b(2) /\ Bit(c, 4) = b(3) /\ Bit(c, 8) = b(4)
      /\ Bit(c, 16) = b(5) /\ Bit(c, 32) = b(6) /\ Bit(c, 64) = b(7) /\ Bit(c, 128) = b(8)
  <2>1. /\ b(1) \in {0, 1} /\ b(2) \in {0, 1} /\ b(3) \in {0, 1} /\ b(4) \in {0, 1}
        /\ b(5) \in {0, 1} /\ b(6) \in {0, 1} /\ b(7) \in {0, 1} /\ b(8) \in {0, 1}
    BY <1>2
  <2> QED BY <1>1, <2>1, BitsOfSum
<1>4. CaseOf(c, corners)
  BY <1>2, <1>3 DEF CaseOf
<1> QED BY <1>c, <1>4

(* An edge that is cut in a case has a corner inside and one outside. *)
Separates(corners, e) ==
    Cells!Inside(corners[Cells!CellEdges[e][1]]) # Cells!Inside(corners[Cells!CellEdges[e][2]])

(* An edge that is cut in the case of the cell has one end inside, one outside. *)
LEMMA CutSeparates ==
  ASSUME NEW c, NEW corners, CaseOf(c, corners), NEW e \in 0 .. 11, CutIn(c, e)
  PROVE  Separates(corners, e + 1)
<1>1. Bit(c, 1) \in {0, 1} /\ Bit(c, 2) \in {0, 1} /\ Bit(c, 4) \in {0, 1} /\ Bit(c, 8) \in {0, 1}
      /\ Bit(c, 16) \in {0, 1} /\ Bit(c, 32) \in {0, 1} /\ Bit(c, 64) \in {0, 1} /\ Bit(c, 128) \in {0, 1}
  BY DEF CaseOf, Bit
<1> DEFINE P(n) == Cells!Inside(corners[n])
<1>2. /\ P(1) <=> (Bit(c, 1) = 1)
      /\ P(2) <=> (Bit(c, 2) = 1)
      /\ P(3) <=> (Bit(c, 4) = 1)
      /\ P(4) <=> (Bit(c, 8) = 1)
      /\ P(5) <=> (Bit(c, 16) = 1)
      /\ P(6) <=> (Bit(c, 32) = 1)
      /\ P(7) <=> (Bit(c, 64) = 1)
      /\ P(8) <=> (Bit(c, 128) = 1)
  BY DEF CaseOf
<1>3. \A n : P(n) \in BOOLEAN
  BY DEF Cells!Inside
<1>4. /\ e = 0 => Separates(corners, 1) <=> P(1) # P(2)
      /\ e = 1 => Separates(corners, 2) <=> P(2) # P(3)
      /\ e = 2 => Separates(corners, 3) <=> P(3) # P(4)
      /\ e = 3 => Separates(corners, 4) <=> P(4) # P(1)
      /\ e = 4 => Separates(corners, 5) <=> P(5) # P(6)
      /\ e = 5 => Separates(corners, 6) <=> P(6) # P(7)
      /\ e = 6 => Separates(corners, 7) <=> P(7) # P(8)
      /\ e = 7 => Separates(corners, 8) <=> P(8) # P(5)
      /\ e = 8 => Separates(corners, 9) <=> P(1) # P(5)
      /\ e = 9 => Separates(corners, 10) <=> P(2) # P(6)
      /\ e = 10 => Separates(corners, 11) <=> P(3) # P(7)
      /\ e = 11 => Separates(corners, 12) <=> P(4) # P(8)
  BY DEF Separates, Cells!CellEdges
<1> HIDE DEF P
<1> QED BY <1>1, <1>2, <1>3, <1>4 DEF CutIn

(***************************************************************************)
(* Squares: the grids of Quad, Terrain and Cube                            *)
(***************************************************************************)

(* Which faces a mesh has, in which of the loops a face is made, and the position of
   the point (i, j) of its grid.                                           *)
CubeFaces == {"front", "back", "top", "bottom", "left", "right"}

FacesOf(k) == IF k = "cube" THEN CubeFaces ELSE {k}

PassOf(f) ==
    CASE f \in {"front", "back"} -> "frontBack"
      [] f \in {"top", "bottom"} -> "topBottom"
      [] f \in {"left", "right"} -> "leftRight"
      [] OTHER -> "square"

Point(f, r, i, j) ==
    CASE f = "quad" -> <<i, 0, j>>
      [] f = "terrain" -> <<i, j * (r + 1) + i, j>>
      [] f = "front" -> <<i, -j, 0>>
      [] f = "back" -> <<i, -j, r>>
      [] f = "top" -> <<i, -r, j>>
      [] f = "bottom" -> <<i, 0, j>>
      [] f = "left" -> <<0, -i, j>>
      [] f = "right" -> <<r, -i, j>>

NormalOf(f) ==
    CASE f = "front" -> <<0, 0, -1>>
      [] f = "back" -> <<0, 0, 1>>
      [] f = "top" -> <<0, 1, 0>>
      [] f = "left" -> <<1, 0, 0>>
      [] f = "right" -> <<-1, 0, 0>>
      [] OTHER -> <<0, -1, 0>>

OrderOf(f) ==
    CASE f = "front" -> <<1, 2, 3, 2, 4, 3>>
      [] f = "back" -> <<1, 3, 2, 2, 3, 4>>
      [] f \in {"bottom", "right"} -> <<3, 2, 1, 4, 2, 3>>
      [] OTHER -> <<1, 2, 3, 3, 2, 4>>

(* How far corner n of a square is from its first corner. *)
Down(n) == IF n \in {2, 4} THEN 1 ELSE 0
Along(n) == IF n \in {3, 4} THEN 1 ELSE 0

FaceOf(f, r, i, j) ==
    [position |-> [n \in 1 .. 4 |-> Point(f, r, i + Down(n), j + Along(n))],
     normal |-> NormalOf(f), order |-> OrderOf(f)]

(* The face of one round, in order. *)
FirstFace == IF pass = "frontBack" THEN "front" ELSE IF pass = "topBottom" THEN "top"
             ELSE IF pass = "leftRight" THEN "left" ELSE squareKind
SecondFace == IF pass = "frontBack" THEN "back" ELSE IF pass = "topBottom" THEN "bottom" ELSE "right"

LoopInv ==
    /\ squareKind \in {"quad", "terrain", "cube"} /\ squareResolution \in Nat \ {0}
    /\ pass \in IF squareKind = "cube" THEN {"frontBack", "topBottom", "leftRight"} ELSE {"square"}
    /\ row \in 0 .. (squareResolution - 1) /\ col \in 0 .. (squareResolution - 1)
    /\ squarePc \in {"loop", "built"}

(* A square placed by a function is the face that the function places. *)
LEMMA FaceIs ==
  ASSUME LoopInv, NEW f, NEW at,
         \A i, j \in Nat : at[<<i, j>>] = Point(f, squareResolution, i, j)
  PROVE  Squares!Face(at, NormalOf(f), OrderOf(f)) = FaceOf(f, squareResolution, row, col)
<1>1. row \in Nat /\ col \in Nat
  BY DEF LoopInv
<1>2. \A n \in 1 .. 4 : Squares!Corner[n] = <<row + Down(n), col + Along(n)>>
                        /\ row + Down(n) \in Nat /\ col + Along(n) \in Nat
  BY <1>1 DEF Squares!Corner, Down, Along
<1>3. \A n \in 1 .. 4 : at[Squares!Corner[n]] = Point(f, squareResolution, row + Down(n), col + Along(n))
  BY <1>2
<1> QED BY <1>3 DEF Squares!Face, FaceOf

(* The squares of a round are the faces at (row, col). *)
LEMMA SquaresAre ==
  ASSUME LoopInv
  PROVE  Squares!Squares =
            IF pass = "square" THEN <<FaceOf(squareKind, squareResolution, row, col)>>
            ELSE <<FaceOf(FirstFace, squareResolution, row, col), FaceOf(SecondFace, squareResolution, row, col)>>
<1> USE DEF LoopInv
<1>1. CASE pass = "frontBack"
  <2>1. Squares!Squares = Squares!FrontBack
    BY <1>1 DEF Squares!Squares
  <2>2. Squares!Face([c \in Nat \X Nat |-> <<c[1], -c[2], 0>>], NormalOf("front"), OrderOf("front")) = FaceOf("front", squareResolution, row, col)
    <3>1. \A i, j \in Nat : [c \in Nat \X Nat |-> <<c[1], -c[2], 0>>][<<i, j>>] = Point("front", squareResolution, i, j)
      BY DEF Point
    <3> QED BY <3>1, FaceIs
  <2>3. Squares!Face([c \in Nat \X Nat |-> <<c[1], -c[2], squareResolution>>], NormalOf("back"), OrderOf("back")) = FaceOf("back", squareResolution, row, col)
    <3>1. \A i, j \in Nat : [c \in Nat \X Nat |-> <<c[1], -c[2], squareResolution>>][<<i, j>>] = Point("back", squareResolution, i, j)
      BY DEF Point
    <3> QED BY <3>1, FaceIs
  <2>4. FirstFace = "front" /\ SecondFace = "back" /\ pass # "square"
    BY <1>1 DEF FirstFace, SecondFace
  <2> QED BY <2>1, <2>2, <2>3, <2>4 DEF Squares!FrontBack, NormalOf, OrderOf
<1>2. CASE pass = "topBottom"
  <2>1. Squares!Squares = Squares!TopBottom
    BY <1>2 DEF Squares!Squares
  <2>2. Squares!Face([c \in Nat \X Nat |-> <<c[1], -squareResolution, c[2]>>], NormalOf("top"), OrderOf("top")) = FaceOf("top", squareResolution, row, col)
    <3>1. \A i, j \in Nat : [c \in Nat \X Nat |-> <<c[1], -squareResolution, c[2]>>][<<i, j>>] = Point("top", squareResolution, i, j)
      BY DEF Point
    <3> QED BY <3>1, FaceIs
  <2>3. Squares!Face([c \in Nat \X Nat |-> <<c[1], 0, c[2]>>], NormalOf("bottom"), OrderOf("bottom")) = FaceOf("bottom", squareResolution, row, col)
    <3>1. \A i, j \in Nat : [c \in Nat \X Nat |-> <<c[1], 0, c[2]>>][<<i, j>>] = Point("bottom", squareResolution, i, j)
      BY DEF Point
    <3> QED BY <3>1, FaceIs
  <2>4. FirstFace = "top" /\ SecondFace = "bottom" /\ pass # "square"
    BY <1>2 DEF FirstFace, SecondFace
  <2> QED BY <2>1, <2>2, <2>3, <2>4 DEF Squares!TopBottom, NormalOf, OrderOf
<1>3. CASE pass = "leftRight"
  <2>1. Squares!Squares = Squares!LeftRight
    BY <1>3 DEF Squares!Squares
  <2>2. Squares!Face([c \in Nat \X Nat |-> <<0, -c[1], c[2]>>], NormalOf("left"), OrderOf("left")) = FaceOf("left", squareResolution, row, col)
    <3>1. \A i, j \in Nat : [c \in Nat \X Nat |-> <<0, -c[1], c[2]>>][<<i, j>>] = Point("left", squareResolution, i, j)
      BY DEF Point
    <3> QED BY <3>1, FaceIs
  <2>3. Squares!Face([c \in Nat \X Nat |-> <<squareResolution, -c[1], c[2]>>], NormalOf("right"), OrderOf("right")) = FaceOf("right", squareResolution, row, col)
    <3>1. \A i, j \in Nat : [c \in Nat \X Nat |-> <<squareResolution, -c[1], c[2]>>][<<i, j>>] = Point("right", squareResolution, i, j)
      BY DEF Point
    <3> QED BY <3>1, FaceIs
  <2>4. FirstFace = "left" /\ SecondFace = "right" /\ pass # "square"
    BY <1>3 DEF FirstFace, SecondFace
  <2> QED BY <2>1, <2>2, <2>3, <2>4 DEF Squares!LeftRight, NormalOf, OrderOf
<1>4. Squares!QuadSquare = <<FaceOf("quad", squareResolution, row, col)>>
  <2>2. Squares!Face([c \in Nat \X Nat |-> <<c[1], 0, c[2]>>], NormalOf("quad"), OrderOf("quad")) = FaceOf("quad", squareResolution, row, col)
    <3>1. \A i, j \in Nat : [c \in Nat \X Nat |-> <<c[1], 0, c[2]>>][<<i, j>>] = Point("quad", squareResolution, i, j)
      BY DEF Point
    <3> QED BY <3>1, FaceIs
  <2> QED BY <2>2 DEF Squares!QuadSquare, NormalOf, OrderOf
<1>5. CASE pass = "square" /\ squareKind = "quad"
  <2>1. Squares!Squares = Squares!QuadSquare
    BY <1>5 DEF Squares!Squares
  <2> QED BY <1>4, <1>5, <2>1
<1>6. CASE pass = "square" /\ squareKind = "terrain"
  <2>1. Squares!Squares = Squares!TerrainSquare
    BY <1>6 DEF Squares!Squares
  <2> DEFINE q == FaceOf("quad", squareResolution, row, col)
             t == FaceOf("terrain", squareResolution, row, col)
  <2>2. Squares!TerrainSquare = <<[q EXCEPT !.position = [n \in 1 .. 4 |-> [q.position[n] EXCEPT ![2] = Squares!Heights[n]]]]>>
    <3>1. Squares!QuadSquare[1] = q
      BY <1>4
    <3> QED BY <3>1 DEF Squares!TerrainSquare
  <2>3. \A n \in 1 .. 4 : [q.position[n] EXCEPT ![2] = Squares!Heights[n]] = t.position[n]
    <3> QED BY DEF Squares!Heights, FaceOf, Point, Down, Along
  <2>4. t = [q EXCEPT !.position = t.position]
    <3> DEFINE made(p, f) == [position |-> p, normal |-> NormalOf(f), order |-> OrderOf(f)]
    <3>1. q = made(q.position, "terrain")
      BY DEF FaceOf, NormalOf, OrderOf
    <3>2. t = made(t.position, "terrain")
      BY DEF FaceOf
    <3>3. \A p : [made(p, "terrain") EXCEPT !.position = t.position] = made(t.position, "terrain")
      OBVIOUS
    <3> HIDE DEF q, t, made
    <3> QED BY <3>1, <3>2, <3>3
  <2>5. [n \in 1 .. 4 |-> t.position[n]] = t.position
    BY DEF FaceOf
  <2>6. Squares!TerrainSquare = <<t>>
    <3> HIDE DEF q, t
    <3> QED BY <2>2, <2>3, <2>4, <2>5
  <2> QED BY <1>6, <2>1, <2>6
<1> QED BY <1>1, <1>2, <1>3, <1>5, <1>6

(* The mesh built so far: its vertices are known by their numbers, each once. *)
MeshOf(m, S) ==
    /\ m = [vertices |-> m.vertices, indices |-> m.indices, uniqueVertices |-> m.uniqueVertices]
    /\ m.vertices \in Seq(S) /\ m.indices \in Seq(Int)
    /\ \A v \in DOMAIN m.uniqueVertices :
          /\ m.uniqueVertices[v] \in 0 .. (Len(m.vertices) - 1)
          /\ m.vertices[m.uniqueVertices[v] + 1] = v
    /\ \A n \in 1 .. Len(m.vertices) :
          /\ m.vertices[n] \in DOMAIN m.uniqueVertices
          /\ m.uniqueVertices[m.vertices[n]] = n - 1
    /\ \A n \in 1 .. Len(m.indices) : m.indices[n] \in 0 .. (Len(m.vertices) - 1)

(* m grows into n: vertices are only appended. *)
Grows(m, n) ==
    /\ Len(m.vertices) <= Len(n.vertices)
    /\ \A k \in 1 .. Len(m.vertices) : n.vertices[k] = m.vertices[k]

(* What the updates of a mesh make of its three parts. *)
LEMMA MeshUpdates ==
  ASSUME NEW a, NEW b, NEW c, NEW p, NEW q, NEW m, NEW n,
         m = [vertices |-> a, indices |-> b, uniqueVertices |-> c]
  PROVE  /\ n = [m EXCEPT !.vertices = p, !.uniqueVertices = q]
              => n = [vertices |-> p, indices |-> b, uniqueVertices |-> q]
         /\ n = [m EXCEPT !.indices = p] => n = [vertices |-> a, indices |-> p, uniqueVertices |-> c]
<1>1. ASSUME n = [m EXCEPT !.vertices = p, !.uniqueVertices = q]
      PROVE  n = [vertices |-> p, indices |-> b, uniqueVertices |-> q]
  BY <1>1
<1>2. ASSUME n = [m EXCEPT !.indices = p]
      PROVE  n = [vertices |-> a, indices |-> p, uniqueVertices |-> c]
  BY <1>2
<1> QED BY <1>1, <1>2

Joined(p, q) == p \o q

IsJoin(p, q, s) ==
    /\ s \in Seq(Int) /\ Len(s) = Len(p) + Len(q)
    /\ \A k \in 1 .. Len(p) : s[k] = p[k]
    /\ \A k \in 1 .. Len(q) : s[Len(p) + k] = q[k]
    /\ \A k \in 1 .. Len(s) :
          k \in 1 .. Len(p) \/ (k - Len(p) \in 1 .. Len(q) /\ k = Len(p) + (k - Len(p)))

(* Two lists of indices one after the other (quad.cpp:79-87). *)
LEMMA JoinedIs ==
  ASSUME NEW p \in Seq(Int), NEW q \in Seq(Int)
  PROVE  IsJoin(p, q, Joined(p, q))
<1>s. PICK s : s = Joined(p, q)
  OBVIOUS
<1>1. s \in Seq(Int) /\ Len(s) = Len(p) + Len(q)
  BY <1>s DEF Joined
<1>2. ASSUME NEW k \in 1 .. Len(p) PROVE s[k] = p[k]
  BY <1>s DEF Joined
<1>3. ASSUME NEW k \in 1 .. Len(q) PROVE s[Len(p) + k] = q[k]
  BY <1>s DEF Joined
<1>4. Len(p) \in Nat /\ Len(q) \in Nat
  OBVIOUS
<1>5. ASSUME NEW k \in 1 .. Len(s)
      PROVE  k \in 1 .. Len(p) \/ (k - Len(p) \in 1 .. Len(q) /\ k = Len(p) + (k - Len(p)))
  <2> DEFINE l == Len(s)
             a == Len(p)
             b == Len(q)
  <2>1. k \in 1 .. l /\ l = a + b /\ a \in Nat /\ b \in Nat
    BY <1>1, <1>4
  <2> HIDE DEF l, a, b
  <2>2. k \in 1 .. a \/ (k - a \in 1 .. b /\ k = a + (k - a))
    BY <2>1
  <2> QED BY <2>2 DEF a, b
<1> QED BY <1>s, <1>1, <1>2, <1>3, <1>5 DEF IsJoin

VertexAdded(m, S, v, n) ==
    /\ MeshOf(n, S) /\ Grows(m, n) /\ n.indices = m.indices
    /\ DOMAIN n.uniqueVertices = DOMAIN m.uniqueVertices \cup {v}

(* A vertex that is not known yet is added with the next number; the mesh keeps what it
   has (quad.cpp:59-77). *)
LEMMA AddVertexGrows ==
  ASSUME NEW S, NEW m, MeshOf(m, S), NEW v \in S
  PROVE  VertexAdded(m, S, v, Squares!AddVertex(m, v))
<1>n. PICK n : n = Squares!AddVertex(m, v)
  OBVIOUS
<1> DEFINE u == m.uniqueVertices
           w == [k \in DOMAIN u \cup {v} |-> IF k = v THEN Len(m.vertices) ELSE u[k]]
           vs == Append(m.vertices, v)
<1>0. m.vertices \in Seq(S) /\ m.indices \in Seq(Int) /\ Len(m.vertices) \in Nat
  BY DEF MeshOf
<1>1. CASE v \in DOMAIN u
  <2>1. n = m /\ DOMAIN u \cup {v} = DOMAIN u
    BY <1>1, <1>n DEF Squares!AddVertex
  <2> QED BY <1>0, <1>n, <2>1 DEF Grows, VertexAdded
<1>2. CASE v \notin DOMAIN u
  <2>1. n = [vertices |-> vs, indices |-> m.indices, uniqueVertices |-> w]
    <3>1. m = [vertices |-> m.vertices, indices |-> m.indices, uniqueVertices |-> u]
      BY DEF MeshOf
    <3>2. n = [m EXCEPT !.vertices = vs, !.uniqueVertices = w]
      BY <1>2, <1>n DEF Squares!AddVertex, Squares!Numbered
    <3> HIDE DEF w, vs
    <3> QED BY <3>1, <3>2, MeshUpdates
  <2>2. n.vertices = vs /\ n.indices = m.indices /\ n.uniqueVertices = w
    BY <2>1
  <2>3. vs \in Seq(S) /\ Len(vs) = Len(m.vertices) + 1 /\ vs[Len(vs)] = v
        /\ \A k \in 1 .. Len(m.vertices) : vs[k] = m.vertices[k]
    BY <1>0
  <2>4. Grows(m, n)
    BY <1>0, <2>2, <2>3 DEF Grows
  <2>5. DOMAIN w = DOMAIN u \cup {v} /\ w[v] = Len(m.vertices) /\ \A k \in DOMAIN u : w[k] = u[k]
    BY <1>2
  <2> HIDE DEF w, vs
  <2>6. \A k \in DOMAIN w : w[k] \in 0 .. (Len(vs) - 1) /\ vs[w[k] + 1] = k
    <3>1. ASSUME NEW k \in DOMAIN u PROVE w[k] \in 0 .. (Len(vs) - 1) /\ vs[w[k] + 1] = k
      <4>1. u[k] \in 0 .. (Len(m.vertices) - 1) /\ m.vertices[u[k] + 1] = k
        BY DEF MeshOf
      <4>2. u[k] + 1 \in 1 .. Len(m.vertices) /\ w[k] = u[k]
        BY <1>0, <2>5, <4>1
      <4>3. vs[u[k] + 1] = k
        BY <2>3, <4>1, <4>2
      <4> QED BY <1>0, <2>3, <4>1, <4>2, <4>3
    <3>2. w[v] \in 0 .. (Len(vs) - 1) /\ vs[w[v] + 1] = v
      BY <1>0, <2>3, <2>5
    <3> QED BY <2>5, <3>1, <3>2
  <2>7. \A k \in 1 .. Len(vs) : vs[k] \in DOMAIN w /\ w[vs[k]] = k - 1
    <3>1. ASSUME NEW k \in 1 .. Len(m.vertices) PROVE vs[k] \in DOMAIN w /\ w[vs[k]] = k - 1
      <4>1. m.vertices[k] \in DOMAIN u /\ u[m.vertices[k]] = k - 1
        BY DEF MeshOf
      <4> QED BY <2>3, <2>5, <4>1
    <3>2. vs[Len(vs)] \in DOMAIN w /\ w[vs[Len(vs)]] = Len(vs) - 1
      BY <1>0, <2>3, <2>5
    <3>3. \A k \in 1 .. Len(vs) : k \in 1 .. Len(m.vertices) \/ k = Len(vs)
      BY <1>0, <2>3
    <3> QED BY <3>1, <3>2, <3>3
  <2>8. \A k \in 1 .. Len(m.indices) : m.indices[k] \in 0 .. (Len(vs) - 1)
    <3>1. \A k \in 1 .. Len(m.indices) : m.indices[k] \in 0 .. (Len(m.vertices) - 1)
      BY DEF MeshOf
    <3> QED BY <1>0, <2>3, <3>1
  <2>9. MeshOf(n, S)
    BY <1>0, <2>1, <2>2, <2>3, <2>6, <2>7, <2>8 DEF MeshOf
  <2> QED BY <1>n, <2>2, <2>4, <2>5, <2>9 DEF VertexAdded
<1> QED BY <1>1, <1>2

(* The four corners of a square, and its six indices. *)
VertexAt(f, r, i, j) == [position |-> Point(f, r, i, j), normal |-> NormalOf(f), texCoord |-> <<i, j>>]
CornerVertex(f, r, i, j, n) == VertexAt(f, r, i + Down(n), j + Along(n))

CornersIn(f, r, i, j, S) == \A n \in 1 .. 4 : CornerVertex(f, r, i, j, n) \in S

(* Growing twice is growing. *)
LEMMA GrowsTransitive ==
  ASSUME NEW S, NEW a, NEW b, NEW c, MeshOf(a, S), MeshOf(b, S), MeshOf(c, S), Grows(a, b), Grows(b, c)
  PROVE  Grows(a, c)
<1>1. Len(a.vertices) \in Nat /\ Len(b.vertices) \in Nat /\ Len(c.vertices) \in Nat
  BY DEF MeshOf
<1>2. \A k \in 1 .. Len(a.vertices) : k \in 1 .. Len(b.vertices)
  BY <1>1 DEF Grows
<1> QED BY <1>1, <1>2 DEF Grows

SquareAdded(m, S, f, r, i, j, n) ==
    /\ MeshOf(n, S) /\ Grows(m, n)
    /\ DOMAIN n.uniqueVertices = DOMAIN m.uniqueVertices \cup {CornerVertex(f, r, i, j, k) : k \in 1 .. 4}
    /\ Len(n.indices) = Len(m.indices) + 6
    /\ \A k \in 1 .. Len(m.indices) : n.indices[k] = m.indices[k]
    /\ \A k \in 1 .. 6 : n.vertices[n.indices[Len(m.indices) + k] + 1] = CornerVertex(f, r, i, j, OrderOf(f)[k])

(* A square brings its four corners, each once, and six indices of them
   (quad.cpp:31-87, cube.cpp:29-149). *)
LEMMA AddSquareGrows ==
  ASSUME NEW S, NEW m, MeshOf(m, S), LoopInv, NEW f, CornersIn(f, squareResolution, row, col, S)
  PROVE  SquareAdded(m, S, f, squareResolution, row, col,
                     Squares!AddSquare(m, FaceOf(f, squareResolution, row, col)))
<1>n. PICK n : n = Squares!AddSquare(m, FaceOf(f, squareResolution, row, col))
  OBVIOUS
<1> DEFINE face == FaceOf(f, squareResolution, row, col)
           corner(k) == CornerVertex(f, squareResolution, row, col, k)
<1> DEFINE vertex == [k \in 1 .. 4 |-> [position |-> face.position[k], normal |-> face.normal,
                                        texCoord |-> Squares!Corner[k]]]
           last == Squares!AddVertex(Squares!AddVertex(Squares!AddVertex(Squares!AddVertex(
                       m, vertex[1]), vertex[2]), vertex[3]), vertex[4])
<1>0. n = [last EXCEPT !.indices = last.indices \o
                [k \in 1 .. 6 |-> last.uniqueVertices[vertex[face.order[k]]]]]
  BY <1>n DEF Squares!AddSquare
<1>1. \A k \in 1 .. 4 : vertex[k] = corner(k)
  BY DEF FaceOf, CornerVertex, VertexAt, LoopInv, Squares!Corner, Down, Along
<1>2. vertex[1] \in S /\ vertex[2] \in S /\ vertex[3] \in S /\ vertex[4] \in S
  BY <1>1 DEF CornersIn
<1> HIDE DEF vertex
<1>a. PICK a : a = Squares!AddVertex(m, vertex[1])
  OBVIOUS
<1>b. PICK b : b = Squares!AddVertex(a, vertex[2])
  OBVIOUS
<1>c. PICK c : c = Squares!AddVertex(b, vertex[3])
  OBVIOUS
<1>d. PICK d : d = Squares!AddVertex(c, vertex[4])
  OBVIOUS
<1>e. d = last
  BY <1>a, <1>b, <1>c, <1>d
<1> HIDE DEF last
<1>six. PICK six : six = [k \in 1 .. 6 |-> d.uniqueVertices[vertex[face.order[k]]]]
  OBVIOUS
<1>3. n = [d EXCEPT !.indices = d.indices \o six]
  BY <1>0, <1>e, <1>six
<1>4. /\ MeshOf(a, S) /\ Grows(m, a) /\ a.indices = m.indices
      /\ DOMAIN a.uniqueVertices = DOMAIN m.uniqueVertices \cup {vertex[1]}
  <2>1. VertexAdded(m, S, vertex[1], a)
    BY <1>2, <1>a, AddVertexGrows
  <2> QED BY <2>1 DEF VertexAdded
<1>5. /\ MeshOf(b, S) /\ Grows(a, b) /\ b.indices = a.indices
      /\ DOMAIN b.uniqueVertices = DOMAIN a.uniqueVertices \cup {vertex[2]}
  <2>1. VertexAdded(a, S, vertex[2], b)
    BY <1>2, <1>4, <1>b, AddVertexGrows
  <2> QED BY <2>1 DEF VertexAdded
<1>6. /\ MeshOf(c, S) /\ Grows(b, c) /\ c.indices = b.indices
      /\ DOMAIN c.uniqueVertices = DOMAIN b.uniqueVertices \cup {vertex[3]}
  <2>1. VertexAdded(b, S, vertex[3], c)
    BY <1>2, <1>5, <1>c, AddVertexGrows
  <2> QED BY <2>1 DEF VertexAdded
<1>7. /\ MeshOf(d, S) /\ Grows(c, d) /\ d.indices = c.indices
      /\ DOMAIN d.uniqueVertices = DOMAIN c.uniqueVertices \cup {vertex[4]}
  <2>1. VertexAdded(c, S, vertex[4], d)
    BY <1>2, <1>6, <1>d, AddVertexGrows
  <2> QED BY <2>1 DEF VertexAdded
<1>8. Grows(m, d) /\ d.indices = m.indices
  BY <1>4, <1>5, <1>6, <1>7, GrowsTransitive
<1>9. DOMAIN d.uniqueVertices = DOMAIN m.uniqueVertices \cup {corner(k) : k \in 1 .. 4}
  <2>1. {corner(k) : k \in 1 .. 4} = {vertex[1], vertex[2], vertex[3], vertex[4]}
    <3> HIDE DEF corner
    <3> QED BY <1>1
  <2> HIDE DEF corner
  <2> QED BY <1>4, <1>5, <1>6, <1>7, <2>1
<1>10. \A k \in 1 .. 6 : face.order[k] = OrderOf(f)[k] /\ OrderOf(f)[k] \in 1 .. 4
  BY DEF FaceOf, OrderOf
<1>11. \A k \in 1 .. 6 : /\ six[k] \in 0 .. (Len(d.vertices) - 1)
                         /\ d.vertices[six[k] + 1] = corner(OrderOf(f)[k])
  <2> TAKE k \in 1 .. 6
  <2>1. vertex[face.order[k]] = corner(OrderOf(f)[k])
    BY <1>1, <1>10
  <2>2. corner(OrderOf(f)[k]) \in DOMAIN d.uniqueVertices
    <3> HIDE DEF corner
    <3> QED BY <1>9, <1>10
  <2>3. six[k] = d.uniqueVertices[corner(OrderOf(f)[k])]
    <3> HIDE DEF corner
    <3> QED BY <2>1, <1>six
  <2> HIDE DEF corner
  <2> QED BY <1>7, <2>2, <2>3 DEF MeshOf
<1>12. six \in Seq(Int) /\ Len(six) = 6
  <2>1. Len(d.vertices) \in Nat
    BY <1>7 DEF MeshOf
  <2>2. ASSUME NEW k \in 1 .. 6 PROVE six[k] \in Int
    <3>1. six[k] \in 0 .. (Len(d.vertices) - 1)
      BY <1>11
    <3> QED BY <2>1, <3>1
  <2>3. six = [k \in 1 .. 6 |-> six[k]]
    BY <1>six
  <2> QED BY <2>2, <2>3
<1> HIDE DEF corner
<1>13. n = [vertices |-> d.vertices, indices |-> Joined(d.indices, six), uniqueVertices |-> d.uniqueVertices]
  <2>1. d = [vertices |-> d.vertices, indices |-> d.indices, uniqueVertices |-> d.uniqueVertices]
    BY <1>7 DEF MeshOf
  <2>2. n = [d EXCEPT !.indices = Joined(d.indices, six)]
    BY <1>3 DEF Joined
  <2> QED BY <2>1, <2>2, MeshUpdates
<1>14. n.vertices = d.vertices /\ n.indices = Joined(d.indices, six) /\ n.uniqueVertices = d.uniqueVertices
  BY <1>13
<1>15. d.indices \in Seq(Int) /\ d.vertices \in Seq(S)
  BY <1>7 DEF MeshOf
<1>16. /\ n.indices \in Seq(Int) /\ Len(n.indices) = Len(m.indices) + 6
       /\ \A k \in 1 .. Len(m.indices) : n.indices[k] = m.indices[k]
       /\ \A k \in 1 .. 6 : n.indices[Len(m.indices) + k] = six[k]
       /\ \A k \in 1 .. Len(n.indices) :
             k \in 1 .. Len(m.indices)
               \/ (k - Len(m.indices) \in 1 .. 6 /\ k = Len(m.indices) + (k - Len(m.indices)))
  <2> DEFINE p == d.indices
  <2>1. p \in Seq(Int) /\ p = m.indices /\ n.indices = Joined(p, six)
    BY <1>8, <1>14, <1>15
  <2> HIDE DEF p
  <2>2. IsJoin(p, six, n.indices)
    BY <1>12, <2>1, JoinedIs
  <2> QED BY <1>12, <2>1, <2>2 DEF IsJoin
<1>17. \A k \in 1 .. Len(n.indices) : n.indices[k] \in 0 .. (Len(n.vertices) - 1)
  <2>1. \A k \in 1 .. Len(m.indices) : n.indices[k] \in 0 .. (Len(n.vertices) - 1)
    BY <1>7, <1>8, <1>14, <1>16 DEF MeshOf
  <2>2. \A k \in 1 .. 6 : n.indices[Len(m.indices) + k] \in 0 .. (Len(n.vertices) - 1)
    BY <1>11, <1>14, <1>16
  <2> QED BY <2>1, <2>2, <1>16
<1>18. MeshOf(n, S)
  BY <1>7, <1>13, <1>14, <1>15, <1>16, <1>17 DEF MeshOf
<1>19. Grows(m, n)
  BY <1>8, <1>14 DEF Grows
<1>20. \A k \in 1 .. 6 : n.vertices[n.indices[Len(m.indices) + k] + 1] = corner(OrderOf(f)[k])
  BY <1>11, <1>14, <1>16
<1> QED BY <1>9, <1>14, <1>16, <1>18, <1>19, <1>20, <1>n DEF corner, SquareAdded

(* The directed sides of the two triangles of a square, as pairs of corners. *)
Turns(f) ==
    IF f \in {"back", "bottom", "right"}
    THEN {<<2, 1>>, <<3, 2>>, <<1, 3>>, <<2, 3>>, <<4, 2>>, <<3, 4>>}
    ELSE {<<1, 2>>, <<2, 3>>, <<3, 1>>, <<3, 2>>, <<2, 4>>, <<4, 3>>}

CornerPoint(f, r, i, j, n) == Point(f, r, i + Down(n), j + Along(n))
SideAt(f, r, i, j, t) == <<CornerPoint(f, r, i, j, t[1]), CornerPoint(f, r, i, j, t[2])>>
SquareSides(f, r, i, j) == {SideAt(f, r, i, j, t) : t \in Turns(f)}
SquareVertices(f, r, i, j) == {CornerVertex(f, r, i, j, n) : n \in 1 .. 4}

PositionIn(m, n) == m.vertices[m.indices[n] + 1].position
SidesIn(m, t) ==
    {<<PositionIn(m, 3 * t + 1), PositionIn(m, 3 * t + 2)>>, <<PositionIn(m, 3 * t + 2), PositionIn(m, 3 * t + 3)>>,
     <<PositionIn(m, 3 * t + 3), PositionIn(m, 3 * t + 1)>>}
MeshSides(m) == UNION {SidesIn(m, t) : t \in 0 .. (Len(m.indices) \div 3 - 1)}

(* m is the mesh of the squares D, each a face and the place of the square on it. *)
Generated(m, S, D, r) ==
    /\ MeshOf(m, S) /\ IsFiniteSet(D)
    /\ Len(m.indices) = 6 * Cardinality(D)
    /\ DOMAIN m.uniqueVertices = UNION {SquareVertices(d[1], r, d[2], d[3]) : d \in D}
    /\ MeshSides(m) = UNION {SquareSides(d[1], r, d[2], d[3]) : d \in D}

(* The six corners of a square's two triangles give its sides. *)
LEMMA SidesOfSquare ==
  ASSUME NEW f, NEW r, NEW i, NEW j, NEW p,
         \A k \in 1 .. 6 : p[k] = CornerPoint(f, r, i, j, OrderOf(f)[k])
  PROVE  {<<p[1], p[2]>>, <<p[2], p[3]>>, <<p[3], p[1]>>, <<p[4], p[5]>>, <<p[5], p[6]>>, <<p[6], p[4]>>}
            = SquareSides(f, r, i, j)
<1> DEFINE q(n) == CornerPoint(f, r, i, j, n)
<1>0. /\ p[1] = q(OrderOf(f)[1]) /\ p[2] = q(OrderOf(f)[2]) /\ p[3] = q(OrderOf(f)[3])
      /\ p[4] = q(OrderOf(f)[4]) /\ p[5] = q(OrderOf(f)[5]) /\ p[6] = q(OrderOf(f)[6])
  OBVIOUS
<1>1. SquareSides(f, r, i, j) = {<<q(t[1]), q(t[2])>> : t \in Turns(f)}
  BY DEF SquareSides, SideAt
<1> HIDE DEF q
<1>2. CASE f \in {"back", "bottom", "right"}
  <2>1. SquareSides(f, r, i, j) =
          {<<q(2), q(1)>>, <<q(3), q(2)>>, <<q(1), q(3)>>, <<q(2), q(3)>>, <<q(4), q(2)>>, <<q(3), q(4)>>}
    BY <1>1, <1>2 DEF Turns
  <2> QED BY <1>0, <1>2, <2>1 DEF OrderOf
<1>3. CASE f \notin {"back", "bottom", "right"}
  <2>1. SquareSides(f, r, i, j) =
          {<<q(1), q(2)>>, <<q(2), q(3)>>, <<q(3), q(1)>>, <<q(3), q(2)>>, <<q(2), q(4)>>, <<q(4), q(3)>>}
    BY <1>1, <1>3 DEF Turns
  <2>2. CASE f = "front"
    BY <1>0, <2>2, <2>1 DEF OrderOf
  <2>3. CASE f # "front"
    BY <1>0, <1>3, <2>3, <2>1 DEF OrderOf
  <2> QED BY <2>2, <2>3
<1> QED BY <1>2, <1>3

(* One more square of a face (quad.cpp:31-87, terrain.cpp:32-88, cube.cpp:29-149). *)
LEMMA AddSquareGenerates ==
  ASSUME NEW S, NEW D, NEW m, NEW f, LoopInv, Generated(m, S, D, squareResolution),
         <<f, row, col>> \notin D, CornersIn(f, squareResolution, row, col, S)
  PROVE  Generated(Squares!AddSquare(m, FaceOf(f, squareResolution, row, col)), S,
                   D \cup {<<f, row, col>>}, squareResolution)
<1> DEFINE r == squareResolution
           s == <<f, row, col>>
           E == D \cup {s}
           c == Cardinality(D)
           l == Len(m.indices)
<1>n. PICK n : n = Squares!AddSquare(m, FaceOf(f, squareResolution, row, col))
  OBVIOUS
<1>1. SquareAdded(m, S, f, r, row, col, n)
  BY <1>n, AddSquareGrows DEF Generated
<1>2. IsFiniteSet(E) /\ Cardinality(E) = c + 1 /\ c \in Nat /\ l = 6 * c
  BY FS_AddElement, FS_CardinalityType DEF Generated
<1> HIDE DEF c, E, l
<1>3. Len(n.indices) = 6 * Cardinality(E)
  BY <1>1, <1>2 DEF SquareAdded, l
<1>4. UNION {SquareVertices(d[1], r, d[2], d[3]) : d \in E}
        = (UNION {SquareVertices(d[1], r, d[2], d[3]) : d \in D}) \cup SquareVertices(f, r, row, col)
  BY DEF E
<1>5. DOMAIN n.uniqueVertices = UNION {SquareVertices(d[1], r, d[2], d[3]) : d \in E}
  BY <1>1, <1>4 DEF Generated, SquareAdded, SquareVertices
<1>6. UNION {SquareSides(d[1], r, d[2], d[3]) : d \in E}
        = (UNION {SquareSides(d[1], r, d[2], d[3]) : d \in D}) \cup SquareSides(f, r, row, col)
  BY DEF E
<1>7. ASSUME NEW k \in 1 .. l PROVE PositionIn(n, k) = PositionIn(m, k)
  <2>1. n.indices[k] = m.indices[k]
    BY <1>1 DEF SquareAdded, l
  <2>2. m.indices[k] \in 0 .. (Len(m.vertices) - 1)
    BY DEF Generated, MeshOf, l
  <2>3. Len(m.vertices) \in Nat
    BY DEF Generated, MeshOf
  <2>4. m.indices[k] + 1 \in 1 .. Len(m.vertices)
    BY <2>2, <2>3
  <2>5. n.vertices[m.indices[k] + 1] = m.vertices[m.indices[k] + 1]
    BY <1>1, <2>4 DEF SquareAdded, Grows
  <2> QED BY <2>1, <2>5 DEF PositionIn
<1>8. ASSUME NEW t \in 0 .. (2 * c - 1) PROVE SidesIn(n, t) = SidesIn(m, t)
  <2>1. 3 * t + 1 \in 1 .. l /\ 3 * t + 2 \in 1 .. l /\ 3 * t + 3 \in 1 .. l
    BY <1>2
  <2>2. /\ PositionIn(n, 3 * t + 1) = PositionIn(m, 3 * t + 1)
        /\ PositionIn(n, 3 * t + 2) = PositionIn(m, 3 * t + 2)
        /\ PositionIn(n, 3 * t + 3) = PositionIn(m, 3 * t + 3)
    BY <1>7, <2>1
  <2> QED BY <2>2 DEF SidesIn
<1>9. \A k \in 1 .. 6 : PositionIn(n, l + k) = CornerPoint(f, r, row, col, OrderOf(f)[k])
  <2> TAKE k \in 1 .. 6
  <2>1. n.vertices[n.indices[l + k] + 1] = CornerVertex(f, r, row, col, OrderOf(f)[k])
    BY <1>1 DEF SquareAdded, l
  <2> QED BY <2>1 DEF PositionIn, CornerVertex, VertexAt, CornerPoint
<1>10. SidesIn(n, 2 * c) \cup SidesIn(n, 2 * c + 1) = SquareSides(f, r, row, col)
  <2>1. PICK p : p = [k \in 1 .. 6 |-> PositionIn(n, l + k)]
    OBVIOUS
  <2>2. \A k \in 1 .. 6 : p[k] = CornerPoint(f, r, row, col, OrderOf(f)[k])
    BY <1>9, <2>1
  <2>3. {<<p[1], p[2]>>, <<p[2], p[3]>>, <<p[3], p[1]>>, <<p[4], p[5]>>, <<p[5], p[6]>>, <<p[6], p[4]>>}
          = SquareSides(f, r, row, col)
    BY <2>2, SidesOfSquare
  <2>4. /\ 3 * (2 * c) + 1 = l + 1 /\ 3 * (2 * c) + 2 = l + 2 /\ 3 * (2 * c) + 3 = l + 3
        /\ 3 * (2 * c + 1) + 1 = l + 4 /\ 3 * (2 * c + 1) + 2 = l + 5 /\ 3 * (2 * c + 1) + 3 = l + 6
    BY <1>2
  <2>5. /\ SidesIn(n, 2 * c) = {<<p[1], p[2]>>, <<p[2], p[3]>>, <<p[3], p[1]>>}
        /\ SidesIn(n, 2 * c + 1) = {<<p[4], p[5]>>, <<p[5], p[6]>>, <<p[6], p[4]>>}
    BY <2>1, <2>4 DEF SidesIn
  <2> QED BY <2>3, <2>5
<1>11. MeshSides(n) = MeshSides(m) \cup SquareSides(f, r, row, col)
  <2>1. Len(m.indices) \div 3 - 1 = 2 * c - 1 /\ Len(n.indices) \div 3 - 1 = 2 * c + 1
    BY <1>1, <1>2 DEF SquareAdded, l
  <2>2. 0 .. (2 * c + 1) = (0 .. (2 * c - 1)) \cup {2 * c, 2 * c + 1}
    BY <1>2
  <2>3. MeshSides(n) = (UNION {SidesIn(n, t) : t \in 0 .. (2 * c - 1)}) \cup (SidesIn(n, 2 * c) \cup SidesIn(n, 2 * c + 1))
    BY <2>1, <2>2 DEF MeshSides
  <2>4. MeshSides(m) = UNION {SidesIn(n, t) : t \in 0 .. (2 * c - 1)}
    BY <1>8, <2>1 DEF MeshSides
  <2> QED BY <1>10, <2>3, <2>4
<1>12. MeshSides(n) = UNION {SquareSides(d[1], r, d[2], d[3]) : d \in E}
  BY <1>6, <1>11 DEF Generated
<1>13. MeshOf(n, S)
  BY <1>1 DEF SquareAdded
<1>14. Generated(n, S, E, r)
  BY <1>2, <1>3, <1>5, <1>12, <1>13 DEF Generated
<1> QED BY <1>n, <1>14 DEF E

(* Which squares the loops have done: face f at (i, j). *)
Before(i, j) == i < row \/ (i = row /\ j < col)

Visited(f, i, j) ==
    \/ squarePc = "built"
    \/ pass = PassOf(f) /\ Before(i, j)
    \/ pass = "topBottom" /\ PassOf(f) = "frontBack" /\ i <= row
    \/ pass = "frontBack" /\ PassOf(f) = "topBottom" /\ i < row
    \/ pass = "leftRight" /\ PassOf(f) \in {"frontBack", "topBottom"}

PlacesOn(f, r) == {<<f, i, j>> : i \in 0 .. (r - 1), j \in 0 .. (r - 1)}
AllPlaces(k, r) == UNION {PlacesOn(f, r) : f \in FacesOf(k)}
Done == {d \in AllPlaces(squareKind, squareResolution) : Visited(d[1], d[2], d[3])}

Placed(k, r) == {VertexAt(f, r, i, j) : f \in FacesOf(k), i \in 0 .. r, j \in 0 .. r}

SquaresInv ==
    /\ LoopInv
    /\ Generated(squareMesh, Placed(squareKind, squareResolution), Done, squareResolution)

(* The faces of a round. *)
Round == IF pass = "square" THEN {squareKind} ELSE {FirstFace, SecondFace}

(* A round of the loop adds one square, or one on each of two opposite faces
   (cube.cpp:28-29, 153-154, 282-283). *)
LEMMA RoundFaces ==
  ASSUME LoopInv
  PROVE  /\ \A f : f \in Round <=> f \in FacesOf(squareKind) /\ PassOf(f) = pass
         /\ pass # "square" => FirstFace # SecondFace
<1> USE DEF LoopInv, FacesOf, CubeFaces, PassOf, Round, FirstFace, SecondFace
<1>1. CASE pass = "frontBack"
  BY <1>1
<1>2. CASE pass = "topBottom"
  BY <1>2
<1>3. CASE pass = "leftRight"
  BY <1>3
<1>4. CASE pass = "square"
  BY <1>4
<1> QED BY <1>1, <1>2, <1>3, <1>4

(* The loops go round by round and miss no square (cube.cpp:23-28, 153, 277-282). *)
LEMMA LoopStep ==
  ASSUME LoopInv, squarePc = "loop", Squares!Advance, UNCHANGED <<squareKind, squareResolution>>
  PROVE  /\ LoopInv'
         /\ \A f \in FacesOf(squareKind), i, j \in 0 .. (squareResolution - 1) :
               Visited(f, i, j)' <=> Visited(f, i, j) \/ (f \in Round /\ i = row /\ j = col)
<1>0. \A f \in FacesOf(squareKind) :
         /\ squareKind = "cube" => PassOf(f) \in {"frontBack", "topBottom", "leftRight"}
         /\ squareKind # "cube" => PassOf(f) = "square"
         /\ f \in Round <=> PassOf(f) = pass
  <2>1. \A f \in FacesOf(squareKind) : f \in Round <=> PassOf(f) = pass
    BY RoundFaces
  <2>2. \A f \in FacesOf(squareKind) :
         /\ squareKind = "cube" => PassOf(f) \in {"frontBack", "topBottom", "leftRight"}
         /\ squareKind # "cube" => PassOf(f) = "square"
    BY DEF FacesOf, CubeFaces, PassOf, LoopInv
  <2> QED BY <2>1, <2>2
<1>1. LoopInv'
  BY DEF LoopInv, Squares!Advance, Squares!LastColumn, Squares!LastRow
<1> SUFFICES ASSUME NEW f \in FacesOf(squareKind), NEW i \in 0 .. (squareResolution - 1), NEW j \in 0 .. (squareResolution - 1)
             PROVE  Visited(f, i, j)' <=> Visited(f, i, j) \/ (f \in Round /\ i = row /\ j = col)
  BY <1>1
<1>2. PICK p : p = PassOf(f)
  OBVIOUS
<1>3. /\ squareKind = "cube" => p \in {"frontBack", "topBottom", "leftRight"}
      /\ squareKind # "cube" => p = "square"
      /\ f \in Round <=> p = pass
  BY <1>0, <1>2
<1> USE DEF LoopInv, Squares!Advance, Squares!LastColumn, Squares!LastRow, Visited, Before
<1>4. CASE col + 1 # squareResolution
  BY <1>2, <1>3, <1>4
<1>5. CASE col + 1 = squareResolution /\ pass = "frontBack"
  BY <1>2, <1>3, <1>5
<1>6. CASE col + 1 = squareResolution /\ pass = "topBottom"
  BY <1>2, <1>3, <1>6
<1>7. CASE col + 1 = squareResolution /\ pass \in {"square", "leftRight"}
  BY <1>2, <1>3, <1>7
<1> QED BY <1>4, <1>5, <1>6, <1>7

(* Every face takes its four corners from where it is: the new ones and those the
   earlier squares and passes left (quad.cpp:79-87, cube.cpp:81-89, 394-402). *)
LEMMA CornersPlaced ==
  ASSUME LoopInv, NEW f \in FacesOf(squareKind)
  PROVE  CornersIn(f, squareResolution, row, col, Placed(squareKind, squareResolution))
<1> SUFFICES ASSUME NEW n \in 1 .. 4
             PROVE  VertexAt(f, squareResolution, row + Down(n), col + Along(n)) \in Placed(squareKind, squareResolution)
  BY DEF CornersIn, CornerVertex
<1>1. row + Down(n) \in 0 .. squareResolution /\ col + Along(n) \in 0 .. squareResolution
  BY DEF LoopInv, Down, Along
<1> QED BY <1>1 DEF Placed

(* A round of the loops keeps the invariant (quad.cpp:23-89, terrain.cpp:24-90,
   cube.cpp:23-404). *)
LEMMA SquaresStep ==
  ASSUME SquaresInv, Squares!GenerateSquares
  PROVE  SquaresInv'
<1> DEFINE k == squareKind
           r == squareResolution
           S == Placed(k, r)
           here == {<<f, row, col>> : f \in Round}
<1>1. /\ LoopInv /\ squarePc = "loop" /\ Squares!Advance /\ UNCHANGED <<squareKind, squareResolution>>
      /\ squareMesh' = Squares!AddSquares(squareMesh, Squares!Squares)
  BY DEF SquaresInv, Squares!GenerateSquares
<1>2. LoopInv'
  BY <1>1, LoopStep
<1>3. \A f \in FacesOf(k), i, j \in 0 .. (r - 1) :
               Visited(f, i, j)' <=> Visited(f, i, j) \/ (f \in Round /\ i = row /\ j = col)
  BY <1>1, LoopStep
<1>4. row \in 0 .. (r - 1) /\ col \in 0 .. (r - 1)
  BY <1>1 DEF LoopInv
<1>5. \A f \in Round : f \in FacesOf(k) /\ PassOf(f) = pass
  BY <1>1, RoundFaces
<1>6. Done' = Done \cup here
  <2>1. ASSUME NEW f \in FacesOf(k), NEW i \in 0 .. (r - 1), NEW j \in 0 .. (r - 1)
        PROVE  <<f, i, j>> \in Done' <=> <<f, i, j>> \in Done \cup here
    <3>1. <<f, i, j>> \in AllPlaces(k, r)
      BY DEF AllPlaces, PlacesOn
    <3>2. <<f, i, j>> \in Done <=> Visited(f, i, j)
      BY <3>1 DEF Done
    <3>3. <<f, i, j>> \in Done' <=> Visited(f, i, j)'
      BY <3>1, <1>1 DEF Done
    <3>4. <<f, i, j>> \in here <=> f \in Round /\ i = row /\ j = col
      OBVIOUS
    <3> QED BY <1>3, <3>2, <3>3, <3>4
  <2>2. \A d \in AllPlaces(k, r) : \E f \in FacesOf(k), i \in 0 .. (r - 1), j \in 0 .. (r - 1) : d = <<f, i, j>>
    BY DEF AllPlaces, PlacesOn
  <2>3. Done' \subseteq AllPlaces(k, r) /\ Done \subseteq AllPlaces(k, r)
    BY <1>1 DEF Done
  <2>4. here \subseteq AllPlaces(k, r)
    BY <1>4, <1>5 DEF AllPlaces, PlacesOn
  <2> HIDE DEF here, k, r
  <2>5. \A d \in AllPlaces(k, r) : d \in Done' <=> d \in Done \cup here
    BY <2>1, <2>2
  <2> QED BY <2>3, <2>4, <2>5
<1>7. ASSUME NEW f \in Round PROVE <<f, row, col>> \notin Done
  <2>1. ~ Visited(f, row, col)
    BY <1>1, <1>4, <1>5 DEF Visited, Before
  <2> QED BY <2>1 DEF Done
<1>8. \A f \in Round : CornersIn(f, r, row, col, S)
  BY <1>1, <1>5, CornersPlaced
<1>9. Generated(squareMesh, S, Done, r)
  BY DEF SquaresInv
<1>10. Generated(squareMesh', S, Done \cup here, r)
  <2>1. CASE pass = "square"
    <3>1. squareMesh' = Squares!AddSquare(squareMesh, FaceOf(k, r, row, col))
      <4>1. Squares!Squares = <<FaceOf(k, r, row, col)>>
        BY <1>1, <2>1, SquaresAre
      <4> QED BY <1>1, <4>1 DEF Squares!AddSquares
    <3>2. k \in Round /\ here = {<<k, row, col>>}
      BY <2>1 DEF Round
    <3> HIDE DEF here
    <3>3. Generated(Squares!AddSquare(squareMesh, FaceOf(k, r, row, col)), S, Done \cup {<<k, row, col>>}, r)
      BY <1>1, <1>7, <1>8, <1>9, <3>2, AddSquareGenerates
    <3> QED BY <3>1, <3>2, <3>3
  <2>2. CASE pass # "square"
    <3> DEFINE f == FirstFace
               g == SecondFace
    <3>1. squareMesh' = Squares!AddSquare(Squares!AddSquare(squareMesh, FaceOf(f, r, row, col)), FaceOf(g, r, row, col))
      <4>1. Squares!Squares = <<FaceOf(f, r, row, col), FaceOf(g, r, row, col)>>
        BY <1>1, <2>2, SquaresAre
      <4> HIDE DEF f, g
      <4> QED BY <1>1, <4>1 DEF Squares!AddSquares
    <3>2. f \in Round /\ g \in Round /\ here = {<<f, row, col>>} \cup {<<g, row, col>>} /\ f # g
      BY <1>1, <2>2, RoundFaces DEF Round
    <3> HIDE DEF here, f, g
    <3>3. PICK m : m = Squares!AddSquare(squareMesh, FaceOf(f, r, row, col))
      OBVIOUS
    <3>4. Generated(m, S, Done \cup {<<f, row, col>>}, r)
      BY <1>1, <1>7, <1>8, <1>9, <3>2, <3>3, AddSquareGenerates
    <3>5. <<g, row, col>> \notin Done \cup {<<f, row, col>>}
      BY <1>7, <3>2
    <3>6. Generated(Squares!AddSquare(m, FaceOf(g, r, row, col)), S,
                    (Done \cup {<<f, row, col>>}) \cup {<<g, row, col>>}, r)
      BY <1>1, <1>8, <3>2, <3>4, <3>5, AddSquareGenerates
    <3>7. (Done \cup {<<f, row, col>>}) \cup {<<g, row, col>>} = Done \cup here
      BY <3>2
    <3> QED BY <3>1, <3>3, <3>6, <3>7
  <2> QED BY <2>1, <2>2
<1>11. Generated(squareMesh', Placed(squareKind', squareResolution'), Done', squareResolution')
  BY <1>1, <1>6, <1>10
<1>12. Generated(squareMesh, Placed(squareKind, squareResolution), Done, squareResolution)'
  BY <1>11
<1> QED BY <1>2, <1>12 DEF SquaresInv

(* The loops start with an empty mesh (quad.cpp:15-23). *)
LEMMA SquaresStart ==
  ASSUME Squares!Init
  PROVE  SquaresInv
<1>1. /\ squareKind \in {"quad", "terrain", "cube"} /\ squareResolution \in Nat \ {0}
      /\ pass = IF squareKind = "cube" THEN "frontBack" ELSE "square"
      /\ row = 0 /\ col = 0 /\ squarePc = "loop"
      /\ squareMesh = [vertices |-> <<>>, indices |-> <<>>, uniqueVertices |-> [v \in {} |-> 0]]
  BY GeneratorAssumption DEF Squares!Init, Squares!NoMesh
<1>2. LoopInv
  BY <1>1 DEF LoopInv
<1>3. Done = {}
  <2> SUFFICES ASSUME NEW f \in FacesOf(squareKind), NEW i \in 0 .. (squareResolution - 1),
                      NEW j \in 0 .. (squareResolution - 1)
               PROVE  ~ Visited(f, i, j)
    BY DEF Done, AllPlaces, PlacesOn
  <2>1. ~ Before(i, j) /\ ~ i < row
    BY <1>1 DEF Before
  <2>2. pass \notin {"topBottom", "leftRight"}
    BY <1>1
  <2> QED BY <1>1, <2>1, <2>2 DEF Visited
<1>4. MeshOf(squareMesh, Placed(squareKind, squareResolution))
  BY <1>1 DEF MeshOf
<1>5. Cardinality({}) = 0 /\ IsFiniteSet({})
  BY FS_EmptySet
<1>6. MeshSides(squareMesh) = {}
  BY <1>1 DEF MeshSides
<1> QED BY <1>1, <1>2, <1>3, <1>4, <1>5, <1>6 DEF SquaresInv, Generated

TurnList(f) ==
    IF f \in {"back", "bottom", "right"}
    THEN <<<<2, 1>>, <<3, 2>>, <<1, 3>>, <<2, 3>>, <<4, 2>>, <<3, 4>>>>
    ELSE <<<<1, 2>>, <<2, 3>>, <<3, 1>>, <<3, 2>>, <<2, 4>>, <<4, 3>>>>

(* The six directed sides of a square, numbered. *)
LEMMA TurnsListed == \A f : Turns(f) = {TurnList(f)[t] : t \in 1 .. 6}
<1> TAKE f
<1>1. \A a : {a[t] : t \in 1 .. 6} = {a[1], a[2], a[3], a[4], a[5], a[6]}
  OBVIOUS
<1> QED BY <1>1 DEF Turns, TurnList

(* On one face, the ends of a side tell the square and the turn. *)
SidesTold(f, r) ==
    \A s, t \in 1 .. 6, h, i, j, k \in 0 .. (r - 1) :
        SideAt(f, r, h, j, TurnList(f)[s]) = SideAt(f, r, i, k, TurnList(f)[t]) => h = i /\ j = k /\ s = t

(* No directed side is twice on a face: squares that meet run along their common side in
   opposite directions (quad.cpp:79-87). *)
LEMMA SidesOfFaceDiffer ==
  ASSUME NEW r \in Nat \ {0}, NEW f \in {"quad", "terrain"} \cup CubeFaces
  PROVE  SidesTold(f, r)
<1> SUFFICES ASSUME NEW s \in 1 .. 6, NEW t \in 1 .. 6, NEW h \in 0 .. (r - 1), NEW i \in 0 .. (r - 1),
                    NEW j \in 0 .. (r - 1), NEW k \in 0 .. (r - 1),
                    SideAt(f, r, h, j, TurnList(f)[s]) = SideAt(f, r, i, k, TurnList(f)[t])
             PROVE  h = i /\ j = k /\ s = t
  BY DEF SidesTold
<1>1. \A n \in 1 .. 4 : Down(n) \in {0, 1} /\ Along(n) \in {0, 1}
  BY DEF Down, Along
<1>2. \A u \in 1 .. 6 : TurnList(f)[u][1] \in 1 .. 4 /\ TurnList(f)[u][2] \in 1 .. 4
  BY DEF TurnList
<1>3. \A a, b, c, d \in Nat : Point(f, r, a, b) = Point(f, r, c, d) => a = c /\ b = d
  BY DEF Point, CubeFaces
<1>4. /\ CornerPoint(f, r, h, j, TurnList(f)[s][1]) = CornerPoint(f, r, i, k, TurnList(f)[t][1])
      /\ CornerPoint(f, r, h, j, TurnList(f)[s][2]) = CornerPoint(f, r, i, k, TurnList(f)[t][2])
  BY DEF SideAt
<1>5. ASSUME NEW m \in 1 .. 4, NEW n \in 1 .. 4, CornerPoint(f, r, h, j, m) = CornerPoint(f, r, i, k, n)
      PROVE  h + Down(m) = i + Down(n) /\ j + Along(m) = k + Along(n)
  <2>1. h + Down(m) \in Nat /\ i + Down(n) \in Nat /\ j + Along(m) \in Nat /\ k + Along(n) \in Nat
    BY <1>1
  <2> QED BY <1>3, <1>5, <2>1 DEF CornerPoint
<1>6. /\ h + Down(TurnList(f)[s][1]) = i + Down(TurnList(f)[t][1])
      /\ h + Down(TurnList(f)[s][2]) = i + Down(TurnList(f)[t][2])
      /\ j + Along(TurnList(f)[s][1]) = k + Along(TurnList(f)[t][1])
      /\ j + Along(TurnList(f)[s][2]) = k + Along(TurnList(f)[t][2])
  BY <1>2, <1>4, <1>5
<1> QED BY <1>6 DEF TurnList, Down, Along

(* No side of the cube belongs to squares of two faces. *)
SidesDiffer(f, g, r) ==
    \A s, t \in 1 .. 6, h, i, j, k \in 0 .. (r - 1) :
        SideAt(f, r, h, j, TurnList(f)[s]) # SideAt(g, r, i, k, TurnList(g)[t])

(* No directed side is on two faces of the cube (cube.cpp:81-149, 206-273, 335-402). *)
LEMMA SidesOfFacesDiffer ==
  ASSUME NEW r \in Nat \ {0}, NEW f \in CubeFaces, NEW g \in CubeFaces, f # g
  PROVE  SidesDiffer(f, g, r)
<1>1. SidesDiffer("front", "back", r)
  BY DEF SidesDiffer, SideAt, CornerPoint, Point, TurnList, Down, Along
<1>2. SidesDiffer("front", "top", r)
  BY DEF SidesDiffer, SideAt, CornerPoint, Point, TurnList, Down, Along
<1>3. SidesDiffer("front", "bottom", r)
  BY DEF SidesDiffer, SideAt, CornerPoint, Point, TurnList, Down, Along
<1>4. SidesDiffer("front", "left", r)
  BY DEF SidesDiffer, SideAt, CornerPoint, Point, TurnList, Down, Along
<1>5. SidesDiffer("front", "right", r)
  BY DEF SidesDiffer, SideAt, CornerPoint, Point, TurnList, Down, Along
<1>6. SidesDiffer("back", "top", r)
  BY DEF SidesDiffer, SideAt, CornerPoint, Point, TurnList, Down, Along
<1>7. SidesDiffer("back", "bottom", r)
  BY DEF SidesDiffer, SideAt, CornerPoint, Point, TurnList, Down, Along
<1>8. SidesDiffer("back", "left", r)
  BY DEF SidesDiffer, SideAt, CornerPoint, Point, TurnList, Down, Along
<1>9. SidesDiffer("back", "right", r)
  BY DEF SidesDiffer, SideAt, CornerPoint, Point, TurnList, Down, Along
<1>10. SidesDiffer("top", "bottom", r)
  BY DEF SidesDiffer, SideAt, CornerPoint, Point, TurnList, Down, Along
<1>11. SidesDiffer("top", "left", r)
  BY DEF SidesDiffer, SideAt, CornerPoint, Point, TurnList, Down, Along
<1>12. SidesDiffer("top", "right", r)
  BY DEF SidesDiffer, SideAt, CornerPoint, Point, TurnList, Down, Along
<1>13. SidesDiffer("bottom", "left", r)
  BY DEF SidesDiffer, SideAt, CornerPoint, Point, TurnList, Down, Along
<1>14. SidesDiffer("bottom", "right", r)
  BY DEF SidesDiffer, SideAt, CornerPoint, Point, TurnList, Down, Along
<1>15. SidesDiffer("left", "right", r)
  BY DEF SidesDiffer, SideAt, CornerPoint, Point, TurnList, Down, Along
<1>16. \A a, b : SidesDiffer(a, b, r) => SidesDiffer(b, a, r)
  BY DEF SidesDiffer
<1> QED
  BY <1>1, <1>2, <1>3, <1>4, <1>5, <1>6, <1>7, <1>8, <1>9, <1>10, <1>11, <1>12, <1>13, <1>14, <1>15, <1>16 DEF CubeFaces

(* An interval of integers has as many members as it is long. *)
LEMMA IntervalCounted ==
  \A a, b \in Int : a <= b => IsFiniteSet(a .. b) /\ Cardinality(a .. b) = b - a + 1
<1> SUFFICES ASSUME NEW a \in Int, NEW b \in Int, a <= b
             PROVE  IsFiniteSet(a .. b) /\ Cardinality(a .. b) = b - a + 1
  OBVIOUS
<1>1. IsFiniteSet(a .. b) /\ Cardinality(a .. b) = IF a > b THEN 0 ELSE b - a + 1
  BY FS_Interval
<1> QED BY <1>1

(* There are n numbers from 1 to n. *)
LEMMA CountTo == \A n \in Nat : IsFiniteSet(1 .. n) /\ Cardinality(1 .. n) = n
<1> TAKE n \in Nat
<1>1. IsFiniteSet(1 .. n) /\ Cardinality(1 .. n) = IF 1 > n THEN 0 ELSE n - 1 + 1
  BY FS_Interval
<1> QED BY <1>1

Injects(g, A) == \A c, d \in A : g[c] = g[d] => c = d

(* g takes n values on A. *)
Counted(g, A, n) == IsFiniteSet({g[c] : c \in A}) /\ Cardinality({g[c] : c \in A}) = n

(* An injective function takes as many values as it has arguments. *)
LEMMA ValuesCounted ==
  ASSUME NEW A, IsFiniteSet(A), NEW g, Injects(g, A)
  PROVE  Counted(g, A, Cardinality(A))
<1> DEFINE T == {g[c] : c \in A}
           h == [c \in A |-> g[c]]
<1>1. h \in Bijection(A, T)
  <2>1. h \in [A -> T]
    OBVIOUS
  <2>2. \A c, d \in A : h[c] = h[d] => c = d
    BY DEF Injects
  <2>3. \A u \in T : \E c \in A : h[c] = u
    OBVIOUS
  <2> HIDE DEF h, T
  <2> QED BY <2>1, <2>2, <2>3 DEF Bijection, Injection, Surjection, IsInjective
<1>2. ExistsBijection(A, T)
  BY <1>1 DEF ExistsBijection
<1> HIDE DEF T
<1>3. IsFiniteSet(T) /\ Cardinality(T) = Cardinality(A)
  BY <1>2, FS_Bijection
<1> QED BY <1>3 DEF T, Counted

(* The same for a function of two arguments. *)
LEMMA PairsCounted ==
  ASSUME NEW A, NEW B, IsFiniteSet(A), IsFiniteSet(B), NEW g, Injects(g, A \X B)
  PROVE  Counted(g, A \X B, Cardinality(A) * Cardinality(B))
<1> DEFINE C == A \X B
<1>1. IsFiniteSet(C) /\ Cardinality(C) = Cardinality(A) * Cardinality(B)
  BY FS_Product
<1>2. Injects(g, C)
  OBVIOUS
<1> HIDE DEF C
<1>3. Counted(g, C, Cardinality(C))
  BY <1>1, <1>2, ValuesCounted
<1>4. Counted(g, C, Cardinality(A) * Cardinality(B))
  BY <1>1, <1>3
<1> QED BY <1>4 DEF C

FaceKinds == {"quad", "terrain", "cube"}

(* No directed side occurs twice. *)
LEMMA SidesCounted ==
  ASSUME NEW k \in FaceKinds, NEW r \in Nat \ {0}, NEW D \in SUBSET AllPlaces(k, r), IsFiniteSet(D)
  PROVE  Cardinality(UNION {SquareSides(d[1], r, d[2], d[3]) : d \in D}) = 6 * Cardinality(D)
<1> DEFINE g == [c \in D \X (1 .. 6) |-> SideAt(c[1][1], r, c[1][2], c[1][3], TurnList(c[1][1])[c[2]])]
<1>1. UNION {SquareSides(d[1], r, d[2], d[3]) : d \in D} = {g[c] : c \in D \X (1 .. 6)}
  <2>1. \A d \in D : SquareSides(d[1], r, d[2], d[3]) = {g[<<d, t>>] : t \in 1 .. 6}
    <3> TAKE d \in D
    <3>1. SquareSides(d[1], r, d[2], d[3]) = {SideAt(d[1], r, d[2], d[3], TurnList(d[1])[t]) : t \in 1 .. 6}
      BY TurnsListed DEF SquareSides
    <3>2. \A t \in 1 .. 6 : g[<<d, t>>] = SideAt(d[1], r, d[2], d[3], TurnList(d[1])[t])
      OBVIOUS
    <3> QED BY <3>1, <3>2
  <2> HIDE DEF g
  <2>2. ASSUME NEW s PROVE (\E d \in D : s \in SquareSides(d[1], r, d[2], d[3])) <=> s \in {g[c] : c \in D \X (1 .. 6)}
    <3>1. (\E d \in D : s \in SquareSides(d[1], r, d[2], d[3])) <=> \E d \in D : s \in {g[<<d, t>>] : t \in 1 .. 6}
      BY <2>1
    <3>2. (\E d \in D : s \in {g[<<d, t>>] : t \in 1 .. 6}) <=> \E d \in D, t \in 1 .. 6 : s = g[<<d, t>>]
      OBVIOUS
    <3>3. s \in {g[c] : c \in D \X (1 .. 6)} <=> \E d \in D, t \in 1 .. 6 : s = g[<<d, t>>]
      <4>1. \A c \in D \X (1 .. 6) : c[1] \in D /\ c[2] \in 1 .. 6 /\ c = <<c[1], c[2]>>
        OBVIOUS
      <4>2. \A d \in D, t \in 1 .. 6 : <<d, t>> \in D \X (1 .. 6)
        OBVIOUS
      <4>3. ASSUME NEW c \in D \X (1 .. 6), s = g[c] PROVE \E d \in D, t \in 1 .. 6 : s = g[<<d, t>>]
        <5>1. s = g[<<c[1], c[2]>>] /\ c[1] \in D /\ c[2] \in 1 .. 6
          BY <4>1, <4>3
        <5> QED BY <5>1
      <4>4. ASSUME NEW d \in D, NEW t \in 1 .. 6, s = g[<<d, t>>] PROVE s \in {g[c] : c \in D \X (1 .. 6)}
        BY <4>2, <4>4
      <4>5. s \in {g[c] : c \in D \X (1 .. 6)} => \E c \in D \X (1 .. 6) : s = g[c]
        OBVIOUS
      <4> QED BY <4>3, <4>4, <4>5
    <3> QED BY <3>1, <3>2, <3>3
  <2> QED BY <2>2
<1>2. \A d \in D : d[1] \in FacesOf(k) /\ d[2] \in 0 .. (r - 1) /\ d[3] \in 0 .. (r - 1) /\ d = <<d[1], d[2], d[3]>>
  <2> TAKE d \in D
  <2>1. PICK f \in FacesOf(k) : d \in PlacesOn(f, r)
    BY DEF AllPlaces
  <2> QED BY <2>1 DEF PlacesOn
<1>3. ASSUME NEW d \in D, NEW e \in D, NEW s \in 1 .. 6, NEW t \in 1 .. 6,
             SideAt(d[1], r, d[2], d[3], TurnList(d[1])[s]) = SideAt(e[1], r, e[2], e[3], TurnList(e[1])[t])
      PROVE  d = e /\ s = t
  <2>1. CASE d[1] = e[1]
    <3>1. d[1] \in {"quad", "terrain"} \cup CubeFaces
      BY <1>2 DEF FacesOf, FaceKinds
    <3>2. SidesTold(d[1], r)
      BY <3>1, SidesOfFaceDiffer
    <3>3. d[2] = e[2] /\ d[3] = e[3] /\ s = t
      BY <1>2, <1>3, <2>1, <3>2 DEF SidesTold
    <3> QED BY <1>2, <2>1, <3>3
  <2>2. CASE d[1] # e[1]
    <3>1. d[1] \in CubeFaces /\ e[1] \in CubeFaces
      BY <1>2, <2>2 DEF FacesOf
    <3>2. SidesDiffer(d[1], e[1], r)
      BY <2>2, <3>1, SidesOfFacesDiffer
    <3> QED BY <1>2, <1>3, <3>2 DEF SidesDiffer
  <2> QED BY <2>1, <2>2
<1>4. \A c, d \in D \X (1 .. 6) : g[c] = g[d] => c = d
  <2> TAKE c \in D \X (1 .. 6), d \in D \X (1 .. 6)
  <2> HAVE g[c] = g[d]
  <2>1. c[1] = d[1] /\ c[2] = d[2]
    BY <1>3
  <2> QED BY <2>1
<1> HIDE DEF g
<1>5. IsFiniteSet(1 .. 6) /\ Cardinality(1 .. 6) = 6
  BY CountTo
<1>6. Cardinality({g[c] : c \in D \X (1 .. 6)}) = Cardinality(D) * Cardinality(1 .. 6)
  <2>1. Injects(g, D \X (1 .. 6))
    BY <1>4 DEF Injects
  <2>2. Counted(g, D \X (1 .. 6), Cardinality(D) * Cardinality(1 .. 6))
    BY <1>5, <2>1, PairsCounted
  <2> QED BY <2>2 DEF Counted
<1>7. Cardinality(D) * 6 = 6 * Cardinality(D)
  BY FS_CardinalityType
<1> QED BY <1>1, <1>5, <1>6, <1>7

Reverse(s) == <<s[2], s[1]>>
FaceSide(f, r, i, j, t) == SideAt(f, r, i, j, TurnList(f)[t])

(* The other side of side t of the square at (i, j), within the face. *)
LEMMA ReverseOnFace ==
  ASSUME NEW f, NEW r, NEW i \in Int, NEW j \in Int
  PROVE  /\ Reverse(FaceSide(f, r, i, j, 1)) = FaceSide(f, r, i, j - 1, 6)
         /\ Reverse(FaceSide(f, r, i, j, 2)) = FaceSide(f, r, i, j, 4)
         /\ Reverse(FaceSide(f, r, i, j, 3)) = FaceSide(f, r, i - 1, j, 5)
         /\ Reverse(FaceSide(f, r, i, j, 4)) = FaceSide(f, r, i, j, 2)
         /\ Reverse(FaceSide(f, r, i, j, 5)) = FaceSide(f, r, i + 1, j, 3)
         /\ Reverse(FaceSide(f, r, i, j, 6)) = FaceSide(f, r, i, j + 1, 1)
BY DEF Reverse, FaceSide, SideAt, CornerPoint, TurnList, Down, Along

(* The twelve edges of the cube. *)
LEMMA ReverseAcross ==
  ASSUME NEW r \in Nat \ {0}, NEW k \in 0 .. (r - 1)
  PROVE  /\ Reverse(FaceSide("front", r, k, 0, 1)) = FaceSide("bottom", r, k, 0, 1)
         /\ Reverse(FaceSide("front", r, k, r - 1, 6)) = FaceSide("top", r, k, 0, 1)
         /\ Reverse(FaceSide("front", r, 0, k, 3)) = FaceSide("left", r, k, 0, 1)
         /\ Reverse(FaceSide("front", r, r - 1, k, 5)) = FaceSide("right", r, k, 0, 1)
         /\ Reverse(FaceSide("back", r, k, 0, 1)) = FaceSide("bottom", r, k, r - 1, 6)
         /\ Reverse(FaceSide("back", r, k, r - 1, 6)) = FaceSide("top", r, k, r - 1, 6)
         /\ Reverse(FaceSide("back", r, 0, k, 3)) = FaceSide("left", r, k, r - 1, 6)
         /\ Reverse(FaceSide("back", r, r - 1, k, 5)) = FaceSide("right", r, k, r - 1, 6)
         /\ Reverse(FaceSide("top", r, 0, k, 3)) = FaceSide("left", r, r - 1, k, 5)
         /\ Reverse(FaceSide("top", r, r - 1, k, 5)) = FaceSide("right", r, r - 1, k, 5)
         /\ Reverse(FaceSide("bottom", r, 0, k, 3)) = FaceSide("left", r, 0, k, 3)
         /\ Reverse(FaceSide("bottom", r, r - 1, k, 5)) = FaceSide("right", r, 0, k, 3)
BY SMTT(30) DEF Reverse, FaceSide, SideAt, CornerPoint, Point, TurnList, Down, Along

(* The other side of a side is that of another square, or is missing at a border. *)
SidesOn(f, r) == {FaceSide(f, r, i, j, t) : i \in 0 .. (r - 1), j \in 0 .. (r - 1), t \in 1 .. 6}

Edge(f, r, i, j, t) ==
    \/ t = 1 /\ j = 0
    \/ t = 6 /\ j = r - 1
    \/ t = 3 /\ i = 0
    \/ t = 5 /\ i = r - 1

(* A side that is not on the edge of its face is run along the other way by the next
   square (quad.cpp:79-87). *)
LEMMA ReversesInside ==
  ASSUME NEW f, NEW r \in Nat \ {0}, NEW i \in 0 .. (r - 1), NEW j \in 0 .. (r - 1), NEW t \in 1 .. 6, ~ Edge(f, r, i, j, t)
  PROVE  Reverse(FaceSide(f, r, i, j, t)) \in SidesOn(f, r)
<1>0. \A h, k \in 0 .. (r - 1), u \in 1 .. 6 : FaceSide(f, r, h, k, u) \in SidesOn(f, r)
  BY DEF SidesOn
<1>1. CASE t = 1
  <2>1. j - 1 \in 0 .. (r - 1)
    BY <1>1 DEF Edge
  <2> QED BY <1>0, <1>1, <2>1, ReverseOnFace
<1>2. CASE t = 2
  BY <1>0, <1>2, ReverseOnFace
<1>3. CASE t = 3
  <2>1. i - 1 \in 0 .. (r - 1)
    BY <1>3 DEF Edge
  <2> QED BY <1>0, <1>3, <2>1, ReverseOnFace
<1>4. CASE t = 4
  BY <1>0, <1>4, ReverseOnFace
<1>5. CASE t = 5
  <2>1. i + 1 \in 0 .. (r - 1)
    BY <1>5 DEF Edge
  <2> QED BY <1>0, <1>5, <2>1, ReverseOnFace
<1>6. CASE t = 6
  <2>1. j + 1 \in 0 .. (r - 1)
    BY <1>6 DEF Edge
  <2> QED BY <1>0, <1>6, <2>1, ReverseOnFace
<1> QED BY <1>1, <1>2, <1>3, <1>4, <1>5, <1>6

(* A side on the edge of a face of the cube is run along the other way by a
   neighbouring face (cube.cpp:81-149, 206-273, 335-402). *)
LEMMA ReversesAround ==
  ASSUME NEW f \in CubeFaces, NEW r \in Nat \ {0}, NEW i \in 0 .. (r - 1), NEW j \in 0 .. (r - 1), NEW t \in 1 .. 6, Edge(f, r, i, j, t)
  PROVE  \E g \in CubeFaces : Reverse(FaceSide(f, r, i, j, t)) \in SidesOn(g, r)
<1>0. \A g, h, k, u : h \in 0 .. (r - 1) /\ k \in 0 .. (r - 1) /\ u \in 1 .. 6 => FaceSide(g, r, h, k, u) \in SidesOn(g, r)
  BY DEF SidesOn
<1>1. \A g, h, k, u : Reverse(Reverse(FaceSide(g, r, h, k, u))) = FaceSide(g, r, h, k, u)
  BY DEF Reverse, FaceSide, SideAt
<1>2. 0 \in 0 .. (r - 1) /\ r - 1 \in 0 .. (r - 1)
  OBVIOUS
<1>3. CASE f = "front"
  <2>1. CASE t = 1 /\ j = 0
    <3>1. Reverse(FaceSide("front", r, i, 0, 1)) = FaceSide("bottom", r, i, 0, 1)
      BY ReverseAcross
    <3> QED BY <1>0, <1>2, <1>3, <2>1, <3>1 DEF CubeFaces
  <2>2. CASE t = 6 /\ j = r - 1
    <3>1. Reverse(FaceSide("front", r, i, r - 1, 6)) = FaceSide("top", r, i, 0, 1)
      BY ReverseAcross
    <3> QED BY <1>0, <1>2, <1>3, <2>2, <3>1 DEF CubeFaces
  <2>3. CASE t = 3 /\ i = 0
    <3>1. Reverse(FaceSide("front", r, 0, j, 3)) = FaceSide("left", r, j, 0, 1)
      BY ReverseAcross
    <3> QED BY <1>0, <1>2, <1>3, <2>3, <3>1 DEF CubeFaces
  <2>4. CASE t = 5 /\ i = r - 1
    <3>1. Reverse(FaceSide("front", r, r - 1, j, 5)) = FaceSide("right", r, j, 0, 1)
      BY ReverseAcross
    <3> QED BY <1>0, <1>2, <1>3, <2>4, <3>1 DEF CubeFaces
  <2> QED BY <2>1, <2>2, <2>3, <2>4 DEF Edge
<1>4. CASE f = "back"
  <2>1. CASE t = 1 /\ j = 0
    <3>1. Reverse(FaceSide("back", r, i, 0, 1)) = FaceSide("bottom", r, i, r - 1, 6)
      BY ReverseAcross
    <3> QED BY <1>0, <1>2, <1>4, <2>1, <3>1 DEF CubeFaces
  <2>2. CASE t = 6 /\ j = r - 1
    <3>1. Reverse(FaceSide("back", r, i, r - 1, 6)) = FaceSide("top", r, i, r - 1, 6)
      BY ReverseAcross
    <3> QED BY <1>0, <1>2, <1>4, <2>2, <3>1 DEF CubeFaces
  <2>3. CASE t = 3 /\ i = 0
    <3>1. Reverse(FaceSide("back", r, 0, j, 3)) = FaceSide("left", r, j, r - 1, 6)
      BY ReverseAcross
    <3> QED BY <1>0, <1>2, <1>4, <2>3, <3>1 DEF CubeFaces
  <2>4. CASE t = 5 /\ i = r - 1
    <3>1. Reverse(FaceSide("back", r, r - 1, j, 5)) = FaceSide("right", r, j, r - 1, 6)
      BY ReverseAcross
    <3> QED BY <1>0, <1>2, <1>4, <2>4, <3>1 DEF CubeFaces
  <2> QED BY <2>1, <2>2, <2>3, <2>4 DEF Edge
<1>5. CASE f = "top"
  <2>1. CASE t = 1 /\ j = 0
    <3>1. Reverse(FaceSide("top", r, i, 0, 1)) = FaceSide("front", r, i, r - 1, 6)
      BY <1>1, ReverseAcross
    <3> QED BY <1>0, <1>2, <1>5, <2>1, <3>1 DEF CubeFaces
  <2>2. CASE t = 6 /\ j = r - 1
    <3>1. Reverse(FaceSide("top", r, i, r - 1, 6)) = FaceSide("back", r, i, r - 1, 6)
      BY <1>1, ReverseAcross
    <3> QED BY <1>0, <1>2, <1>5, <2>2, <3>1 DEF CubeFaces
  <2>3. CASE t = 3 /\ i = 0
    <3>1. Reverse(FaceSide("top", r, 0, j, 3)) = FaceSide("left", r, r - 1, j, 5)
      BY ReverseAcross
    <3> QED BY <1>0, <1>2, <1>5, <2>3, <3>1 DEF CubeFaces
  <2>4. CASE t = 5 /\ i = r - 1
    <3>1. Reverse(FaceSide("top", r, r - 1, j, 5)) = FaceSide("right", r, r - 1, j, 5)
      BY ReverseAcross
    <3> QED BY <1>0, <1>2, <1>5, <2>4, <3>1 DEF CubeFaces
  <2> QED BY <2>1, <2>2, <2>3, <2>4 DEF Edge
<1>6. CASE f = "bottom"
  <2>1. CASE t = 1 /\ j = 0
    <3>1. Reverse(FaceSide("bottom", r, i, 0, 1)) = FaceSide("front", r, i, 0, 1)
      BY <1>1, ReverseAcross
    <3> QED BY <1>0, <1>2, <1>6, <2>1, <3>1 DEF CubeFaces
  <2>2. CASE t = 6 /\ j = r - 1
    <3>1. Reverse(FaceSide("bottom", r, i, r - 1, 6)) = FaceSide("back", r, i, 0, 1)
      BY <1>1, ReverseAcross
    <3> QED BY <1>0, <1>2, <1>6, <2>2, <3>1 DEF CubeFaces
  <2>3. CASE t = 3 /\ i = 0
    <3>1. Reverse(FaceSide("bottom", r, 0, j, 3)) = FaceSide("left", r, 0, j, 3)
      BY ReverseAcross
    <3> QED BY <1>0, <1>2, <1>6, <2>3, <3>1 DEF CubeFaces
  <2>4. CASE t = 5 /\ i = r - 1
    <3>1. Reverse(FaceSide("bottom", r, r - 1, j, 5)) = FaceSide("right", r, 0, j, 3)
      BY ReverseAcross
    <3> QED BY <1>0, <1>2, <1>6, <2>4, <3>1 DEF CubeFaces
  <2> QED BY <2>1, <2>2, <2>3, <2>4 DEF Edge
<1>7. CASE f = "left"
  <2>1. CASE t = 1 /\ j = 0
    <3>1. Reverse(FaceSide("left", r, i, 0, 1)) = FaceSide("front", r, 0, i, 3)
      BY <1>1, ReverseAcross
    <3> QED BY <1>0, <1>2, <1>7, <2>1, <3>1 DEF CubeFaces
  <2>2. CASE t = 6 /\ j = r - 1
    <3>1. Reverse(FaceSide("left", r, i, r - 1, 6)) = FaceSide("back", r, 0, i, 3)
      BY <1>1, ReverseAcross
    <3> QED BY <1>0, <1>2, <1>7, <2>2, <3>1 DEF CubeFaces
  <2>3. CASE t = 3 /\ i = 0
    <3>1. Reverse(FaceSide("left", r, 0, j, 3)) = FaceSide("bottom", r, 0, j, 3)
      BY <1>1, ReverseAcross
    <3> QED BY <1>0, <1>2, <1>7, <2>3, <3>1 DEF CubeFaces
  <2>4. CASE t = 5 /\ i = r - 1
    <3>1. Reverse(FaceSide("left", r, r - 1, j, 5)) = FaceSide("top", r, 0, j, 3)
      BY <1>1, ReverseAcross
    <3> QED BY <1>0, <1>2, <1>7, <2>4, <3>1 DEF CubeFaces
  <2> QED BY <2>1, <2>2, <2>3, <2>4 DEF Edge
<1>8. CASE f = "right"
  <2>1. CASE t = 1 /\ j = 0
    <3>1. Reverse(FaceSide("right", r, i, 0, 1)) = FaceSide("front", r, r - 1, i, 5)
      BY <1>1, ReverseAcross
    <3> QED BY <1>0, <1>2, <1>8, <2>1, <3>1 DEF CubeFaces
  <2>2. CASE t = 6 /\ j = r - 1
    <3>1. Reverse(FaceSide("right", r, i, r - 1, 6)) = FaceSide("back", r, r - 1, i, 5)
      BY <1>1, ReverseAcross
    <3> QED BY <1>0, <1>2, <1>8, <2>2, <3>1 DEF CubeFaces
  <2>3. CASE t = 3 /\ i = 0
    <3>1. Reverse(FaceSide("right", r, 0, j, 3)) = FaceSide("bottom", r, r - 1, j, 5)
      BY <1>1, ReverseAcross
    <3> QED BY <1>0, <1>2, <1>8, <2>3, <3>1 DEF CubeFaces
  <2>4. CASE t = 5 /\ i = r - 1
    <3>1. Reverse(FaceSide("right", r, r - 1, j, 5)) = FaceSide("top", r, r - 1, j, 5)
      BY <1>1, ReverseAcross
    <3> QED BY <1>0, <1>2, <1>8, <2>4, <3>1 DEF CubeFaces
  <2> QED BY <2>1, <2>2, <2>3, <2>4 DEF Edge
<1> QED BY <1>3, <1>4, <1>5, <1>6, <1>7, <1>8 DEF CubeFaces

(* The sides of a mesh are those of the squares of its passes (cube.cpp:20-405). *)
LEMMA SidesOfAll ==
  ASSUME NEW k, NEW r, NEW s
  PROVE  s \in UNION {SquareSides(d[1], r, d[2], d[3]) : d \in AllPlaces(k, r)}
           <=> \E f \in FacesOf(k) : s \in SidesOn(f, r)
<1>1. ASSUME NEW f \in FacesOf(k), NEW i \in 0 .. (r - 1), NEW j \in 0 .. (r - 1)
      PROVE  <<f, i, j>> \in AllPlaces(k, r)
             /\ (s \in SquareSides(f, r, i, j) <=> \E t \in 1 .. 6 : s = FaceSide(f, r, i, j, t))
  BY TurnsListed DEF AllPlaces, PlacesOn, SquareSides, FaceSide
<1>2. ASSUME NEW d \in AllPlaces(k, r)
      PROVE  \E f \in FacesOf(k), i \in 0 .. (r - 1), j \in 0 .. (r - 1) : d = <<f, i, j>>
  BY DEF AllPlaces, PlacesOn
<1>3. ASSUME NEW f \in FacesOf(k), s \in SidesOn(f, r)
      PROVE  s \in UNION {SquareSides(d[1], r, d[2], d[3]) : d \in AllPlaces(k, r)}
  <2>1. PICK i \in 0 .. (r - 1), j \in 0 .. (r - 1), t \in 1 .. 6 : s = FaceSide(f, r, i, j, t)
    BY <1>3 DEF SidesOn
  <2>2. <<f, i, j>> \in AllPlaces(k, r) /\ s \in SquareSides(f, r, i, j)
    BY <1>1, <2>1
  <2>3. PICK d \in AllPlaces(k, r) : d = <<f, i, j>>
    BY <2>2
  <2>4. s \in SquareSides(d[1], r, d[2], d[3])
    BY <2>2, <2>3
  <2> QED BY <2>4
<1>4. ASSUME NEW d \in AllPlaces(k, r), s \in SquareSides(d[1], r, d[2], d[3])
      PROVE  \E f \in FacesOf(k) : s \in SidesOn(f, r)
  <2>1. PICK f \in FacesOf(k), i \in 0 .. (r - 1), j \in 0 .. (r - 1) : d = <<f, i, j>>
    BY <1>2
  <2>2. PICK t \in 1 .. 6 : s = FaceSide(f, r, i, j, t)
    BY <1>1, <1>4, <2>1
  <2> QED BY <2>2 DEF SidesOn
<1> QED BY <1>3, <1>4

(* The sides of the mesh, as the property counts them. *)
LEMMA SidesAre == Squares!AllSides = MeshSides(squareMesh)
BY DEF Squares!AllSides, Squares!Sides, Squares!Triangles, Squares!PositionOf, MeshSides, SidesIn, PositionIn

(* At the border of a sheet one of the grid's coordinates does not change. *)
LEMMA BorderOfSheet ==
  ASSUME LoopInv, squareKind # "cube", NEW i \in 0 .. (squareResolution - 1), NEW j \in 0 .. (squareResolution - 1),
         NEW t \in 1 .. 6, Edge(squareKind, squareResolution, i, j, t)
  PROVE  /\ Squares!OnBorder(FaceSide(squareKind, squareResolution, i, j, t)[1])
         /\ Squares!OnBorder(FaceSide(squareKind, squareResolution, i, j, t)[2])
<1> DEFINE r == squareResolution
<1>1. ASSUME NEW n \in 1 .. 4
      PROVE  /\ CornerPoint(squareKind, r, i, j, n)[1] = i + Down(n)
             /\ CornerPoint(squareKind, r, i, j, n)[3] = j + Along(n)
  BY DEF CornerPoint, Point, LoopInv
<1>2. /\ FaceSide(squareKind, r, i, j, t)[1] = CornerPoint(squareKind, r, i, j, TurnList(squareKind)[t][1])
      /\ FaceSide(squareKind, r, i, j, t)[2] = CornerPoint(squareKind, r, i, j, TurnList(squareKind)[t][2])
  BY DEF FaceSide, SideAt
<1>3. /\ TurnList(squareKind)[1] = <<1, 2>> /\ TurnList(squareKind)[3] = <<3, 1>>
      /\ TurnList(squareKind)[5] = <<2, 4>> /\ TurnList(squareKind)[6] = <<4, 3>>
  BY DEF TurnList, LoopInv
<1>4. /\ Down(1) = 0 /\ Down(2) = 1 /\ Down(3) = 0 /\ Down(4) = 1
      /\ Along(1) = 0 /\ Along(2) = 0 /\ Along(3) = 1 /\ Along(4) = 1
  BY DEF Down, Along
<1>5. \A p : p[1] = 0 \/ p[3] = 0 \/ p[1] = r \/ p[3] = r => Squares!OnBorder(p)
  BY DEF Squares!OnBorder
<1>6. r \in Nat
  BY DEF LoopInv
<1>7. CASE t = 1 /\ j = 0
  BY <1>1, <1>2, <1>3, <1>4, <1>5, <1>6, <1>7
<1>8. CASE t = 6 /\ j = r - 1
  BY <1>1, <1>2, <1>3, <1>4, <1>5, <1>6, <1>8
<1>9. CASE t = 3 /\ i = 0
  BY <1>1, <1>2, <1>3, <1>4, <1>5, <1>6, <1>9
<1>10. CASE t = 5 /\ i = r - 1
  BY <1>1, <1>2, <1>3, <1>4, <1>5, <1>6, <1>10
<1> QED BY <1>7, <1>8, <1>9, <1>10 DEF Edge

(* When the loops are through, every square is done. *)
LEMMA BuiltSquares ==
  ASSUME SquaresInv, squarePc = "built"
  PROVE  Done = AllPlaces(squareKind, squareResolution)
BY DEF Done, Visited

(* The generator's module counts as this one does. *)
LEMMA SquaresCardinality ==
  ASSUME NEW S
  PROVE  Squares!Cardinality(S) = Cardinality(S)
BY DEF Squares!Cardinality, Cardinality

(* A finished mesh of squares is oriented: no directed side occurs twice, and each has its
   reverse or lies on the border (quad.cpp:79-87, terrain.cpp:80-88, cube.cpp:81-402). *)
LEMMA OrientedWhenBuilt == SquaresInv => Squares!SurfaceOriented
<1> SUFFICES ASSUME SquaresInv, squarePc = "built"
             PROVE  /\ Cardinality(Squares!AllSides) = Len(squareMesh.indices)
                    /\ \A side \in Squares!AllSides :
                          \/ <<side[2], side[1]>> \in Squares!AllSides
                          \/ squareKind # "cube" /\ Squares!OnBorder(side[1]) /\ Squares!OnBorder(side[2])
  BY SquaresCardinality DEF Squares!SurfaceOriented
<1> DEFINE k == squareKind
           r == squareResolution
           all == UNION {SquareSides(d[1], r, d[2], d[3]) : d \in AllPlaces(k, r)}
<1>1. LoopInv /\ k \in FaceKinds /\ r \in Nat \ {0}
  BY DEF SquaresInv, LoopInv, FaceKinds
<1>2. /\ Squares!AllSides = all /\ IsFiniteSet(AllPlaces(k, r))
      /\ Len(squareMesh.indices) = 6 * Cardinality(AllPlaces(k, r))
  BY SidesAre, BuiltSquares DEF SquaresInv, Generated
<1>3. Cardinality(all) = 6 * Cardinality(AllPlaces(k, r))
  BY <1>1, <1>2, SidesCounted
<1>4. ASSUME NEW side \in all
      PROVE  \/ <<side[2], side[1]>> \in all
             \/ squareKind # "cube" /\ Squares!OnBorder(side[1]) /\ Squares!OnBorder(side[2])
  <2>1. PICK f \in FacesOf(k) : side \in SidesOn(f, r)
    BY SidesOfAll
  <2>2. PICK i \in 0 .. (r - 1), j \in 0 .. (r - 1), t \in 1 .. 6 : side = FaceSide(f, r, i, j, t)
    BY <2>1 DEF SidesOn
  <2>3. CASE ~ Edge(f, r, i, j, t)
    <3>1. Reverse(side) \in SidesOn(f, r)
      BY <1>1, <2>2, <2>3, ReversesInside
    <3>2. Reverse(side) \in all
      BY <3>1, SidesOfAll
    <3> QED BY <3>2 DEF Reverse
  <2>4. CASE Edge(f, r, i, j, t) /\ k = "cube"
    <3>1. f \in CubeFaces /\ FacesOf(k) = CubeFaces
      BY <2>4 DEF FacesOf
    <3>2. PICK g \in CubeFaces : Reverse(side) \in SidesOn(g, r)
      BY <1>1, <2>2, <2>4, <3>1, ReversesAround
    <3>3. Reverse(side) \in all
      BY <3>1, <3>2, SidesOfAll
    <3> QED BY <3>3 DEF Reverse
  <2>5. CASE Edge(f, r, i, j, t) /\ k # "cube"
    <3>1. f = k
      BY <2>5 DEF FacesOf
    <3> QED BY <1>1, <2>2, <2>5, <3>1, BorderOfSheet
  <2> QED BY <2>3, <2>4, <2>5
<1> QED BY <1>2, <1>3, <1>4

(* Two grids of points of which none is in both. *)
LEMMA DisjointCounted ==
  ASSUME NEW A, NEW B, IsFiniteSet(A), IsFiniteSet(B), A \cap B = {}
  PROVE  IsFiniteSet(A \cup B) /\ Cardinality(A \cup B) = Cardinality(A) + Cardinality(B)
<1>1. Cardinality(A \cap B) = 0
  BY FS_EmptySet
<1>2. Cardinality(A \cup B) = Cardinality(A) + Cardinality(B) - Cardinality(A \cap B) /\ IsFiniteSet(A \cup B)
  BY FS_Union
<1>3. Cardinality(A) \in Nat /\ Cardinality(B) \in Nat
  BY FS_CardinalityType
<1> QED BY <1>1, <1>2, <1>3

(* The six faces of the cube. *)
LEMMA CubeHasSixFaces == IsFiniteSet(CubeFaces) /\ Cardinality(CubeFaces) = 6
<1> DEFINE g == <<"front", "back", "top", "bottom", "left", "right">>
<1>1. \A c, d \in 1 .. 6 : g[c] = g[d] => c = d
  OBVIOUS
<1>2. CubeFaces = {g[c] : c \in 1 .. 6}
  <2>1. \A a : {a[t] : t \in 1 .. 6} = {a[1], a[2], a[3], a[4], a[5], a[6]}
    OBVIOUS
  <2> QED BY <2>1 DEF CubeFaces
<1> HIDE DEF g
<1>3. IsFiniteSet(1 .. 6) /\ Cardinality(1 .. 6) = 6
  BY CountTo
<1>4. IsFiniteSet({g[c] : c \in 1 .. 6}) /\ Cardinality({g[c] : c \in 1 .. 6}) = Cardinality(1 .. 6)
  <2>1. Injects(g, 1 .. 6)
    BY <1>1 DEF Injects
  <2>2. Counted(g, 1 .. 6, Cardinality(1 .. 6))
    BY <1>3, <2>1, ValuesCounted
  <2> QED BY <2>2 DEF Counted
<1> QED BY <1>2, <1>3, <1>4

(* A cube has six faces, the other meshes have one. *)
LEMMA FacesCounted ==
  ASSUME NEW k \in FaceKinds
  PROVE  IsFiniteSet(FacesOf(k)) /\ Cardinality(FacesOf(k)) = IF k = "cube" THEN 6 ELSE 1
<1>1. CASE k = "cube"
  BY <1>1, CubeHasSixFaces DEF FacesOf
<1>2. CASE k # "cube"
  <2>1. FacesOf(k) = {k}
    BY <1>2 DEF FacesOf
  <2> QED BY <1>2, <2>1, FS_Singleton
<1> QED BY <1>1, <1>2

(* The points of the grid of one face. *)
LEMMA GridCounted ==
  ASSUME NEW r \in Nat
  PROVE  /\ IsFiniteSet(0 .. r) /\ Cardinality(0 .. r) = r + 1
         /\ IsFiniteSet((0 .. r) \X (0 .. r)) /\ Cardinality((0 .. r) \X (0 .. r)) = (r + 1) * (r + 1)
<1>1. IsFiniteSet(0 .. r) /\ Cardinality(0 .. r) = r + 1
  BY IntervalCounted
<1> DEFINE A == 0 .. r
<1>2. IsFiniteSet(A) /\ Cardinality(A) = r + 1
  BY <1>1
<1> HIDE DEF A
<1>3. IsFiniteSet(A \X A) /\ Cardinality(A \X A) = (r + 1) * (r + 1)
  BY <1>2, FS_Product
<1> QED BY <1>2, <1>3 DEF A

(* Faces do not share vertices: their normals differ (cube.cpp:29-149). *)
LEMMA VerticesCounted ==
  ASSUME NEW k \in FaceKinds, NEW r \in Nat
  PROVE  Cardinality(Placed(k, r)) = (IF k = "cube" THEN 6 ELSE 1) * ((r + 1) * (r + 1))
<1> DEFINE F == FacesOf(k)
           G == (0 .. r) \X (0 .. r)
           g == [c \in F \X G |-> VertexAt(c[1], r, c[2][1], c[2][2])]
<1>1. \A f \in F, h \in F : f # h => NormalOf(f) # NormalOf(h)
  BY DEF FacesOf, CubeFaces, NormalOf
<1>2. ASSUME NEW c \in F \X G, NEW d \in F \X G, g[c] = g[d]
      PROVE  c = d
  <2>1. /\ c = <<c[1], <<c[2][1], c[2][2]>>>> /\ c[1] \in F
        /\ d = <<d[1], <<d[2][1], d[2][2]>>>> /\ d[1] \in F
    OBVIOUS
  <2>2. VertexAt(c[1], r, c[2][1], c[2][2]) = VertexAt(d[1], r, d[2][1], d[2][2])
    BY <1>2
  <2> HIDE DEF F
  <2>3. NormalOf(c[1]) = NormalOf(d[1]) /\ <<c[2][1], c[2][2]>> = <<d[2][1], d[2][2]>>
    BY <2>2 DEF VertexAt
  <2>4. c[1] = d[1]
    BY <1>1, <2>1, <2>3
  <2> QED BY <2>1, <2>3, <2>4
<1>3. Placed(k, r) = {g[c] : c \in F \X G}
  <2>1. ASSUME NEW v \in Placed(k, r) PROVE v \in {g[c] : c \in F \X G}
    <3>1. PICK f \in F, i \in 0 .. r, j \in 0 .. r : v = VertexAt(f, r, i, j)
      BY DEF Placed
    <3>2. <<f, <<i, j>>>> \in F \X G
      OBVIOUS
    <3> QED BY <3>1, <3>2
  <2>2. ASSUME NEW c \in F \X G PROVE g[c] \in Placed(k, r)
    <3>1. c[1] \in F /\ c[2][1] \in 0 .. r /\ c[2][2] \in 0 .. r
      OBVIOUS
    <3> QED BY <3>1 DEF Placed
  <2> HIDE DEF g, F, G
  <2> QED BY <2>1, <2>2
<1>4. IsFiniteSet(F) /\ IsFiniteSet(G)
  BY FacesCounted, GridCounted
<1>5. \A c, d \in F \X G : g[c] = g[d] => c = d
  BY <1>2
<1> HIDE DEF g
<1>6. Cardinality({g[c] : c \in F \X G}) = Cardinality(F) * Cardinality(G)
  <2> HIDE DEF F, G
  <2>1. Injects(g, F \X G)
    BY <1>5 DEF Injects
  <2>2. Counted(g, F \X G, Cardinality(F) * Cardinality(G))
    BY <1>4, <2>1, PairsCounted
  <2> QED BY <2>2 DEF Counted
<1>7. Cardinality(F) = (IF k = "cube" THEN 6 ELSE 1) /\ Cardinality(G) = (r + 1) * (r + 1)
  BY FacesCounted, GridCounted
<1> HIDE DEF F, G
<1> QED BY <1>3, <1>6, <1>7

(* Every point of the grid is a corner of a square. *)
LEMMA CornersOfAll ==
  ASSUME NEW k, NEW r \in Nat \ {0}
  PROVE  UNION {SquareVertices(d[1], r, d[2], d[3]) : d \in AllPlaces(k, r)} = Placed(k, r)
<1> DEFINE all == UNION {SquareVertices(d[1], r, d[2], d[3]) : d \in AllPlaces(k, r)}
<1>1. ASSUME NEW v \in all PROVE v \in Placed(k, r)
  <2>1. PICK d \in AllPlaces(k, r) : v \in SquareVertices(d[1], r, d[2], d[3])
    OBVIOUS
  <2>2. PICK f \in FacesOf(k), i \in 0 .. (r - 1), j \in 0 .. (r - 1) : d = <<f, i, j>>
    BY DEF AllPlaces, PlacesOn
  <2>3. PICK n \in 1 .. 4 : v = VertexAt(f, r, i + Down(n), j + Along(n))
    BY <2>1, <2>2 DEF SquareVertices, CornerVertex
  <2>4. i + Down(n) \in 0 .. r /\ j + Along(n) \in 0 .. r
    BY DEF Down, Along
  <2> QED BY <2>3, <2>4 DEF Placed
<1>2. ASSUME NEW v \in Placed(k, r) PROVE v \in all
  <2>1. PICK f \in FacesOf(k), i \in 0 .. r, j \in 0 .. r : v = VertexAt(f, r, i, j)
    BY DEF Placed
  <2>2. PICK p \in 0 .. (r - 1), q \in 0 .. (r - 1), n \in 1 .. 4 : i = p + Down(n) /\ j = q + Along(n)
    <3>1. CASE i < r /\ j < r
      <4>1. i \in 0 .. (r - 1) /\ j \in 0 .. (r - 1) /\ i = i + Down(1) /\ j = j + Along(1)
        BY <3>1 DEF Down, Along
      <4> QED BY <4>1
    <3>2. CASE i < r /\ j = r
      <4>1. i \in 0 .. (r - 1) /\ j - 1 \in 0 .. (r - 1) /\ i = i + Down(3) /\ j = (j - 1) + Along(3)
        BY <3>2 DEF Down, Along
      <4> QED BY <4>1
    <3>3. CASE i = r /\ j < r
      <4>1. i - 1 \in 0 .. (r - 1) /\ j \in 0 .. (r - 1) /\ i = (i - 1) + Down(2) /\ j = j + Along(2)
        BY <3>3 DEF Down, Along
      <4> QED BY <4>1
    <3>4. CASE i = r /\ j = r
      <4>1. i - 1 \in 0 .. (r - 1) /\ j - 1 \in 0 .. (r - 1) /\ i = (i - 1) + Down(4) /\ j = (j - 1) + Along(4)
        BY <3>4 DEF Down, Along
      <4> QED BY <4>1
    <3> QED BY <3>1, <3>2, <3>3, <3>4
  <2>3. v \in SquareVertices(f, r, p, q)
    BY <2>1, <2>2 DEF SquareVertices, CornerVertex
  <2>4. <<f, p, q>> \in AllPlaces(k, r)
    BY DEF AllPlaces, PlacesOn
  <2>5. PICK d \in AllPlaces(k, r) : d = <<f, p, q>>
    BY <2>4
  <2>6. v \in SquareVertices(d[1], r, d[2], d[3])
    BY <2>3, <2>5
  <2> QED BY <2>6
<1> HIDE DEF all
<1>3. all = Placed(k, r)
  BY <1>1, <1>2
<1> QED BY <1>3 DEF all

(* A mesh has as many vertices as it knows, and these are their values. *)
LEMMA VerticesKnown ==
  ASSUME NEW S, NEW m, MeshOf(m, S)
  PROVE  /\ {m.vertices[n] : n \in 1 .. Len(m.vertices)} = DOMAIN m.uniqueVertices
         /\ Len(m.vertices) = Cardinality(DOMAIN m.uniqueVertices)
         /\ DOMAIN m.vertices = 1 .. Len(m.vertices)
<1> DEFINE l == Len(m.vertices)
           g == [n \in 1 .. l |-> m.vertices[n]]
<1>1. l \in Nat /\ DOMAIN m.vertices = 1 .. l
  BY DEF MeshOf
<1>2. ASSUME NEW v \in DOMAIN m.uniqueVertices PROVE \E n \in 1 .. l : v = m.vertices[n]
  <2>1. m.uniqueVertices[v] + 1 \in 1 .. l /\ m.vertices[m.uniqueVertices[v] + 1] = v
    BY <1>1 DEF MeshOf
  <2> QED BY <2>1
<1>3. \A n \in 1 .. l : m.vertices[n] \in DOMAIN m.uniqueVertices /\ m.uniqueVertices[m.vertices[n]] = n - 1
  BY DEF MeshOf
<1>4. {m.vertices[n] : n \in 1 .. l} = DOMAIN m.uniqueVertices
  BY <1>2, <1>3
<1>5. \A c, d \in 1 .. l : g[c] = g[d] => c = d
  <2> TAKE c \in 1 .. l, d \in 1 .. l
  <2> HAVE g[c] = g[d]
  <2>1. c - 1 = d - 1
    BY <1>3
  <2> QED BY <1>1, <2>1
<1>6. {m.vertices[n] : n \in 1 .. l} = {g[n] : n \in 1 .. l}
  OBVIOUS
<1> HIDE DEF g
<1>7. IsFiniteSet(1 .. l) /\ Cardinality(1 .. l) = l
  BY <1>1, CountTo
<1>8. Cardinality({g[n] : n \in 1 .. l}) = Cardinality(1 .. l)
  <2>1. Injects(g, 1 .. l)
    BY <1>5 DEF Injects
  <2>2. Counted(g, 1 .. l, Cardinality(1 .. l))
    BY <1>7, <2>1, ValuesCounted
  <2> QED BY <2>2 DEF Counted
<1> QED BY <1>1, <1>4, <1>6, <1>7, <1>8

(* The points of a mesh. *)
PointsOf(k, r) == {Point(f, r, i, j) : f \in FacesOf(k), i \in 0 .. r, j \in 0 .. r}

(* A finished mesh has the points of its faces, and each vertex once. *)
LEMMA PositionsWhenBuilt ==
  ASSUME SquaresInv, squarePc = "built"
  PROVE  /\ Squares!Positions = PointsOf(squareKind, squareResolution)
         /\ Len(squareMesh.vertices) = Cardinality(Placed(squareKind, squareResolution))
<1> DEFINE k == squareKind
           r == squareResolution
           m == squareMesh
<1>1. r \in Nat \ {0} /\ MeshOf(m, Placed(k, r))
  BY DEF SquaresInv, LoopInv, Generated
<1>2. DOMAIN m.uniqueVertices = Placed(k, r)
  BY <1>1, BuiltSquares, CornersOfAll DEF SquaresInv, Generated
<1>3. /\ {m.vertices[n] : n \in 1 .. Len(m.vertices)} = Placed(k, r)
      /\ DOMAIN m.vertices = 1 .. Len(m.vertices)
      /\ Len(m.vertices) = Cardinality(Placed(k, r))
  BY <1>1, <1>2, VerticesKnown
<1>4. Squares!Positions = {v.position : v \in Placed(k, r)}
  BY <1>3 DEF Squares!Positions
<1>5. \A f, i, j : VertexAt(f, r, i, j).position = Point(f, r, i, j)
  BY DEF VertexAt
<1>6. {v.position : v \in Placed(k, r)} = PointsOf(k, r)
  <2>1. \A v \in Placed(k, r) : v.position \in PointsOf(k, r)
    BY <1>5 DEF Placed, PointsOf
  <2>2. ASSUME NEW p \in PointsOf(k, r) PROVE \E v \in Placed(k, r) : p = v.position
    <3>1. PICK f \in FacesOf(k), i \in 0 .. r, j \in 0 .. r : p = Point(f, r, i, j)
      BY DEF PointsOf
    <3>2. VertexAt(f, r, i, j) \in Placed(k, r)
      BY DEF Placed
    <3> QED BY <1>5, <3>1, <3>2
  <2> QED BY <2>1, <2>2
<1> QED BY <1>3, <1>4, <1>6

(* The points of a part of a face. *)
Part(f, r, A, B) == {Point(f, r, i, j) : i \in A, j \in B}

(* The points of a rectangle of a face are distinct. *)
LEMMA PartCounted ==
  ASSUME NEW f \in {"quad", "terrain"} \cup CubeFaces, NEW r, NEW A \in SUBSET Int, NEW B \in SUBSET Int,
         IsFiniteSet(A), IsFiniteSet(B)
  PROVE  IsFiniteSet(Part(f, r, A, B)) /\ Cardinality(Part(f, r, A, B)) = Cardinality(A) * Cardinality(B)
<1> DEFINE g == [c \in A \X B |-> Point(f, r, c[1], c[2])]
<1>0. ASSUME NEW c \in A \X B
      PROVE  c = <<c[1], c[2]>> /\ c[1] \in Int /\ c[2] \in Int
  <2>1. c = <<c[1], c[2]>> /\ c[1] \in A /\ c[2] \in B
    <3> HIDE DEF g
    <3> QED OBVIOUS
  <2> QED BY <2>1
<1>1. ASSUME NEW a \in Int, NEW b \in Int, NEW c \in Int, NEW d \in Int, Point(f, r, a, b) = Point(f, r, c, d)
      PROVE  a = c /\ b = d
  <2>1. CASE f \in {"quad", "terrain"}
    <3>1. /\ Point(f, r, a, b)[1] = a /\ Point(f, r, a, b)[3] = b
          /\ Point(f, r, c, d)[1] = c /\ Point(f, r, c, d)[3] = d
      BY <2>1 DEF Point
    <3> QED BY <1>1, <3>1
  <2>2. CASE f \in {"front", "back"}
    BY <1>1, <2>2 DEF Point
  <2>3. CASE f \in {"top", "bottom"}
    BY <1>1, <2>3 DEF Point
  <2>4. CASE f \in {"left", "right"}
    BY <1>1, <2>4 DEF Point
  <2> QED BY <2>1, <2>2, <2>3, <2>4 DEF CubeFaces
<1>2. \A c, d \in A \X B : g[c] = g[d] => c = d
  <2> TAKE c \in A \X B, d \in A \X B
  <2> HAVE g[c] = g[d]
  <2>1. /\ c = <<c[1], c[2]>> /\ c[1] \in Int /\ c[2] \in Int
        /\ d = <<d[1], d[2]>> /\ d[1] \in Int /\ d[2] \in Int
    BY <1>0
  <2>2. Point(f, r, c[1], c[2]) = Point(f, r, d[1], d[2])
    OBVIOUS
  <2>3. c[1] = d[1] /\ c[2] = d[2]
    BY <1>1, <2>1, <2>2
  <2> QED BY <2>1, <2>3
<1>3. Part(f, r, A, B) = {g[c] : c \in A \X B}
  <2>1. ASSUME NEW p \in Part(f, r, A, B) PROVE \E c \in A \X B : p = g[c]
    <3>1. PICK i \in A, j \in B : p = Point(f, r, i, j)
      BY DEF Part
    <3>2. <<i, j>> \in A \X B /\ g[<<i, j>>] = p
      BY <3>1
    <3> QED BY <3>2
  <2>2. ASSUME NEW c \in A \X B PROVE g[c] \in Part(f, r, A, B)
    <3>1. c[1] \in A /\ c[2] \in B /\ g[c] = Point(f, r, c[1], c[2])
      OBVIOUS
    <3>2. PICK i \in A, j \in B : g[c] = Point(f, r, i, j)
      BY <3>1
    <3> QED BY <3>2 DEF Part
  <2> HIDE DEF g
  <2> QED BY <2>1, <2>2
<1> HIDE DEF g
<1>4. IsFiniteSet({g[c] : c \in A \X B}) /\ Cardinality({g[c] : c \in A \X B}) = Cardinality(A) * Cardinality(B)
  <2>1. Injects(g, A \X B)
    BY <1>2 DEF Injects
  <2>2. Counted(g, A \X B, Cardinality(A) * Cardinality(B))
    BY <2>1, PairsCounted
  <2> QED BY <2>2 DEF Counted
<1> QED BY <1>3, <1>4

(* The square, and the parts of it without a border. *)
Full(r) == 0 .. r
Inner(r) == 1 .. (r - 1)

(* The rows and columns of a face, with its edges and without. *)
LEMMA FullAndInner ==
  ASSUME NEW r \in Nat \ {0}
  PROVE  /\ IsFiniteSet(Full(r)) /\ Cardinality(Full(r)) = r + 1 /\ Full(r) \subseteq Int
         /\ IsFiniteSet(Inner(r)) /\ Cardinality(Inner(r)) = r - 1 /\ Inner(r) \subseteq Int
<1>1. IsFiniteSet(Full(r)) /\ Cardinality(Full(r)) = r + 1
  BY GridCounted DEF Full
<1>2. IsFiniteSet(Inner(r)) /\ Cardinality(Inner(r)) = r - 1
  BY CountTo DEF Inner
<1> QED BY <1>1, <1>2 DEF Full, Inner

(* The surface of the cube without overlaps: front and back whole, top and bottom without
   the edges they share with those, left and right without any.            *)
Parts(r) ==
    (((((Part("front", r, Full(r), Full(r)) \cup Part("back", r, Full(r), Full(r)))
        \cup Part("top", r, Full(r), Inner(r))) \cup Part("bottom", r, Full(r), Inner(r)))
        \cup Part("left", r, Inner(r), Inner(r))) \cup Part("right", r, Inner(r), Inner(r)))

(* The surface of the cube in six parts that do not overlap: an edge belongs to one face. *)
LEMMA PartsAre ==
  ASSUME NEW r \in Nat \ {0}
  PROVE  PointsOf("cube", r) = Parts(r)
<1>1. ASSUME NEW p \in Parts(r) PROVE p \in PointsOf("cube", r)
  <2>1. PICK f \in CubeFaces, i \in 0 .. r, j \in 0 .. r : p = Point(f, r, i, j)
    <3>1. \E f \in CubeFaces : p \in Part(f, r, Full(r), Full(r)) \/ p \in Part(f, r, Full(r), Inner(r)) \/ p \in Part(f, r, Inner(r), Inner(r))
      BY DEF Parts, CubeFaces
    <3>2. Full(r) = 0 .. r /\ Inner(r) \subseteq 0 .. r
      BY DEF Full, Inner
    <3> QED BY <3>1, <3>2 DEF Part
  <2> QED BY <2>1 DEF PointsOf, FacesOf
<1>2. ASSUME NEW f \in CubeFaces, NEW i \in 0 .. r, NEW j \in 0 .. r
      PROVE  Point(f, r, i, j) \in Parts(r)
  <2>0. /\ \A g : \A a, b \in 0 .. r : Point(g, r, a, b) \in Part(g, r, Full(r), Full(r))
        /\ \A g : \A a \in 0 .. r, b \in 1 .. (r - 1) : Point(g, r, a, b) \in Part(g, r, Full(r), Inner(r))
        /\ \A g : \A a \in 1 .. (r - 1), b \in 1 .. (r - 1) : Point(g, r, a, b) \in Part(g, r, Inner(r), Inner(r))
    BY DEF Part, Full, Inner
  <2>f. \A a, b \in 0 .. r : Point("front", r, a, b) \in Parts(r) /\ Point("back", r, a, b) \in Parts(r)
    BY <2>0 DEF Parts
  <2>t. \A a, b \in 0 .. r : Point("top", r, a, b) \in Parts(r) /\ Point("bottom", r, a, b) \in Parts(r)
    <3> SUFFICES ASSUME NEW a \in 0 .. r, NEW b \in 0 .. r
                 PROVE  Point("top", r, a, b) \in Parts(r) /\ Point("bottom", r, a, b) \in Parts(r)
      OBVIOUS
    <3>1. CASE b \in 1 .. (r - 1)
      BY <2>0, <3>1 DEF Parts
    <3>2. CASE b = 0
      <4>1. /\ Point("top", r, a, b) = Point("front", r, a, r)
            /\ Point("bottom", r, a, b) = Point("front", r, a, 0)
        BY <3>2 DEF Point
      <4> QED BY <2>f, <4>1
    <3>3. CASE b = r
      <4>1. /\ Point("top", r, a, b) = Point("back", r, a, r)
            /\ Point("bottom", r, a, b) = Point("back", r, a, 0)
        BY <3>3 DEF Point
      <4> QED BY <2>f, <4>1
    <3> QED BY <3>1, <3>2, <3>3
  <2>l. \A a, b \in 0 .. r : Point("left", r, a, b) \in Parts(r) /\ Point("right", r, a, b) \in Parts(r)
    <3> SUFFICES ASSUME NEW a \in 0 .. r, NEW b \in 0 .. r
                 PROVE  Point("left", r, a, b) \in Parts(r) /\ Point("right", r, a, b) \in Parts(r)
      OBVIOUS
    <3>1. CASE a \in 1 .. (r - 1) /\ b \in 1 .. (r - 1)
      BY <2>0, <3>1 DEF Parts
    <3>2. CASE a = 0
      <4>1. /\ Point("left", r, a, b) = Point("bottom", r, 0, b)
            /\ Point("right", r, a, b) = Point("bottom", r, r, b)
        BY <3>2 DEF Point
      <4> QED BY <2>t, <4>1
    <3>3. CASE a = r
      <4>1. /\ Point("left", r, a, b) = Point("top", r, 0, b)
            /\ Point("right", r, a, b) = Point("top", r, r, b)
        BY <3>3 DEF Point
      <4> QED BY <2>t, <4>1
    <3>4. CASE b = 0
      <4>1. /\ Point("left", r, a, b) = Point("front", r, 0, a)
            /\ Point("right", r, a, b) = Point("front", r, r, a)
        BY <3>4 DEF Point
      <4> QED BY <2>f, <4>1
    <3>5. CASE b = r
      <4>1. /\ Point("left", r, a, b) = Point("back", r, 0, a)
            /\ Point("right", r, a, b) = Point("back", r, r, a)
        BY <3>5 DEF Point
      <4> QED BY <2>f, <4>1
    <3> QED BY <3>1, <3>2, <3>3, <3>4, <3>5
  <2> QED BY <2>f, <2>t, <2>l DEF CubeFaces
<1>3. ASSUME NEW p \in PointsOf("cube", r) PROVE p \in Parts(r)
  <2>1. PICK f \in CubeFaces, i \in 0 .. r, j \in 0 .. r : p = Point(f, r, i, j)
    BY DEF PointsOf, FacesOf
  <2> QED BY <1>2, <2>1
<1> QED BY <1>1, <1>3

(* A cube of r squares along an edge has 6 r r + 2 points. *)
LEMMA CubePointsCounted ==
  ASSUME NEW r \in Nat \ {0}
  PROVE  Cardinality(PointsOf("cube", r)) = 6 * r * r + 2
<1> DEFINE a == Part("front", r, Full(r), Full(r))
           b == Part("back", r, Full(r), Full(r))
           c == Part("top", r, Full(r), Inner(r))
           d == Part("bottom", r, Full(r), Inner(r))
           e == Part("left", r, Inner(r), Inner(r))
           f == Part("right", r, Inner(r), Inner(r))
<1>1. /\ IsFiniteSet(a) /\ Cardinality(a) = (r + 1) * (r + 1)
      /\ IsFiniteSet(b) /\ Cardinality(b) = (r + 1) * (r + 1)
  BY FullAndInner, PartCounted DEF CubeFaces
<1>2. /\ IsFiniteSet(c) /\ Cardinality(c) = (r + 1) * (r - 1)
      /\ IsFiniteSet(d) /\ Cardinality(d) = (r + 1) * (r - 1)
  BY FullAndInner, PartCounted DEF CubeFaces
<1>3. /\ IsFiniteSet(e) /\ Cardinality(e) = (r - 1) * (r - 1)
      /\ IsFiniteSet(f) /\ Cardinality(f) = (r - 1) * (r - 1)
  BY FullAndInner, PartCounted DEF CubeFaces
<1>4. /\ \A p \in a : p[3] = 0
      /\ \A p \in b : p[3] = r
      /\ \A p \in c : p[3] \in 1 .. (r - 1) /\ p[2] = -r
      /\ \A p \in d : p[3] \in 1 .. (r - 1) /\ p[2] = 0
      /\ \A p \in e : p[3] \in 1 .. (r - 1) /\ -p[2] \in 1 .. (r - 1) /\ p[1] = 0 /\ p[2] \in Int
      /\ \A p \in f : p[3] \in 1 .. (r - 1) /\ -p[2] \in 1 .. (r - 1) /\ p[1] = r /\ p[2] \in Int
  BY DEF Part, Point, Inner, Full
<1> HIDE DEF a, b, c, d, e, f
<1>5. a \cap b = {} /\ (a \cup b) \cap c = {} /\ ((a \cup b) \cup c) \cap d = {}
  <2>1. a \cap b = {}
    BY <1>4
  <2>2. (a \cup b) \cap c = {}
    BY <1>4
  <2>3. ((a \cup b) \cup c) \cap d = {}
    BY <1>4
  <2> QED BY <2>1, <2>2, <2>3
<1>6. (((a \cup b) \cup c) \cup d) \cap e = {}
  BY <1>4
<1>7. ((((a \cup b) \cup c) \cup d) \cup e) \cap f = {}
  BY <1>4
<1>8. IsFiniteSet(a \cup b) /\ Cardinality(a \cup b) = Cardinality(a) + Cardinality(b)
  BY <1>1, <1>5, DisjointCounted
<1>9. IsFiniteSet((a \cup b) \cup c) /\ Cardinality((a \cup b) \cup c) = Cardinality(a \cup b) + Cardinality(c)
  BY <1>2, <1>5, <1>8, DisjointCounted
<1>10. /\ IsFiniteSet(((a \cup b) \cup c) \cup d)
       /\ Cardinality(((a \cup b) \cup c) \cup d) = Cardinality((a \cup b) \cup c) + Cardinality(d)
  BY <1>2, <1>5, <1>9, DisjointCounted
<1>11. /\ IsFiniteSet((((a \cup b) \cup c) \cup d) \cup e)
       /\ Cardinality((((a \cup b) \cup c) \cup d) \cup e) = Cardinality(((a \cup b) \cup c) \cup d) + Cardinality(e)
  BY <1>3, <1>6, <1>10, DisjointCounted
<1>12. Cardinality(((((a \cup b) \cup c) \cup d) \cup e) \cup f) = Cardinality((((a \cup b) \cup c) \cup d) \cup e) + Cardinality(f)
  BY <1>3, <1>7, <1>11, DisjointCounted
<1>13. PointsOf("cube", r) = ((((a \cup b) \cup c) \cup d) \cup e) \cup f
  BY PartsAre DEF Parts, a, b, c, d, e, f
<1>14. Cardinality(PointsOf("cube", r)) = (r + 1) * (r + 1) + (r + 1) * (r + 1) + (r + 1) * (r - 1)
            + (r + 1) * (r - 1) + (r - 1) * (r - 1) + (r - 1) * (r - 1)
  BY <1>1, <1>2, <1>3, <1>8, <1>9, <1>10, <1>11, <1>12, <1>13
<1>15. (r + 1) * (r + 1) + (r + 1) * (r + 1) + (r + 1) * (r - 1)
            + (r + 1) * (r - 1) + (r - 1) * (r - 1) + (r - 1) * (r - 1) = 6 * r * r + 2
  OBVIOUS
<1> QED BY <1>14, <1>15

(* A sheet has (r + 1)^2 corners, a cube 6 * r^2 + 2 (quad.cpp:56-77, cube.cpp:20-405). *)
LEMMA PointsCounted ==
  ASSUME NEW k \in FaceKinds, NEW r \in Nat \ {0}
  PROVE  Cardinality(PointsOf(k, r)) = IF k = "cube" THEN 6 * r * r + 2 ELSE (r + 1) * (r + 1)
<1>1. CASE k = "cube"
  BY <1>1, CubePointsCounted
<1>2. CASE k # "cube"
  <2>1. PointsOf(k, r) = Part(k, r, Full(r), Full(r))
    BY <1>2 DEF PointsOf, Part, FacesOf, Full
  <2>2. Cardinality(PointsOf(k, r)) = (r + 1) * (r + 1)
    BY <1>2, <2>1, FullAndInner, PartCounted DEF FaceKinds
  <2> QED BY <1>2, <2>2
<1> QED BY <1>1, <1>2

(* The heights of the points of a terrain. *)
LEMMA HeightInRange ==
  ASSUME NEW r \in Nat \ {0}, NEW i \in 0 .. r, NEW j \in 0 .. r
  PROVE  j * (r + 1) + i \in 0 .. ((r + 1) * (r + 1) - 1)
<1>1. PICK s : s = r + 1
  OBVIOUS
<1>2. s \in Nat /\ j \in Nat /\ r \in Nat /\ j <= r
  BY <1>1
<1>3. j * s <= r * s
  BY <1>2, ProductMonotonic
<1>4. j * s \in Nat /\ r * s \in Nat
  BY <1>2
<1>5. s * s = r * s + s
  BY <1>1, <1>2
<1>6. j * s + i \in Nat /\ j * s + i <= r * s + r
  BY <1>2, <1>3, <1>4
<1>7. j * s + i \in 0 .. (s * s - 1)
  BY <1>1, <1>4, <1>5, <1>6
<1> QED BY <1>1, <1>7

(* A terrain uses every height, the first to the last (terrain.cpp:33-54). *)
LEMMA HeightsUsed ==
  ASSUME NEW r \in Nat \ {0}
  PROVE  {p[2] : p \in PointsOf("terrain", r)} = 0 .. ((r + 1) * (r + 1) - 1)
<1>1. PICK s : s = r + 1
  OBVIOUS
<1>2. s \in Nat \ {0} /\ r \in Nat
  BY <1>1
<1>3. \A i, j \in 0 .. r : Point("terrain", r, i, j)[2] = j * s + i
  BY <1>1 DEF Point
<1>4. ASSUME NEW p \in PointsOf("terrain", r) PROVE p[2] \in 0 .. (s * s - 1)
  <2>1. PICK i \in 0 .. r, j \in 0 .. r : p = Point("terrain", r, i, j)
    BY DEF PointsOf, FacesOf
  <2>2. p[2] = j * s + i
    BY <1>3, <2>1
  <2> QED BY <1>1, <2>2, HeightInRange
<1>5. ASSUME NEW h \in 0 .. (s * s - 1) PROVE \E p \in PointsOf("terrain", r) : h = p[2]
  <2>1. PICK j : j = h \div s
    OBVIOUS
  <2>2. h \in Nat /\ s * s \in Nat /\ h < s * s
    BY <1>2
  <2>3. j \in Nat /\ j * s <= h /\ h < j * s + s
    BY <1>2, <2>1, <2>2, Quotient
  <2>4. j * s \in Nat
    BY <1>2, <2>3
  <2>5. j <= r
    <3> SUFFICES ASSUME j > r PROVE FALSE
      BY <1>2, <2>3
    <3>1. s <= j
      BY <1>1, <1>2, <2>3
    <3>2. s * s <= j * s
      BY <1>2, <2>3, <3>1, ProductMonotonic
    <3> QED BY <2>2, <2>3, <2>4, <3>2
  <2>6. PICK i : i = h - j * s
    OBVIOUS
  <2>7. i \in 0 .. r /\ j \in 0 .. r /\ h = j * s + i
    BY <1>1, <1>2, <2>2, <2>3, <2>4, <2>5, <2>6
  <2>8. Point("terrain", r, i, j) \in PointsOf("terrain", r)
    BY <2>7 DEF PointsOf, FacesOf
  <2> QED BY <1>3, <2>7, <2>8
<1> QED BY <1>1, <1>4, <1>5

(* A finished mesh has as many vertices and points as its grid: squares that meet share
   them (quad.cpp:59-77, terrain.cpp:33-54, cube.cpp:61-149). *)
LEMMA SharedWhenBuilt == SquaresInv => Squares!CornersShared
<1> DEFINE k == squareKind
           r == squareResolution
<1> SUFFICES ASSUME SquaresInv, squarePc = "built"
             PROVE  /\ Len(squareMesh.vertices) = (r + 1) * (r + 1) * (IF k = "cube" THEN 6 ELSE 1)
                    /\ Cardinality(Squares!Positions) = IF k = "cube" THEN 6 * r * r + 2 ELSE (r + 1) * (r + 1)
                    /\ k = "terrain" => {p[2] : p \in Squares!Positions} = 0 .. ((r + 1) * (r + 1) - 1)
  BY SquaresCardinality DEF Squares!CornersShared
<1>1. k \in FaceKinds /\ r \in Nat \ {0}
  BY DEF SquaresInv, LoopInv, FaceKinds
<1>2. /\ Squares!Positions = PointsOf(k, r)
      /\ Len(squareMesh.vertices) = Cardinality(Placed(k, r))
  BY PositionsWhenBuilt
<1> HIDE DEF k, r
<1>3. Len(squareMesh.vertices) = (IF k = "cube" THEN 6 ELSE 1) * ((r + 1) * (r + 1))
  BY <1>1, <1>2, VerticesCounted
<1>4. Len(squareMesh.vertices) = (r + 1) * (r + 1) * (IF k = "cube" THEN 6 ELSE 1)
  BY <1>1, <1>3
<1>5. Cardinality(Squares!Positions) = IF k = "cube" THEN 6 * r * r + 2 ELSE (r + 1) * (r + 1)
  BY <1>1, <1>2, PointsCounted
<1>6. k = "terrain" => {p[2] : p \in Squares!Positions} = 0 .. ((r + 1) * (r + 1) - 1)
  BY <1>1, <1>2, HeightsUsed
<1> QED BY <1>4, <1>5, <1>6

(* Types: the indices are those of vertices, and a terrain reads only heights there are. *)
LEMMA SquaresTypes == SquaresInv => Squares!MeshTypeOK
<1> DEFINE k == squareKind
           r == squareResolution
           m == squareMesh
<1> SUFFICES ASSUME SquaresInv PROVE Squares!MeshTypeOK
  OBVIOUS
<1>1. LoopInv /\ MeshOf(m, Placed(k, r))
  BY DEF SquaresInv, Generated
<1>2. \A n \in DOMAIN m.indices : m.indices[n] \in 0 .. (Len(m.vertices) - 1)
  <2>1. DOMAIN m.indices = 1 .. Len(m.indices)
    BY <1>1 DEF MeshOf
  <2> QED BY <1>1, <2>1 DEF MeshOf
<1>3. ASSUME k = "terrain", NEW p \in Squares!Positions
      PROVE  p[2] \in 0 .. ((r + 1) * (r + 1) - 1)
  <2>1. PICK n \in DOMAIN m.vertices : p = m.vertices[n].position
    BY DEF Squares!Positions
  <2>2. m.vertices[n] \in Placed(k, r)
    BY <1>1, <2>1 DEF MeshOf
  <2>3. PICK i \in 0 .. r, j \in 0 .. r : m.vertices[n] = VertexAt("terrain", r, i, j)
    BY <1>3, <2>2 DEF Placed, FacesOf
  <2>4. p[2] = j * (r + 1) + i
    BY <2>1, <2>3 DEF VertexAt, Point
  <2>5. r \in Nat \ {0}
    BY <1>1 DEF LoopInv
  <2> QED BY <2>4, <2>5, HeightInRange
<1>4. pass \in Squares!Passes /\ squarePc \in {"loop", "built"}
      /\ row \in 0 .. (r - 1) /\ col \in 0 .. (r - 1)
  BY <1>1 DEF LoopInv, Squares!Passes
<1> QED BY <1>2, <1>3, <1>4 DEF Squares!MeshTypeOK

(***************************************************************************)
(* Cells: interpolation, the triangles of a cell and the mesh they make    *)
(***************************************************************************)
(* The loops stay in the grid (marchingcubes.cpp:24-33). *)
CellLoop ==
    /\ surface \in [Cells!GridPoints -> Values]
    /\ x \in 0 .. (cells - 1) /\ y \in 0 .. (cells - 1) /\ z \in 0 .. (cells - 1)
    /\ cellPc \in {"loop", "built"}

(* A corner less than two epsilon from isolevel, or the point between two corners where
   the surface is at isolevel. *)
Near(p) == -2 * Epsilon < surface[p] /\ surface[p] < 2 * Epsilon

Crosses(p, q, d) == (Steps - d) * surface[p] + d * surface[q] = 0

OnSurface(r) ==
    /\ r \in [1 .. 3 -> Int]
    /\ \E p, q \in Cells!GridPoints, d \in Int :
          /\ p = [n \in 1 .. 3 |-> r[n] \div Steps]
          /\ q = [n \in 1 .. 3 |-> (r[n] + Steps - 1) \div Steps]
          /\ d = (r[1] - Steps * p[1]) + (r[2] - Steps * p[2]) + (r[3] - Steps * p[3])
          /\ IF p = q THEN Near(p) ELSE Crosses(p, q, d)

(* The cell from (x, y, z) on, in steps. *)
InCell(r) ==
    r[1] - Steps * x \in 0 .. Steps /\ r[2] - Steps * y \in 0 .. Steps /\ r[3] - Steps * z \in 0 .. Steps

(* The corners on the two sides of a point, along one axis. *)
LEMMA Parted ==
  ASSUME NEW a \in Nat, NEW d \in 0 .. (Steps - 1)
  PROVE  /\ (Steps * a + d) \div Steps = a
         /\ (Steps * a + d + Steps - 1) \div Steps = IF d = 0 THEN a ELSE a + 1
<1>1. Steps \in Nat \ {0} /\ d \in Nat
  BY GeneratorAssumption
<1>s. PICK s \in Nat : s = Steps * a /\ s = a * Steps
  BY <1>1
<1>2. (a + 1) * Steps = s + Steps /\ a + 1 \in Nat
  BY <1>1, <1>s
<1>3. (s + d) \div Steps = a
  BY <1>1, <1>s, QuotientUnique
<1>4. CASE d = 0
  <2>1. s + d + Steps - 1 \in Nat /\ a * Steps <= s + d + Steps - 1 /\ s + d + Steps - 1 < a * Steps + Steps
    BY <1>1, <1>s, <1>4
  <2>2. (s + d + Steps - 1) \div Steps = a
    BY <1>1, <2>1, QuotientUnique
  <2> QED BY <1>3, <1>4, <1>s, <2>2
<1>5. CASE d # 0
  <2>1. /\ s + d + Steps - 1 \in Nat /\ (a + 1) * Steps <= s + d + Steps - 1
        /\ s + d + Steps - 1 < (a + 1) * Steps + Steps
    BY <1>1, <1>2, <1>s, <1>5
  <2>2. (s + d + Steps - 1) \div Steps = a + 1
    BY <1>1, <1>2, <2>1, QuotientUnique
  <2> QED BY <1>3, <1>5, <1>s, <2>2
<1> QED BY <1>4, <1>5

(* Where an edge from the value v to the value w meets isolevel. *)
Met(v, w, d) ==
    /\ d \in 1 .. (Steps - 1)
    /\ (Steps * (0 - v)) \div (w - v) = d /\ (Steps * w) \div (w - v) = Steps - d
    /\ (Steps - d) * v + d * w = 0

(* Interpolation meets isolevel between the ends, from whichever it starts
   (marchingcubes.cpp:155-160).                                            *)
LEMMA Interpolation ==
  ASSUME NEW v \in Values, NEW w \in Values, v < -Epsilon, Epsilon < w
  PROVE  \E d : Met(v, w, d)
<1>1. Steps \in Nat \ {0} /\ Epsilon \in Nat \ {0} /\ v \in Int /\ w \in Int
  BY GeneratorAssumption
<1>2. PICK d \in 0 .. Steps : d * (w - v) = Steps * (0 - v)
  BY GeneratorAssumption
<1>3. PICK u \in Nat \ {0} : u = 0 - v
  BY <1>1
<1>4. PICK b \in Nat \ {0} : b = w - v
  BY <1>1
<1>5. w \in Nat \ {0} /\ b = w + u
  BY <1>1, <1>3, <1>4
<1>6. d * b = Steps * u /\ d \in Nat
  BY <1>1, <1>2, <1>3, <1>4
<1>7. d * b = d * w + d * u /\ Steps * b = Steps * w + Steps * u /\ (Steps - d) * b = Steps * b - d * b
      /\ (Steps - d) * u = Steps * u - d * u
  BY <1>1, <1>3, <1>5, <1>6
<1>8. /\ Steps * u \in Nat \ {0} /\ Steps * w \in Nat \ {0} /\ d * w \in Nat /\ d * u \in Nat
  BY <1>1, <1>3, <1>5, <1>6
<1>9. d # 0
  <2>1. 0 * b = 0
    BY <1>4
  <2> QED BY <1>6, <1>8, <2>1
<1>10. d # Steps
  BY <1>6, <1>7, <1>8
<1>11. (Steps * u) \div b = d
  BY <1>4, <1>6, <1>8, QuotientUnique
<1>12. (Steps * w) \div b = Steps - d
  <2>1. Steps - d \in Nat /\ (Steps - d) * b = Steps * w
    BY <1>1, <1>2, <1>6, <1>7, <1>8
  <2> QED BY <1>4, <1>8, <2>1, QuotientUnique
<1>13. (Steps - d) * v + d * w = 0
  <2>1. v = 0 - u
    BY <1>1, <1>3
  <2>2. (Steps - d) * v = 0 - (Steps - d) * u
    BY <1>1, <1>2, <1>3, <2>1
  <2>3. d * w = (Steps - d) * u
    BY <1>6, <1>7, <1>8
  <2>4. (Steps - d) * u \in Int
    BY <1>1, <1>2, <1>3
  <2> QED BY <2>2, <2>3, <2>4
<1>14. d \in 1 .. (Steps - 1)
  BY <1>1, <1>2, <1>9, <1>10
<1> QED BY <1>3, <1>4, <1>11, <1>12, <1>13, <1>14 DEF Met

(* Where an edge from p to q is cut, d steps from p. *)
CutAt(p, q, d) ==
    /\ d \in 0 .. Steps
    /\ d = 0 => Near(p)
    /\ d = Steps => Near(q)
    /\ d \in 1 .. (Steps - 1) => Crosses(p, q, d)

(* Interpolation gives an end less than two epsilon from isolevel, or the point between
   the ends that is at isolevel (marchingcubes.cpp:144-161).               *)
LEMMA CutFrom ==
  ASSUME CellLoop, NEW p \in Cells!GridPoints, NEW q \in Cells!GridPoints,
         Cells!Inside(p) # Cells!Inside(q)
  PROVE  \E d : CutAt(p, q, d) /\ Cells!InterpolateVector(p, q) = Cells!Along(p, q, d)
<1>1. PICK v \in Values : v = surface[p]
  BY DEF CellLoop
<1>2. PICK w \in Values : w = surface[q]
  BY DEF CellLoop
<1>3. Steps \in Nat \ {0} /\ Epsilon \in Nat \ {0} /\ v \in Int /\ w \in Int
  BY GeneratorAssumption
<1>4. (v < Epsilon) # (w < Epsilon)
  BY <1>1, <1>2 DEF Cells!Inside
<1>5. CASE Cells!AtLevel(p) \/ Cells!Flat(p, q)
  <2>1. -2 * Epsilon < v /\ v < 2 * Epsilon
    BY <1>1, <1>2, <1>3, <1>4, <1>5 DEF Cells!AtLevel, Cells!Flat
  <2>2. CutAt(p, q, 0)
    BY <1>1, <1>3, <2>1 DEF CutAt, Near
  <2>3. Cells!InterpolateVector(p, q) = Cells!Along(p, q, 0)
    BY <1>5 DEF Cells!InterpolateVector
  <2> QED BY <2>2, <2>3
<1>6. CASE ~(Cells!AtLevel(p) \/ Cells!Flat(p, q)) /\ Cells!AtLevel(q)
  <2>1. -2 * Epsilon < w /\ w < 2 * Epsilon
    BY <1>2, <1>3, <1>6 DEF Cells!AtLevel
  <2>2. CutAt(p, q, Steps)
    BY <1>2, <1>3, <2>1 DEF CutAt, Near
  <2>3. Cells!InterpolateVector(p, q) = Cells!Along(p, q, Steps)
    BY <1>6 DEF Cells!InterpolateVector
  <2> QED BY <2>2, <2>3
<1>7. CASE ~(Cells!AtLevel(p) \/ Cells!Flat(p, q)) /\ ~Cells!AtLevel(q)
  <2>1. Cells!InterpolateVector(p, q) = Cells!Along(p, q, Cells!StepsOf(-v, w - v))
    BY <1>1, <1>2, <1>7 DEF Cells!InterpolateVector
  <2>2. (v < -Epsilon /\ Epsilon < w) \/ (w < -Epsilon /\ Epsilon < v)
    BY <1>1, <1>2, <1>3, <1>4, <1>7 DEF Cells!AtLevel
  <2>3. CASE v < -Epsilon /\ Epsilon < w
    <3>1. PICK d : Met(v, w, d)
      BY <2>3, Interpolation
    <3>2. w - v > 0 /\ -v = 0 - v
      BY <1>3, <2>3
    <3>3. Cells!StepsOf(-v, w - v) = d
      BY <3>1, <3>2 DEF Cells!StepsOf, Met
    <3>4. CutAt(p, q, d)
      BY <1>1, <1>2, <1>3, <3>1 DEF CutAt, Crosses, Met
    <3> QED BY <2>1, <3>3, <3>4
  <2>4. CASE w < -Epsilon /\ Epsilon < v
    <3>1. PICK d : Met(w, v, d)
      BY <2>4, Interpolation
    <3>2. ~(w - v > 0) /\ -(-v) = v /\ -(w - v) = v - w
      BY <1>3, <2>4
    <3>3. Cells!StepsOf(-v, w - v) = Steps - d
      BY <3>1, <3>2 DEF Cells!StepsOf, Met
    <3>4. Steps - d \in 1 .. (Steps - 1) /\ Steps - (Steps - d) = d
      BY <1>3, <3>1 DEF Met
    <3>5. d * v + (Steps - d) * w = 0
      BY <1>3, <3>1, <3>4 DEF Met
    <3>6. Crosses(p, q, Steps - d)
      BY <1>1, <1>2, <3>4, <3>5 DEF Crosses
    <3>7. CutAt(p, q, Steps - d)
      BY <1>3, <3>4, <3>6 DEF CutAt
    <3> QED BY <2>1, <3>3, <3>7
  <2> QED BY <2>2, <2>3, <2>4
<1> QED BY <1>5, <1>6, <1>7

(* The same point, seen from the other end. *)
LEMMA CutBack ==
  ASSUME CellLoop, NEW p \in Cells!GridPoints, NEW q \in Cells!GridPoints, NEW d, CutAt(q, p, d)
  PROVE  CutAt(p, q, Steps - d) /\ Cells!Along(q, p, d) = Cells!Along(p, q, Steps - d)
<1>1. Steps \in Nat \ {0} /\ d \in Int /\ d \in 0 .. Steps /\ Steps - (Steps - d) = d
  BY GeneratorAssumption DEF CutAt
<1>2. surface[p] \in Int /\ surface[q] \in Int
  BY GeneratorAssumption DEF CellLoop
<1>3. ASSUME Steps - d \in 1 .. (Steps - 1) PROVE Crosses(p, q, Steps - d)
  <2>1. d \in 1 .. (Steps - 1)
    BY <1>1, <1>3
  <2>2. (Steps - d) * surface[q] + d * surface[p] = 0
    BY <2>1 DEF CutAt, Crosses
  <2>3. (Steps - d) * surface[q] \in Int /\ d * surface[p] \in Int
    BY <1>1, <1>2
  <2>4. d * surface[p] + (Steps - d) * surface[q] = 0
    BY <2>2, <2>3
  <2> QED BY <1>1, <2>4 DEF Crosses
<1>4. CutAt(p, q, Steps - d)
  <2>1. Steps - d \in 0 .. Steps
    BY <1>1
  <2>2. (Steps - d = 0 => d = Steps) /\ (Steps - d = Steps => d = 0)
    BY <1>1
  <2> QED BY <1>3, <2>1, <2>2 DEF CutAt
<1>5. ASSUME NEW n \in 1 .. 3
      PROVE  Steps * q[n] + d * (p[n] - q[n]) = Steps * p[n] + (Steps - d) * (q[n] - p[n])
  <2>1. PICK a \in Int : a = p[n]
    BY <1>5 DEF Cells!GridPoints
  <2>2. PICK b \in Int : b = q[n]
    BY <1>5 DEF Cells!GridPoints
  <2>3. /\ d * (a - b) = d * a - d * b
        /\ (Steps - d) * (b - a) = (Steps * b - Steps * a) - (d * b - d * a)
    BY <1>1
  <2>4. d * a \in Int /\ d * b \in Int /\ Steps * a \in Int /\ Steps * b \in Int
    BY <1>1
  <2>5. Steps * b + d * (a - b) = Steps * a + (Steps - d) * (b - a)
    BY <2>3, <2>4
  <2> QED BY <2>1, <2>2, <2>5
<1>6. Cells!Along(q, p, d) = Cells!Along(p, q, Steps - d)
  BY <1>5 DEF Cells!Along
<1> QED BY <1>4, <1>6

(* Interpolation along an edge from (i, j, k) to the next point on one of the axes. *)
EdgePoint(p, q, r) ==
    /\ OnSurface(r)
    /\ r[1] - Steps * p[1] \in 0 .. Steps * (q[1] - p[1])
    /\ r[2] - Steps * p[2] \in 0 .. Steps * (q[2] - p[2])
    /\ r[3] - Steps * p[3] \in 0 .. Steps * (q[3] - p[3])

Adjacent(p, q) ==
    /\ p \in Cells!GridPoints /\ q \in Cells!GridPoints
    /\ \E i, j, k \in Int, di, dj, dk \in {0, 1} :
          di + dj + dk = 1 /\ p = <<i, j, k>> /\ q = <<i + di, j + dj, k + dk>>

(* How s lies between the corners a and a + e, d steps from a. *)
StepTaken(a, e, d, s) ==
    /\ s \in Int /\ s - Steps * a = d * e
    /\ s - Steps * a \in 0 .. Steps * e
    /\ s \div Steps = IF e = 1 /\ d = Steps THEN a + 1 ELSE a
    /\ (s + Steps - 1) \div Steps = IF e = 1 /\ d # 0 THEN a + 1 ELSE a

(* One coordinate of a point d steps along an edge that does, or does not, run this way. *)
LEMMA StepAlong ==
  ASSUME NEW a \in Nat, NEW e \in {0, 1}, NEW d \in 0 .. Steps, NEW s, s = Steps * a + d * e
  PROVE  StepTaken(a, e, d, s)
<1>1. Steps \in Nat \ {0} /\ d \in Nat /\ Steps * a \in Nat
  BY GeneratorAssumption
<1>2. CASE e = 1 /\ d = Steps
  <2>1. s = Steps * (a + 1) + 0 /\ s = Steps * a + Steps /\ 0 \in 0 .. (Steps - 1) /\ a + 1 \in Nat
    BY <1>1, <1>2
  <2>2. s \div Steps = a + 1 /\ (s + Steps - 1) \div Steps = a + 1
    BY <2>1, Parted
  <2> QED BY <1>1, <1>2, <2>1, <2>2 DEF StepTaken
<1>3. CASE e = 1 /\ d # Steps
  <2>1. s = Steps * a + d /\ d \in 0 .. (Steps - 1) /\ d * e = d /\ Steps * e = Steps
    BY <1>1, <1>3
  <2>2. s \div Steps = a /\ (s + Steps - 1) \div Steps = IF d = 0 THEN a ELSE a + 1
    BY <2>1, Parted
  <2> QED BY <1>1, <1>3, <2>1, <2>2 DEF StepTaken
<1>4. CASE e = 0
  <2>1. s = Steps * a + 0 /\ 0 \in 0 .. (Steps - 1) /\ d * e = 0 /\ Steps * e = 0
    BY <1>1, <1>4
  <2>2. s \div Steps = a /\ (s + Steps - 1) \div Steps = a
    BY <2>1, Parted
  <2> QED BY <1>1, <1>4, <2>1, <2>2 DEF StepTaken
<1> QED BY <1>2, <1>3, <1>4

(* Interpolation between the ends of an edge that is cut stays between them and on the
   surface, whichever end it starts from (marchingcubes.cpp:144-161).      *)
LEMMA Interpolated ==
  ASSUME CellLoop, NEW p, NEW q, Adjacent(p, q), Cells!Inside(p) # Cells!Inside(q),
         NEW r, r = Cells!InterpolateVector(p, q) \/ r = Cells!InterpolateVector(q, p)
  PROVE  EdgePoint(p, q, r)
<1>a. PICK i \in Int, j \in Int, k \in Int, di \in {0, 1}, dj \in {0, 1}, dk \in {0, 1} :
         di + dj + dk = 1 /\ p = <<i, j, k>> /\ q = <<i + di, j + dj, k + dk>>
  BY DEF Adjacent
<1>b. p \in Cells!GridPoints /\ q \in Cells!GridPoints
  BY DEF Adjacent
<1>c. i \in Nat /\ j \in Nat /\ k \in Nat
  BY <1>a, <1>b, GeneratorAssumption DEF Cells!GridPoints
<1>1. PICK d : CutAt(p, q, d) /\ r = Cells!Along(p, q, d)
  BY <1>b, CutFrom, CutBack
<1>2. /\ p[1] = i /\ p[2] = j /\ p[3] = k
      /\ q[1] = i + di /\ q[2] = j + dj /\ q[3] = k + dk
  BY <1>a
<1>3. Steps \in Nat \ {0} /\ d \in 0 .. Steps
  BY <1>1, GeneratorAssumption DEF CutAt
<1>4. /\ r[1] = Steps * i + d * di /\ r[2] = Steps * j + d * dj /\ r[3] = Steps * k + d * dk
      /\ DOMAIN r = 1 .. 3 /\ r = [n \in 1 .. 3 |-> r[n]]
  <2>1. (i + di) - i = di /\ (j + dj) - j = dj /\ (k + dk) - k = dk
    BY <1>c
  <2> QED BY <1>1, <1>2, <2>1 DEF Cells!Along
<1>5. /\ r[1] \in Int /\ r[1] - Steps * i = d * di /\ r[1] - Steps * i \in 0 .. Steps * di
      /\ r[1] \div Steps = IF di = 1 /\ d = Steps THEN i + 1 ELSE i
      /\ (r[1] + Steps - 1) \div Steps = IF di = 1 /\ d # 0 THEN i + 1 ELSE i
  <2>1. PICK s : s = r[1]
    OBVIOUS
  <2>2. StepTaken(i, di, d, s)
    BY <1>c, <1>3, <1>4, <2>1, StepAlong
  <2> QED BY <2>1, <2>2 DEF StepTaken
<1>6. /\ r[2] \in Int /\ r[2] - Steps * j = d * dj /\ r[2] - Steps * j \in 0 .. Steps * dj
      /\ r[2] \div Steps = IF dj = 1 /\ d = Steps THEN j + 1 ELSE j
      /\ (r[2] + Steps - 1) \div Steps = IF dj = 1 /\ d # 0 THEN j + 1 ELSE j
  <2>1. PICK s : s = r[2]
    OBVIOUS
  <2>2. StepTaken(j, dj, d, s)
    BY <1>c, <1>3, <1>4, <2>1, StepAlong
  <2> QED BY <2>1, <2>2 DEF StepTaken
<1>7. /\ r[3] \in Int /\ r[3] - Steps * k = d * dk /\ r[3] - Steps * k \in 0 .. Steps * dk
      /\ r[3] \div Steps = IF dk = 1 /\ d = Steps THEN k + 1 ELSE k
      /\ (r[3] + Steps - 1) \div Steps = IF dk = 1 /\ d # 0 THEN k + 1 ELSE k
  <2>1. PICK s : s = r[3]
    OBVIOUS
  <2>2. StepTaken(k, dk, d, s)
    BY <1>c, <1>3, <1>4, <2>1, StepAlong
  <2> QED BY <2>1, <2>2 DEF StepTaken
<1>8. r \in [1 .. 3 -> Int]
  BY <1>4, <1>5, <1>6, <1>7
<1> DEFINE low == [n \in 1 .. 3 |-> r[n] \div Steps]
           high == [n \in 1 .. 3 |-> (r[n] + Steps - 1) \div Steps]
<1>9. low = <<r[1] \div Steps, r[2] \div Steps, r[3] \div Steps>>
      /\ high = <<(r[1] + Steps - 1) \div Steps, (r[2] + Steps - 1) \div Steps, (r[3] + Steps - 1) \div Steps>>
  OBVIOUS
<1>10. (di = 1 /\ dj = 0 /\ dk = 0) \/ (di = 0 /\ dj = 1 /\ dk = 0) \/ (di = 0 /\ dj = 0 /\ dk = 1)
  BY <1>a
<1>11. low = IF d = Steps THEN q ELSE p
  <2>1. CASE d = Steps
    BY <1>5, <1>6, <1>7, <1>9, <1>10, <1>a, <2>1
  <2>2. CASE d # Steps
    BY <1>5, <1>6, <1>7, <1>9, <1>a, <2>2
  <2> QED BY <2>1, <2>2
<1>12. high = IF d = 0 THEN p ELSE q
  <2>1. CASE d = 0
    BY <1>5, <1>6, <1>7, <1>9, <1>a, <2>1
  <2>2. CASE d # 0
    BY <1>5, <1>6, <1>7, <1>9, <1>10, <1>a, <2>2
  <2> QED BY <2>1, <2>2
<1> HIDE DEF low, high
<1>13. OnSurface(r)
  <2>1. PICK h \in Int : h = (r[1] - Steps * low[1]) + (r[2] - Steps * low[2]) + (r[3] - Steps * low[3])
    <3>1. low[1] \in Int /\ low[2] \in Int /\ low[3] \in Int
      <4>1. \A n \in 1 .. 3 : p[n] \in Int /\ q[n] \in Int
        BY <1>b DEF Cells!GridPoints
      <4> QED BY <1>11, <4>1
    <3>2. PICK a \in Int, b \in Int, c \in Int :
             a = r[1] - Steps * low[1] /\ b = r[2] - Steps * low[2] /\ c = r[3] - Steps * low[3]
      BY <1>3, <1>5, <1>6, <1>7, <3>1
    <3> QED BY <3>2
  <2>2. IF low = high THEN Near(low) ELSE Crosses(low, high, h)
    <3>1. p # q
      OBVIOUS
    <3>2. CASE d = 0
      BY <1>1, <1>3, <1>11, <1>12, <3>2 DEF CutAt
    <3>3. CASE d = Steps
      BY <1>1, <1>3, <1>11, <1>12, <3>3 DEF CutAt
    <3>4. CASE d # 0 /\ d # Steps
      <4>1. low = p /\ high = q
        BY <1>11, <1>12, <3>4
      <4>2. h = d * di + d * dj + d * dk
        BY <1>2, <1>5, <1>6, <1>7, <2>1, <4>1
      <4>3. h = d
        BY <1>3, <1>10, <4>2
      <4>4. Crosses(p, q, d)
        BY <1>1, <1>3, <3>4 DEF CutAt
      <4> QED BY <3>1, <4>1, <4>3, <4>4
    <3> QED BY <3>2, <3>3, <3>4
  <2>3. low \in Cells!GridPoints /\ high \in Cells!GridPoints
    BY <1>b, <1>11, <1>12
  <2> QED BY <1>8, <2>1, <2>2, <2>3 DEF OnSurface, low, high
<1>14. q[1] - p[1] = di /\ q[2] - p[2] = dj /\ q[3] - p[3] = dk
  BY <1>2, <1>c
<1> QED BY <1>2, <1>5, <1>6, <1>7, <1>13, <1>14 DEF EdgePoint

(* Each edge of the cell runs along one of the axes (marchingcubes.cpp:46-53, 123-134). *)
LEMMA AlongAxis ==
  ASSUME NEW i \in Int, NEW j \in Int, NEW k \in Int
  PROVE  /\ <<i, j, k>> \in Cells!GridPoints /\ <<i + 1, j, k>> \in Cells!GridPoints
              => Adjacent(<<i, j, k>>, <<i + 1, j, k>>)
         /\ <<i, j, k>> \in Cells!GridPoints /\ <<i, j + 1, k>> \in Cells!GridPoints
              => Adjacent(<<i, j, k>>, <<i, j + 1, k>>)
         /\ <<i, j, k>> \in Cells!GridPoints /\ <<i, j, k + 1>> \in Cells!GridPoints
              => Adjacent(<<i, j, k>>, <<i, j, k + 1>>)
<1> HIDE DEF Cells!GridPoints
<1>1. i + 0 = i /\ j + 0 = j /\ k + 0 = k /\ 1 + 0 + 0 = 1 /\ 0 + 1 + 0 = 1 /\ 0 + 0 + 1 = 1
  OBVIOUS
<1>2. ASSUME NEW q, NEW di \in {0, 1}, NEW dj \in {0, 1}, NEW dk \in {0, 1}, di + dj + dk = 1,
             q = <<i + di, j + dj, k + dk>>,
             <<i, j, k>> \in Cells!GridPoints, q \in Cells!GridPoints
      PROVE  Adjacent(<<i, j, k>>, q)
  BY <1>2 DEF Adjacent
<1>3. <<i, j, k>> \in Cells!GridPoints /\ <<i + 1, j, k>> \in Cells!GridPoints
         => Adjacent(<<i, j, k>>, <<i + 1, j, k>>)
  <2>1. <<i + 1, j, k>> = <<i + 1, j + 0, k + 0>>
    BY <1>1
  <2> QED BY <1>1, <1>2, <2>1
<1>4. <<i, j, k>> \in Cells!GridPoints /\ <<i, j + 1, k>> \in Cells!GridPoints
         => Adjacent(<<i, j, k>>, <<i, j + 1, k>>)
  <2>1. <<i, j + 1, k>> = <<i + 0, j + 1, k + 0>>
    BY <1>1
  <2> QED BY <1>1, <1>2, <2>1
<1>5. <<i, j, k>> \in Cells!GridPoints /\ <<i, j, k + 1>> \in Cells!GridPoints
         => Adjacent(<<i, j, k>>, <<i, j, k + 1>>)
  <2>1. <<i, j, k + 1>> = <<i + 0, j + 0, k + 1>>
    BY <1>1
  <2> QED BY <1>1, <1>2, <2>1
<1> QED BY <1>3, <1>4, <1>5

(* The corners of the cell. *)
CornersAre(c) ==
    /\ c[1] = <<x, y, z + 1>> /\ c[2] = <<x + 1, y, z + 1>> /\ c[3] = <<x + 1, y, z>>
    /\ c[4] = <<x, y, z>> /\ c[5] = <<x, y + 1, z + 1>> /\ c[6] = <<x + 1, y + 1, z + 1>>
    /\ c[7] = <<x + 1, y + 1, z>> /\ c[8] = <<x, y + 1, z>>

(* Each of the twelve edges joins two neighbouring corners (marchingcubes.cpp:46-53, 123-134). *)
LEMMA EdgesAligned ==
  ASSUME CellLoop, NEW e \in 1 .. 12, NEW c, CornersAre(c), \A n \in 1 .. 8 : c[n] \in Cells!GridPoints,
         NEW a, a = Cells!CellEdges[e][1], NEW b, b = Cells!CellEdges[e][2]
  PROVE  a \in 1 .. 8 /\ b \in 1 .. 8 /\ (Adjacent(c[a], c[b]) \/ Adjacent(c[b], c[a]))
<1>0. x \in Int /\ y \in Int /\ z \in Int /\ x + 1 \in Int /\ y + 1 \in Int /\ z + 1 \in Int
  BY DEF CellLoop
<1>1. /\ Adjacent(c[1], c[2]) /\ Adjacent(c[3], c[2]) /\ Adjacent(c[4], c[3]) /\ Adjacent(c[4], c[1])
      /\ Adjacent(c[5], c[6]) /\ Adjacent(c[7], c[6]) /\ Adjacent(c[8], c[7]) /\ Adjacent(c[8], c[5])
      /\ Adjacent(c[1], c[5]) /\ Adjacent(c[2], c[6]) /\ Adjacent(c[3], c[7]) /\ Adjacent(c[4], c[8])
  <2> HIDE DEF Cells!GridPoints
  <2>1. /\ c[1] \in Cells!GridPoints /\ c[2] \in Cells!GridPoints /\ c[3] \in Cells!GridPoints
        /\ c[4] \in Cells!GridPoints /\ c[5] \in Cells!GridPoints /\ c[6] \in Cells!GridPoints
        /\ c[7] \in Cells!GridPoints /\ c[8] \in Cells!GridPoints
    OBVIOUS
  <2>2. Adjacent(c[1], c[2])
    BY <1>0, <2>1, AlongAxis DEF CornersAre
  <2>3. Adjacent(c[3], c[2])
    BY <1>0, <2>1, AlongAxis DEF CornersAre
  <2>4. Adjacent(c[4], c[3])
    BY <1>0, <2>1, AlongAxis DEF CornersAre
  <2>5. Adjacent(c[4], c[1])
    BY <1>0, <2>1, AlongAxis DEF CornersAre
  <2>6. Adjacent(c[5], c[6])
    BY <1>0, <2>1, AlongAxis DEF CornersAre
  <2>7. Adjacent(c[7], c[6])
    BY <1>0, <2>1, AlongAxis DEF CornersAre
  <2>8. Adjacent(c[8], c[7])
    BY <1>0, <2>1, AlongAxis DEF CornersAre
  <2>9. Adjacent(c[8], c[5])
    BY <1>0, <2>1, AlongAxis DEF CornersAre
  <2>10. Adjacent(c[1], c[5])
    BY <1>0, <2>1, AlongAxis DEF CornersAre
  <2>11. Adjacent(c[2], c[6])
    BY <1>0, <2>1, AlongAxis DEF CornersAre
  <2>12. Adjacent(c[3], c[7])
    BY <1>0, <2>1, AlongAxis DEF CornersAre
  <2>13. Adjacent(c[4], c[8])
    BY <1>0, <2>1, AlongAxis DEF CornersAre
  <2> QED BY <2>2, <2>3, <2>4, <2>5, <2>6, <2>7, <2>8, <2>9, <2>10, <2>11, <2>12, <2>13
<1>2. <<a, b>> \in {<<1, 2>>, <<2, 3>>, <<3, 4>>, <<4, 1>>, <<5, 6>>, <<6, 7>>, <<7, 8>>, <<8, 5>>,
                    <<1, 5>>, <<2, 6>>, <<3, 7>>, <<4, 8>>}
  BY DEF Cells!CellEdges
<1> QED BY <1>1, <1>2

(* A point between the ends of an edge lies in the cell (marchingcubes.cpp:123-134). *)
LEMMA OnCellEdge ==
  ASSUME CellLoop, NEW e \in 1 .. 12, Separates(Cells!CellCorners, e), NEW r,
         r = Cells!InterpolateVector(Cells!CellCorners[Cells!CellEdges[e][1]],
                                     Cells!CellCorners[Cells!CellEdges[e][2]])
  PROVE  OnSurface(r) /\ InCell(r)
<1>0. x \in Int /\ y \in Int /\ z \in Int
  BY DEF CellLoop
<1>c. PICK c : c = Cells!CellCorners
  OBVIOUS
<1>1. CornersAre(c)
  BY <1>c DEF Cells!CellCorners, CornersAre
<1>2. \A i \in {x, x + 1}, j \in {y, y + 1}, k \in {z, z + 1} : <<i, j, k>> \in Cells!GridPoints
  BY GeneratorAssumption DEF CellLoop, Cells!GridPoints
<1>3. \A n \in 1 .. 8 : c[n] \in Cells!GridPoints
  BY <1>1, <1>2 DEF CornersAre
<1>a. PICK a : a = Cells!CellEdges[e][1]
  OBVIOUS
<1>b. PICK b : b = Cells!CellEdges[e][2]
  OBVIOUS
<1>4. a \in 1 .. 8 /\ b \in 1 .. 8 /\ (Adjacent(c[a], c[b]) \/ Adjacent(c[b], c[a]))
  BY <1>1, <1>3, <1>a, <1>b, EdgesAligned
<1>5. \A n \in 1 .. 8 : c[n][1] \in {x, x + 1} /\ c[n][2] \in {y, y + 1} /\ c[n][3] \in {z, z + 1}
  BY <1>1 DEF CornersAre
<1>p. PICK p, q : Adjacent(p, q) /\ ((p = c[a] /\ q = c[b]) \/ (p = c[b] /\ q = c[a]))
  BY <1>4
<1>6. Cells!Inside(p) # Cells!Inside(q)
  BY <1>p, <1>c, <1>a, <1>b DEF Separates
<1>7. r = Cells!InterpolateVector(p, q) \/ r = Cells!InterpolateVector(q, p)
  BY <1>p, <1>c, <1>a, <1>b
<1>8. EdgePoint(p, q, r)
  BY <1>6, <1>7, <1>p, Interpolated
<1>9. InCell(r)
  <2>1. q[1] \in {x, x + 1} /\ q[2] \in {y, y + 1} /\ q[3] \in {z, z + 1}
    BY <1>4, <1>5, <1>p
  <2>2. p[1] \in {x, x + 1} /\ p[2] \in {y, y + 1} /\ p[3] \in {z, z + 1}
    BY <1>4, <1>5, <1>p
  <2>3. OnSurface(r)
    BY <1>8 DEF EdgePoint
  <2>4. r \in [1 .. 3 -> Int]
    BY <2>3 DEF OnSurface
  <2>5. r[1] \in Int /\ r[2] \in Int /\ r[3] \in Int
    BY <2>4
  <2>6. /\ r[1] - Steps * p[1] \in 0 .. Steps * (q[1] - p[1])
        /\ r[2] - Steps * p[2] \in 0 .. Steps * (q[2] - p[2])
        /\ r[3] - Steps * p[3] \in 0 .. Steps * (q[3] - p[3])
    BY <1>8 DEF EdgePoint
  <2>7. ASSUME NEW h \in Int, NEW s \in Int, NEW u \in {h, h + 1}, NEW v \in {h, h + 1},
               s - Steps * u \in 0 .. Steps * (v - u)
        PROVE  s - Steps * h \in 0 .. Steps
    <3>1. Steps \in Nat \ {0}
      BY GeneratorAssumption
    <3>2. CASE u = h /\ v = h
      BY <2>7, <3>1, <3>2
    <3>3. CASE u = h /\ v = h + 1
      BY <2>7, <3>1, <3>3
    <3>4. CASE u = h + 1 /\ v = h + 1
      <4>1. Steps * u = Steps * h + Steps /\ Steps * (v - u) = 0 /\ Steps * h \in Int
        BY <3>1, <3>4
      <4> QED BY <2>7, <3>1, <4>1
    <3>5. CASE u = h + 1 /\ v = h
      <4>1. v - u = -1 /\ Steps * (v - u) = 0 - Steps
        BY <3>1, <3>5
      <4> QED BY <2>7, <3>1, <4>1
    <3> QED BY <3>2, <3>3, <3>4, <3>5
  <2>8. r[1] - Steps * x \in 0 .. Steps
    BY <1>0, <2>1, <2>2, <2>5, <2>6, <2>7
  <2>9. r[2] - Steps * y \in 0 .. Steps
    BY <1>0, <2>1, <2>2, <2>5, <2>6, <2>7
  <2>10. r[3] - Steps * z \in 0 .. Steps
    BY <1>0, <2>1, <2>2, <2>5, <2>6, <2>7
  <2> QED BY <2>8, <2>9, <2>10 DEF InCell
<1> QED BY <1>8, <1>9 DEF EdgePoint

(* A row of triTable holds n triangles, three cut edges each; the count is where the first
   entry of a triangle is -1 (marchingcubes.cpp:136-141).                  *)
LEMMA TrianglesCounted ==
  ASSUME NEW c, NEW entries, RowFits(entries, c), NEW n,
         n = Cells!Min({i \in 0 .. (Len(entries) \div 3) : entries[3 * i + 1] < 0})
  PROVE  n \in 0 .. 4 /\ \A k \in 1 .. (3 * n) : CutIn(c, entries[k]) /\ entries[k] \in 0 .. 11
<1>1. Len(entries) \in {1, 4, 7, 10, 13} /\ entries[Len(entries)] < 0
  BY DEF RowFits
<1>2. \A k \in 1 .. (Len(entries) - 1) : CutIn(c, entries[k]) /\ entries[k] \in 0 .. 11
  BY DEF RowFits, CutIn
<1>3. PICK m \in 0 .. 4 : Len(entries) = 3 * m + 1
  BY <1>1
<1>4. {i \in 0 .. (Len(entries) \div 3) : entries[3 * i + 1] < 0} = {m}
  <2>1. Len(entries) \div 3 = m
    BY <1>3
  <2>2. \A i \in 0 .. m : i # m => 3 * i + 1 \in 1 .. (Len(entries) - 1)
    BY <1>3
  <2>3. \A i \in 0 .. m : i # m => ~ (entries[3 * i + 1] < 0)
    BY <1>2, <2>2
  <2>4. entries[3 * m + 1] < 0
    BY <1>1, <1>3
  <2> QED BY <2>1, <2>3, <2>4
<1>5. n = m
  BY <1>4 DEF Cells!Min
<1>6. 3 * n = Len(entries) - 1
  BY <1>3, <1>5
<1> QED BY <1>2, <1>5, <1>6

(* Polygonise computes the points of exactly the edges that are cut
   (marchingcubes.cpp:122-134).                                            *)
LEMMA CutEdgesAre ==
  ASSUME NEW c, EdgesFit(Cells!EdgeTable[c + 1], c), NEW e \in 0 .. 11, CutIn(c, e)
  PROVE  e + 1 \in Cells!CutEdges(c)
<1>b. PICK bits : bits = Cells!EdgeTable[c + 1]
  OBVIOUS
<1>1. Bit(bits, 2 ^ e) = 1
  <2>1. /\ 2 ^ 0 = 1 /\ 2 ^ 1 = 2 /\ 2 ^ 2 = 4 /\ 2 ^ 3 = 8 /\ 2 ^ 4 = 16 /\ 2 ^ 5 = 32
        /\ 2 ^ 6 = 64 /\ 2 ^ 7 = 128 /\ 2 ^ 8 = 256 /\ 2 ^ 9 = 512 /\ 2 ^ 10 = 1024 /\ 2 ^ 11 = 2048
    BY Powers
  <2>2. EdgesFit(bits, c)
    BY <1>b
  <2>3. /\ e = 0 => Bit(bits, 1) = 1
        /\ e = 1 => Bit(bits, 2) = 1
        /\ e = 2 => Bit(bits, 4) = 1
        /\ e = 3 => Bit(bits, 8) = 1
        /\ e = 4 => Bit(bits, 16) = 1
        /\ e = 5 => Bit(bits, 32) = 1
        /\ e = 6 => Bit(bits, 64) = 1
        /\ e = 7 => Bit(bits, 128) = 1
        /\ e = 8 => Bit(bits, 256) = 1
        /\ e = 9 => Bit(bits, 512) = 1
        /\ e = 10 => Bit(bits, 1024) = 1
        /\ e = 11 => Bit(bits, 2048) = 1
    BY <2>2 DEF EdgesFit
  <2>4. \/ e = 0 \/ e = 1 \/ e = 2 \/ e = 3 \/ e = 4 \/ e = 5
        \/ e = 6 \/ e = 7 \/ e = 8 \/ e = 9 \/ e = 10 \/ e = 11
    OBVIOUS
  <2>5. ASSUME NEW w, e = w PROVE 2 ^ e = 2 ^ w
    BY <2>5
  <2> HIDE DEF Bit
  <2>6. \A w : 2 ^ e = w /\ Bit(bits, w) = 1 => Bit(bits, 2 ^ e) = 1
    OBVIOUS
  <2>7. CASE e = 0
    BY <2>1, <2>3, <2>5, <2>6, <2>7
  <2>8. CASE e = 1
    BY <2>1, <2>3, <2>5, <2>6, <2>8
  <2>9. CASE e = 2
    BY <2>1, <2>3, <2>5, <2>6, <2>9
  <2>10. CASE e = 3
    BY <2>1, <2>3, <2>5, <2>6, <2>10
  <2>11. CASE e = 4
    BY <2>1, <2>3, <2>5, <2>6, <2>11
  <2>12. CASE e = 5
    BY <2>1, <2>3, <2>5, <2>6, <2>12
  <2>13. CASE e = 6
    BY <2>1, <2>3, <2>5, <2>6, <2>13
  <2>14. CASE e = 7
    BY <2>1, <2>3, <2>5, <2>6, <2>14
  <2>15. CASE e = 8
    BY <2>1, <2>3, <2>5, <2>6, <2>15
  <2>16. CASE e = 9
    BY <2>1, <2>3, <2>5, <2>6, <2>16
  <2>17. CASE e = 10
    BY <2>1, <2>3, <2>5, <2>6, <2>17
  <2>18. CASE e = 11
    BY <2>1, <2>3, <2>5, <2>6, <2>18
  <2> QED BY <2>4, <2>7, <2>8, <2>9, <2>10, <2>11, <2>12, <2>13, <2>14, <2>15, <2>16, <2>17, <2>18
<1>2. (bits \div 2 ^ e) % 2 = 1
  BY <1>1 DEF Bit
<1>3. e + 1 \in 1 .. 12 /\ (e + 1) - 1 = e
  OBVIOUS
<1> QED BY <1>b, <1>2, <1>3 DEF Cells!CutEdges

(* A triangle of the cell, with its points on the surface and close to each other. *)
Close(t) ==
    /\ t[1][1] - t[2][1] \in -Steps .. Steps /\ t[1][2] - t[2][2] \in -Steps .. Steps /\ t[1][3] - t[2][3] \in -Steps .. Steps
    /\ t[1][1] - t[3][1] \in -Steps .. Steps /\ t[1][2] - t[3][2] \in -Steps .. Steps /\ t[1][3] - t[3][3] \in -Steps .. Steps
    /\ t[2][1] - t[3][1] \in -Steps .. Steps /\ t[2][2] - t[3][2] \in -Steps .. Steps /\ t[2][3] - t[3][3] \in -Steps .. Steps

Triples == [1 .. 3 -> [1 .. 3 -> Int]]

TriangleFits(t) ==
    /\ t \in Triples /\ Close(t)
    /\ \A k \in 1 .. 3 : OnSurface(t[k]) /\ t[k] # Cells!Unset

TrianglesFit(ts) ==
    /\ ts \in Seq(Triples) /\ Len(ts) <= 5
    /\ \A n \in 1 .. Len(ts) : TriangleFits(ts[n])

(* Points of one cell are close to each other and none is the mark of a missing one. *)
LEMMA CellTriangle ==
  ASSUME CellLoop, NEW t, t = <<t[1], t[2], t[3]>>,
         \A k \in 1 .. 3 : OnSurface(t[k]) /\ InCell(t[k])
  PROVE  TriangleFits(t)
<1>0. x \in Nat /\ y \in Nat /\ z \in Nat
  BY GeneratorAssumption DEF CellLoop
<1>1. /\ t[1] \in [1 .. 3 -> Int] /\ t[2] \in [1 .. 3 -> Int] /\ t[3] \in [1 .. 3 -> Int]
      /\ InCell(t[1]) /\ InCell(t[2]) /\ InCell(t[3])
  BY DEF OnSurface
<1>2. t \in Triples
  BY <1>1 DEF Triples
<1>3. Close(t)
  <2>0. Steps \in Nat /\ Steps * x \in Int /\ Steps * y \in Int /\ Steps * z \in Int
    BY <1>0, GeneratorAssumption
  <2>1. \A h, u, v \in Int : u - h \in 0 .. Steps /\ v - h \in 0 .. Steps => u - v \in -Steps .. Steps
    BY <2>0
  <2>2. /\ t[1][1] \in Int /\ t[1][2] \in Int /\ t[1][3] \in Int
        /\ t[2][1] \in Int /\ t[2][2] \in Int /\ t[2][3] \in Int
        /\ t[3][1] \in Int /\ t[3][2] \in Int /\ t[3][3] \in Int
    BY <1>1
  <2>3. /\ t[1][1] - Steps * x \in 0 .. Steps /\ t[1][2] - Steps * y \in 0 .. Steps /\ t[1][3] - Steps * z \in 0 .. Steps
        /\ t[2][1] - Steps * x \in 0 .. Steps /\ t[2][2] - Steps * y \in 0 .. Steps /\ t[2][3] - Steps * z \in 0 .. Steps
        /\ t[3][1] - Steps * x \in 0 .. Steps /\ t[3][2] - Steps * y \in 0 .. Steps /\ t[3][3] - Steps * z \in 0 .. Steps
    BY <1>1 DEF InCell
  <2>4. t[1][1] - t[2][1] \in -Steps .. Steps /\ t[1][1] - t[3][1] \in -Steps .. Steps /\ t[2][1] - t[3][1] \in -Steps .. Steps
    BY <2>0, <2>1, <2>2, <2>3
  <2>5. t[1][2] - t[2][2] \in -Steps .. Steps /\ t[1][2] - t[3][2] \in -Steps .. Steps /\ t[2][2] - t[3][2] \in -Steps .. Steps
    BY <2>0, <2>1, <2>2, <2>3
  <2>6. t[1][3] - t[2][3] \in -Steps .. Steps /\ t[1][3] - t[3][3] \in -Steps .. Steps /\ t[2][3] - t[3][3] \in -Steps .. Steps
    BY <2>0, <2>1, <2>2, <2>3
  <2> QED BY <2>4, <2>5, <2>6 DEF Close
<1>4. ASSUME NEW k \in 1 .. 3 PROVE t[k] # Cells!Unset
  <2>1. t[k] \in [1 .. 3 -> Int] /\ InCell(t[k])
    BY DEF OnSurface
  <2>2. t[k][1] >= 0
    <3>1. Steps * x \in Nat /\ t[k][1] \in Int /\ t[k][1] - Steps * x \in 0 .. Steps
      BY <1>0, <2>1, GeneratorAssumption DEF InCell
    <3> QED BY <3>1
  <2> QED BY <2>2 DEF Cells!Unset
<1> QED BY <1>2, <1>3, <1>4 DEF TriangleFits

(* What polygonise writes (marchingcubes.cpp:108-142). *)
LEMMA PolygoniseFits == ASSUME CellLoop PROVE TrianglesFit(Cells!Polygonise)
<1>k. PICK corners : corners = Cells!CellCorners
  OBVIOUS
<1>c. PICK c : c = Cells!CubeIndex(corners)
  OBVIOUS
<1>p. PICK ts : ts = Cells!Polygonise
  OBVIOUS
<1>1. CaseOf(c, corners)
  BY <1>c, CubeIndexIs
<1>2. c \in 0 .. 255
  BY <1>1 DEF CaseOf
<1>3. CASE c \in {0, 255}
  <2>1. ts = <<>>
    BY <1>k, <1>c, <1>p, <1>3 DEF Cells!Polygonise
  <2>2. Len(ts) = 0 /\ ts \in Seq(Triples)
    BY <2>1
  <2>3. TrianglesFit(ts)
    BY <2>2 DEF TrianglesFit
  <2> QED BY <1>p, <2>3
<1>4. CASE c \notin {0, 255}
  <2>1. c \in 0 .. 254
    BY <1>2, <1>4
  <2>e. PICK entries : entries = Cells!TriTable[c + 1]
    OBVIOUS
  <2>q. PICK position : position = [e \in 1 .. 12 |->
            IF e \in Cells!CutEdges(c)
            THEN Cells!InterpolateVector(corners[Cells!CellEdges[e][1]], corners[Cells!CellEdges[e][2]])
            ELSE Cells!Unset]
    OBVIOUS
  <2>n. PICK n : n = Cells!Min({i \in 0 .. (Len(entries) \div 3) : entries[3 * i + 1] < 0})
    OBVIOUS
  <2>2. EdgesFit(Cells!EdgeTable[c + 1], c) /\ RowFits(entries, c)
    BY <2>1, <2>e, TablesFit DEF CaseFits
  <2>3. n \in 0 .. 4 /\ \A k \in 1 .. (3 * n) : CutIn(c, entries[k]) /\ entries[k] \in 0 .. 11
    BY <2>2, <2>n, TrianglesCounted
  <2>4. ts = [t \in 1 .. n |-> [k \in 1 .. 3 |-> position[entries[3 * (t - 1) + k] + 1]]]
    BY <1>k, <1>c, <1>p, <1>4, <2>e, <2>q, <2>n DEF Cells!Polygonise
  <2>5. ASSUME NEW e \in 0 .. 11, CutIn(c, e) PROVE OnSurface(position[e + 1]) /\ InCell(position[e + 1])
    <3>1. e + 1 \in Cells!CutEdges(c) /\ e + 1 \in 1 .. 12
      BY <2>2, <2>5, CutEdgesAre
    <3>2. position[e + 1]
             = Cells!InterpolateVector(corners[Cells!CellEdges[e + 1][1]], corners[Cells!CellEdges[e + 1][2]])
      BY <2>q, <3>1
    <3>3. Separates(Cells!CellCorners, e + 1)
      BY <1>1, <1>k, <2>5, CutSeparates
    <3> QED BY <1>k, <3>1, <3>2, <3>3, OnCellEdge
  <2>6. ASSUME NEW t \in 1 .. n PROVE TriangleFits(ts[t])
    <3>1. ts[t] = [k \in 1 .. 3 |-> position[entries[3 * (t - 1) + k] + 1]]
      BY <2>4
    <3>2. ASSUME NEW k \in 1 .. 3 PROVE OnSurface(ts[t][k]) /\ InCell(ts[t][k])
      <4>1. 3 * (t - 1) + k \in 1 .. (3 * n)
        BY <2>3
      <4>2. PICK e : e = entries[3 * (t - 1) + k]
        OBVIOUS
      <4>3. e \in 0 .. 11 /\ CutIn(c, e)
        BY <2>3, <4>1, <4>2
      <4>4. ts[t][k] = position[e + 1]
        BY <3>1, <4>2
      <4> QED BY <2>5, <4>3, <4>4
    <3>3. ts[t] = <<ts[t][1], ts[t][2], ts[t][3]>>
      BY <3>1
    <3> QED BY <3>2, <3>3, CellTriangle
  <2>7. \A t \in 1 .. n : ts[t] \in Triples
    BY <2>6 DEF TriangleFits
  <2>8. Len(ts) = n /\ ts \in Seq(Triples)
    BY <2>3, <2>4, <2>7
  <2>9. TrianglesFit(ts)
    BY <2>3, <2>6, <2>8 DEF TrianglesFit
  <2> QED BY <1>p, <2>9
<1> QED BY <1>3, <1>4

(* A mesh of marching cubes: numbers are those of vertices, and a vertex that is known by
   its number is found there.  One with a NaN is not known.                *)
CellMeshOf(m, V) ==
    /\ m = [vertices |-> m.vertices, indices |-> m.indices, uniqueVertices |-> m.uniqueVertices]
    /\ m.vertices \in Seq(V) /\ m.indices \in Seq(Int)
    /\ m.uniqueVertices \in [DOMAIN m.uniqueVertices -> Int] /\ DOMAIN m.uniqueVertices \subseteq V
    /\ \A v \in DOMAIN m.uniqueVertices :
          /\ m.uniqueVertices[v] \in 0 .. (Len(m.vertices) - 1)
          /\ m.vertices[m.uniqueVertices[v] + 1] = v
    /\ \A n \in 1 .. Len(m.indices) : m.indices[n] \in 0 .. (Len(m.vertices) - 1)

PointAdded(m, V, v, n) ==
    /\ CellMeshOf(n, V) /\ Grows(m, n) /\ n.indices = m.indices /\ Len(n.vertices) > 0
    /\ DOMAIN m.uniqueVertices \subseteq DOMAIN n.uniqueVertices
    /\ v.normal # Cells!NaN => v \in DOMAIN n.uniqueVertices

(* What appending to a sequence does. *)
LEMMA AppendFacts ==
  ASSUME NEW V, NEW s \in Seq(V), NEW v \in V
  PROVE  /\ Append(s, v) \in Seq(V) /\ Len(Append(s, v)) = Len(s) + 1 /\ Append(s, v)[Len(s) + 1] = v
         /\ \A k \in 1 .. Len(s) : Append(s, v)[k] = s[k]
OBVIOUS

(* A vertex with a NaN is added each time, another one if it is not known
   (marchingcubes.cpp:84-97). *)
LEMMA CellAddVertex ==
  ASSUME NEW V, NEW m, CellMeshOf(m, V), NEW v \in V
  PROVE  PointAdded(m, V, v, Cells!AddVertex(m, v))
<1>n. PICK n : n = Cells!AddVertex(m, v)
  OBVIOUS
<1>u. PICK u : u = m.uniqueVertices
  OBVIOUS
<1>w. PICK w : w = [k \in DOMAIN u \cup {v} |-> IF k = v THEN Len(m.vertices) ELSE u[k]]
  OBVIOUS
<1>vs. PICK vs : vs = Append(m.vertices, v)
  OBVIOUS
<1>0. m.vertices \in Seq(V) /\ m.indices \in Seq(Int) /\ Len(m.vertices) \in Nat
  BY DEF CellMeshOf
<1>m. m = [vertices |-> m.vertices, indices |-> m.indices, uniqueVertices |-> u]
  BY <1>u DEF CellMeshOf
<1>1. /\ vs \in Seq(V) /\ Len(vs) = Len(m.vertices) + 1 /\ vs[Len(m.vertices) + 1] = v
      /\ \A k \in 1 .. Len(m.vertices) : vs[k] = m.vertices[k]
  BY <1>0, <1>vs, AppendFacts
<1>2. \A k \in 1 .. Len(m.indices) : m.indices[k] \in 0 .. (Len(vs) - 1)
  <2>1. \A k \in 1 .. Len(m.indices) : m.indices[k] \in 0 .. (Len(m.vertices) - 1)
    BY DEF CellMeshOf
  <2> QED BY <1>0, <1>1, <2>1
<1>3. ASSUME NEW k \in DOMAIN u
      PROVE  u[k] \in 0 .. (Len(m.vertices) - 1) /\ u[k] \in 0 .. (Len(vs) - 1) /\ vs[u[k] + 1] = k
  <2>1. u[k] \in 0 .. (Len(m.vertices) - 1) /\ m.vertices[u[k] + 1] = k
    BY <1>u DEF CellMeshOf
  <2>2. u[k] + 1 \in 1 .. Len(m.vertices)
    BY <1>0, <2>1
  <2> QED BY <1>0, <1>1, <2>1, <2>2
<1>4. u \in [DOMAIN u -> Int] /\ DOMAIN u \subseteq V
  BY <1>u DEF CellMeshOf
<1>5. CASE v.normal = Cells!NaN
  <2>1. n = [m EXCEPT !.vertices = vs]
    BY <1>5, <1>n, <1>vs DEF Cells!AddVertex
  <2>2. n = [vertices |-> vs, indices |-> m.indices, uniqueVertices |-> u]
    BY <1>m, <2>1
  <2>3. n.vertices = vs /\ n.indices = m.indices /\ n.uniqueVertices = u
    BY <2>2
  <2>4. CellMeshOf(n, V)
    BY <1>0, <1>1, <1>2, <1>3, <1>4, <2>2, <2>3 DEF CellMeshOf
  <2>5. Grows(m, n) /\ Len(n.vertices) > 0
    BY <1>0, <1>1, <2>3 DEF Grows
  <2> QED BY <1>5, <1>n, <1>u, <2>3, <2>4, <2>5 DEF PointAdded
<1>6. CASE v.normal # Cells!NaN /\ v \in DOMAIN u
  <2>1. n = m
    BY <1>6, <1>n, <1>u DEF Cells!AddVertex
  <2>2. Grows(m, n) /\ Len(n.vertices) > 0
    BY <1>0, <1>3, <1>6, <2>1 DEF Grows
  <2> QED BY <1>6, <1>n, <1>u, <2>1, <2>2 DEF PointAdded
<1>7. CASE v.normal # Cells!NaN /\ v \notin DOMAIN u
  <2>1. n = [m EXCEPT !.vertices = vs, !.uniqueVertices = w]
    BY <1>7, <1>n, <1>u, <1>vs, <1>w DEF Cells!AddVertex
  <2>2. n = [vertices |-> vs, indices |-> m.indices, uniqueVertices |-> w]
    BY <1>m, <2>1
  <2>3. n.vertices = vs /\ n.indices = m.indices /\ n.uniqueVertices = w
    BY <2>2
  <2>4. DOMAIN w = DOMAIN u \cup {v} /\ w[v] = Len(m.vertices) /\ \A k \in DOMAIN u : w[k] = u[k]
    BY <1>7, <1>w
  <2>5. w \in [DOMAIN w -> Int] /\ DOMAIN w \subseteq V
    <3>1. w = [k \in DOMAIN w |-> w[k]]
      BY <1>w
    <3>2. \A k \in DOMAIN w : w[k] \in Int
      BY <1>0, <1>4, <2>4
    <3> QED BY <1>4, <2>4, <3>1, <3>2
  <2>6. \A k \in DOMAIN w : w[k] \in 0 .. (Len(vs) - 1) /\ vs[w[k] + 1] = k
    <3>1. w[v] \in 0 .. (Len(vs) - 1) /\ vs[w[v] + 1] = v
      BY <1>0, <1>1, <2>4
    <3> QED BY <1>3, <2>4, <3>1
  <2>7. CellMeshOf(n, V)
    BY <1>0, <1>1, <1>2, <2>2, <2>3, <2>5, <2>6 DEF CellMeshOf
  <2>8. Grows(m, n) /\ Len(n.vertices) > 0
    BY <1>0, <1>1, <2>3 DEF Grows
  <2> QED BY <1>n, <1>u, <2>3, <2>4, <2>7, <2>8 DEF PointAdded
<1> QED BY <1>5, <1>6, <1>7, <1>u

(* Growing twice is growing. *)
LEMMA CellGrowsTransitive ==
  ASSUME NEW V, NEW a, NEW b, NEW c, CellMeshOf(a, V), CellMeshOf(b, V), CellMeshOf(c, V), Grows(a, b), Grows(b, c)
  PROVE  Grows(a, c)
<1>1. Len(a.vertices) \in Nat /\ Len(b.vertices) \in Nat /\ Len(c.vertices) \in Nat
  BY DEF CellMeshOf
<1>2. \A k \in 1 .. Len(a.vertices) : k \in 1 .. Len(b.vertices)
  BY <1>1 DEF Grows
<1> QED BY <1>1, <1>2 DEF Grows

(* A triangle is added with the vertices it has, or with vertex 0 three times. *)
TriangleAdded(m, V, t, n) ==
    /\ CellMeshOf(n, V) /\ Grows(m, n)
    /\ Len(n.indices) = Len(m.indices) + 3
    /\ \A k \in 1 .. Len(m.indices) : n.indices[k] = m.indices[k]
    /\ \/ \A k \in 1 .. 3 : n.indices[Len(m.indices) + k] = 0
       \/ \A k \in 1 .. 3 : n.vertices[n.indices[Len(m.indices) + k] + 1] = Cells!Vertex(t, k)

(* A triangle is added with its own vertices or, where they have no normal, with
   vertex 0 three times (marchingcubes.cpp:61-102). *)
LEMMA CellAddTriangle ==
  ASSUME NEW V, NEW m, CellMeshOf(m, V), NEW t, \A k \in 1 .. 3 : Cells!Vertex(t, k) \in V
  PROVE  TriangleAdded(m, V, t, Cells!AddTriangle(m, t))
<1>n. PICK n : n = Cells!AddTriangle(m, t)
  OBVIOUS
<1>v. PICK vertex : vertex = [k \in 1 .. 3 |-> Cells!Vertex(t, k)]
  OBVIOUS
<1>1. vertex[1] \in V /\ vertex[2] \in V /\ vertex[3] \in V
  BY <1>v
<1>a. PICK a : a = Cells!AddVertex(m, vertex[1])
  OBVIOUS
<1>b. PICK b : b = Cells!AddVertex(a, vertex[2])
  OBVIOUS
<1>d. PICK d : d = Cells!AddVertex(b, vertex[3])
  OBVIOUS
<1>s. PICK three : three = [k \in 1 .. 3 |-> Cells!NumberOf(d, vertex[k])]
  OBVIOUS
<1>2. n = [d EXCEPT !.indices = Joined(d.indices, three)]
  BY <1>n, <1>v, <1>a, <1>b, <1>d, <1>s DEF Cells!AddTriangle, Joined
<1>3. PointAdded(m, V, vertex[1], a)
  BY <1>1, <1>a, CellAddVertex
<1>4. PointAdded(a, V, vertex[2], b)
  <2>1. CellMeshOf(a, V)
    BY <1>3 DEF PointAdded
  <2> QED BY <1>1, <1>b, <2>1, CellAddVertex
<1>5. PointAdded(b, V, vertex[3], d)
  <2>1. CellMeshOf(b, V)
    BY <1>4 DEF PointAdded
  <2> QED BY <1>1, <1>d, <2>1, CellAddVertex
<1>6. Grows(m, d) /\ CellMeshOf(d, V) /\ d.indices = m.indices
  BY <1>3, <1>4, <1>5, CellGrowsTransitive DEF PointAdded
<1>7. \A k \in 1 .. 3 : vertex[k].normal # Cells!NaN => vertex[k] \in DOMAIN d.uniqueVertices
  <2>1. vertex[1].normal # Cells!NaN => vertex[1] \in DOMAIN d.uniqueVertices
    BY <1>3, <1>4, <1>5 DEF PointAdded
  <2>2. vertex[2].normal # Cells!NaN => vertex[2] \in DOMAIN d.uniqueVertices
    BY <1>4, <1>5 DEF PointAdded
  <2>3. vertex[3].normal # Cells!NaN => vertex[3] \in DOMAIN d.uniqueVertices
    BY <1>5 DEF PointAdded
  <2> QED BY <2>1, <2>2, <2>3
<1>8. Len(d.vertices) \in Nat /\ Len(d.vertices) > 0
  BY <1>5, <1>6 DEF PointAdded, CellMeshOf
<1>9. \A k \in 1 .. 3 : vertex[k].normal = Cells!Normal(t) /\ vertex[k] = Cells!Vertex(t, k)
  BY <1>v DEF Cells!Vertex
<1>10. \/ \A k \in 1 .. 3 : three[k] = 0
       \/ \A k \in 1 .. 3 : three[k] \in 0 .. (Len(d.vertices) - 1) /\ d.vertices[three[k] + 1] = Cells!Vertex(t, k)
  <2>1. CASE Cells!Normal(t) = Cells!NaN
    BY <1>9, <1>s, <2>1 DEF Cells!NumberOf
  <2>2. CASE Cells!Normal(t) # Cells!NaN
    <3>1. ASSUME NEW k \in 1 .. 3
          PROVE  three[k] \in 0 .. (Len(d.vertices) - 1) /\ d.vertices[three[k] + 1] = Cells!Vertex(t, k)
      <4>1. three[k] = d.uniqueVertices[vertex[k]] /\ vertex[k] \in DOMAIN d.uniqueVertices
        BY <1>7, <1>9, <1>s, <2>2 DEF Cells!NumberOf
      <4> QED BY <1>6, <1>9, <4>1 DEF CellMeshOf
    <3> QED BY <3>1
  <2> QED BY <2>1, <2>2
<1>11. \A k \in 1 .. 3 : three[k] \in 0 .. (Len(d.vertices) - 1)
  BY <1>8, <1>10
<1>12. three \in Seq(Int) /\ Len(three) = 3
  <2>1. three[1] \in Int /\ three[2] \in Int /\ three[3] \in Int
    BY <1>8, <1>11
  <2>2. PICK i \in Int, j \in Int, k \in Int : i = three[1] /\ j = three[2] /\ k = three[3]
    BY <2>1
  <2>3. three = <<i, j, k>>
    BY <1>s, <2>2
  <2> QED BY <2>3
<1>13. n = [vertices |-> d.vertices, indices |-> Joined(d.indices, three), uniqueVertices |-> d.uniqueVertices]
  <2>1. d = [vertices |-> d.vertices, indices |-> d.indices, uniqueVertices |-> d.uniqueVertices]
    BY <1>6 DEF CellMeshOf
  <2> QED BY <1>2, <2>1, MeshUpdates
<1>14. n.vertices = d.vertices /\ n.indices = Joined(d.indices, three) /\ n.uniqueVertices = d.uniqueVertices
  BY <1>13
<1>15. d.indices \in Seq(Int) /\ d.vertices \in Seq(V)
  BY <1>6 DEF CellMeshOf
<1>16. /\ n.indices \in Seq(Int) /\ Len(n.indices) = Len(m.indices) + 3
       /\ \A k \in 1 .. Len(m.indices) : n.indices[k] = m.indices[k]
       /\ \A k \in 1 .. 3 : n.indices[Len(m.indices) + k] = three[k]
       /\ \A k \in 1 .. Len(n.indices) :
             k \in 1 .. Len(m.indices)
               \/ (k - Len(m.indices) \in 1 .. 3 /\ k = Len(m.indices) + (k - Len(m.indices)))
  <2>p. PICK p : p = d.indices
    OBVIOUS
  <2>1. p \in Seq(Int) /\ p = m.indices /\ n.indices = Joined(p, three)
    BY <1>6, <1>14, <1>15, <2>p
  <2>2. IsJoin(p, three, n.indices)
    BY <1>12, <2>1, JoinedIs
  <2> QED BY <1>12, <2>1, <2>2 DEF IsJoin
<1>17. \A k \in 1 .. Len(n.indices) : n.indices[k] \in 0 .. (Len(n.vertices) - 1)
  <2>1. \A k \in 1 .. Len(m.indices) : n.indices[k] \in 0 .. (Len(n.vertices) - 1)
    BY <1>6, <1>14, <1>16 DEF CellMeshOf
  <2>2. \A k \in 1 .. 3 : n.indices[Len(m.indices) + k] \in 0 .. (Len(n.vertices) - 1)
    BY <1>11, <1>14, <1>16
  <2> QED BY <2>1, <2>2, <1>16
<1>18. CellMeshOf(n, V)
  BY <1>6, <1>13, <1>14, <1>15, <1>16, <1>17 DEF CellMeshOf
<1>19. Grows(m, n)
  BY <1>6, <1>14 DEF Grows
<1>20. \/ \A k \in 1 .. 3 : n.indices[Len(m.indices) + k] = 0
       \/ \A k \in 1 .. 3 : n.vertices[n.indices[Len(m.indices) + k] + 1] = Cells!Vertex(t, k)
  BY <1>10, <1>14, <1>16
<1> QED BY <1>n, <1>16, <1>18, <1>19, <1>20 DEF TriangleAdded

(* The positions of triangle n, n + 1, n + 2 are close to each other. *)
TriangleStays(m, n) == Close(<<PositionIn(m, n), PositionIn(m, n + 1), PositionIn(m, n + 2)>>)

Normals == {Cells!Normal(t) : t \in Triples}
CellVertices == [position : [1 .. 3 -> Int], normal : Normals]

MeshFits(m) ==
    /\ CellMeshOf(m, CellVertices)
    /\ \E c \in Nat : Len(m.indices) = 3 * c
    /\ \A n \in 1 .. Len(m.indices) : n % 3 = 1 => TriangleStays(m, n)

(* A point is close to itself. *)
LEMMA SamePoint ==
  ASSUME NEW p \in [1 .. 3 -> Int]
  PROVE  Close(<<p, p, p>>)
<1>1. p[1] \in Int /\ p[2] \in Int /\ p[3] \in Int
  OBVIOUS
<1>2. \A i \in Int : i - i \in -Steps .. Steps
  BY GeneratorAssumption
<1> QED BY <1>1, <1>2 DEF Close

(* One more triangle of the cell stays in it, and so do all before it
   (marchingcubes.cpp:61-102). *)
LEMMA AddTriangleFits ==
  ASSUME NEW m, MeshFits(m), NEW t, TriangleFits(t)
  PROVE  MeshFits(Cells!AddTriangle(m, t))
<1>n. PICK n : n = Cells!AddTriangle(m, t)
  OBVIOUS
<1>l. PICK l : l = Len(m.indices)
  OBVIOUS
<1>1. t \in Triples /\ Close(t)
  BY DEF TriangleFits
<1>2. ASSUME NEW k \in 1 .. 3 PROVE Cells!Vertex(t, k) \in CellVertices
  <2>1. t[k] \in [1 .. 3 -> Int]
    BY <1>1 DEF Triples
  <2>w. PICK w : w = Cells!Normal(t)
    OBVIOUS
  <2>2. w \in Normals
    BY <1>1, <2>w DEF Normals
  <2>3. Cells!Vertex(t, k) = [position |-> t[k], normal |-> w]
    BY <2>w DEF Cells!Vertex
  <2> QED BY <2>1, <2>2, <2>3 DEF CellVertices
<1>3. TriangleAdded(m, CellVertices, t, n)
  BY <1>2, <1>n, CellAddTriangle DEF MeshFits
<1>c. PICK c \in Nat : l = 3 * c
  BY <1>l DEF MeshFits
<1>4. /\ CellMeshOf(n, CellVertices) /\ Grows(m, n) /\ Len(n.indices) = l + 3
      /\ \A k \in 1 .. l : n.indices[k] = m.indices[k]
      /\ \/ \A k \in 1 .. 3 : n.indices[l + k] = 0
         \/ \A k \in 1 .. 3 : n.vertices[n.indices[l + k] + 1] = Cells!Vertex(t, k)
  BY <1>3, <1>l DEF TriangleAdded
<1>5. \E k \in Nat : Len(n.indices) = 3 * k
  <2>1. c + 1 \in Nat /\ l + 3 = 3 * (c + 1)
    BY <1>c
  <2> QED BY <1>4, <2>1
<1>6. ASSUME NEW k \in 1 .. l PROVE PositionIn(n, k) = PositionIn(m, k)
  <2>1. m.indices[k] \in 0 .. (Len(m.vertices) - 1)
    BY <1>l DEF MeshFits, CellMeshOf
  <2>2. Len(m.vertices) \in Nat
    BY DEF MeshFits, CellMeshOf
  <2>3. m.indices[k] + 1 \in 1 .. Len(m.vertices)
    BY <2>1, <2>2
  <2>4. n.vertices[m.indices[k] + 1] = m.vertices[m.indices[k] + 1]
    BY <1>4, <2>3 DEF Grows
  <2> QED BY <1>4, <2>4 DEF PositionIn
<1>7. ASSUME NEW k \in 1 .. l, k % 3 = 1 PROVE TriangleStays(n, k)
  <2>1. k + 1 \in 1 .. l /\ k + 2 \in 1 .. l
    BY <1>7, <1>c
  <2>2. TriangleStays(m, k)
    BY <1>7, <1>l DEF MeshFits
  <2> QED BY <1>6, <2>1, <2>2 DEF TriangleStays
<1>8. TriangleStays(n, l + 1)
  <2>1. (l + 1) + 1 = l + 2 /\ (l + 1) + 2 = l + 3
    BY <1>c
  <2>2. CASE \A k \in 1 .. 3 : n.indices[l + k] = 0
    <3>1. /\ n.indices[l + 1] = 0 /\ n.indices[l + 2] = 0 /\ n.indices[l + 3] = 0
      BY <2>2
    <3>p. PICK p : p = n.vertices[0 + 1].position
      OBVIOUS
    <3>2. PositionIn(n, l + 1) = p /\ PositionIn(n, l + 2) = p /\ PositionIn(n, l + 3) = p
      BY <3>1, <3>p DEF PositionIn
    <3>3. n.vertices[0 + 1] \in CellVertices
      <4>1. l + 1 \in 1 .. Len(n.indices)
        BY <1>4, <1>c
      <4>2. 0 \in 0 .. (Len(n.vertices) - 1)
        BY <1>4, <3>1, <4>1 DEF CellMeshOf
      <4>3. n.vertices \in Seq(CellVertices) /\ Len(n.vertices) \in Nat
        BY <1>4 DEF CellMeshOf
      <4>4. 0 + 1 \in 1 .. Len(n.vertices)
        BY <4>2, <4>3
      <4> QED BY <4>3, <4>4
    <3>4. p \in [1 .. 3 -> Int]
      BY <3>3, <3>p DEF CellVertices
    <3>5. Close(<<p, p, p>>)
      BY <3>4, SamePoint
    <3> QED BY <2>1, <3>2, <3>5 DEF TriangleStays
  <2>3. CASE \A k \in 1 .. 3 : n.vertices[n.indices[l + k] + 1] = Cells!Vertex(t, k)
    <3>1. PositionIn(n, l + 1) = t[1] /\ PositionIn(n, l + 2) = t[2] /\ PositionIn(n, l + 3) = t[3]
      BY <2>3 DEF PositionIn, Cells!Vertex
    <3>2. t = <<t[1], t[2], t[3]>>
      BY <1>1 DEF Triples
    <3> QED BY <1>1, <2>1, <3>1, <3>2 DEF TriangleStays
  <2> QED BY <1>4, <2>2, <2>3
<1>9. ASSUME NEW k \in 1 .. Len(n.indices), k % 3 = 1 PROVE TriangleStays(n, k)
  <2>1. k \in 1 .. l \/ k = l + 1
    BY <1>4, <1>9, <1>c
  <2> QED BY <1>7, <1>8, <1>9, <2>1
<1>10. MeshFits(n)
  BY <1>4, <1>5, <1>9 DEF MeshFits
<1> QED BY <1>n, <1>10

(* The loop over the triangles adds one after the other (marchingcubes.cpp:61-102). *)
AddedOneByOne(grown, m, ts) ==
    /\ Cells!AddTriangles(m, ts) = grown[Len(ts)]
    /\ grown[0] = m /\ \A n \in Nat : grown[n + 1] = Cells!AddTriangle(grown[n], ts[n + 1])

(* AddTriangles is the function its recursion says, whatever the triangles are. *)
LEMMA TrianglesAreAdded ==
  ASSUME NEW V, NEW m, CellMeshOf(m, V), NEW ts
  PROVE  \E grown : AddedOneByOne(grown, m, ts)
<1> DEFINE W == V \cup {Cells!Vertex(ts[n], k) : n \in Nat, k \in 1 .. 3}
           X == {s \in [vertices : Seq(W), indices : Seq(Int),
                        uniqueVertices : UNION {[D -> Int] : D \in SUBSET W}] : CellMeshOf(s, W)}
           step == [p \in Nat \X X |-> Cells!AddTriangle(p[2], ts[p[1] + 1])]
           Body(g) == [n \in Nat |-> IF n = 0 THEN m ELSE Cells!AddTriangle(g[n - 1], ts[n])]
           grown == CHOOSE g : g = Body(g)
<1>1. ASSUME NEW s, CellMeshOf(s, W) PROVE s \in X
  <2> HIDE DEF W
  <2>1. /\ s = [vertices |-> s.vertices, indices |-> s.indices, uniqueVertices |-> s.uniqueVertices]
        /\ s.vertices \in Seq(W) /\ s.indices \in Seq(Int)
        /\ s.uniqueVertices \in [DOMAIN s.uniqueVertices -> Int] /\ DOMAIN s.uniqueVertices \in SUBSET W
    BY <1>1 DEF CellMeshOf
  <2>2. s.uniqueVertices \in UNION {[D -> Int] : D \in SUBSET W}
    BY <2>1
  <2> HIDE DEF CellMeshOf
  <2> QED BY <1>1, <2>1, <2>2
<1>2. ASSUME NEW s \in X PROVE CellMeshOf(s, W)
  <2> HIDE DEF W
  <2> QED OBVIOUS
<1>3. CellMeshOf(m, W)
  <2>1. V \subseteq W
    OBVIOUS
  <2> HIDE DEF W
  <2>2. m.vertices \in Seq(V)
    BY DEF CellMeshOf
  <2>3. m.vertices \in Seq(W)
    BY <2>1, <2>2
  <2> QED BY <2>1, <2>3 DEF CellMeshOf
<1>4. ASSUME NEW n \in Nat, NEW s \in X PROVE Cells!AddTriangle(s, ts[n + 1]) \in X
  <2>1. \A k \in 1 .. 3 : Cells!Vertex(ts[n + 1], k) \in W
    OBVIOUS
  <2>2. CellMeshOf(s, W)
    BY <1>2
  <2> HIDE DEF W
  <2>3. TriangleAdded(s, W, ts[n + 1], Cells!AddTriangle(s, ts[n + 1]))
    BY <2>1, <2>2, CellAddTriangle
  <2>4. CellMeshOf(Cells!AddTriangle(s, ts[n + 1]), W)
    BY <2>3 DEF TriangleAdded
  <2> HIDE DEF X
  <2> QED BY <1>1, <2>4
<1>5. m \in X
  <2> HIDE DEF X, W
  <2> QED BY <1>1, <1>3
<1> HIDE DEF X, W
<1>6. step \in [Nat \X X -> X]
  BY <1>4
<1>7. \E f : Recurs(f, X, m, step)
  <2> HIDE DEF step
  <2> QED BY <1>5, <1>6, PrimitiveRecursion
<1>8. PICK f : /\ f = [n \in Nat |-> f[n]] /\ \A n \in Nat : f[n] \in X
               /\ f[0] = m /\ \A n \in Nat : f[n + 1] = step[<<n, f[n]>>]
  <2> HIDE DEF step
  <2> QED BY <1>7 DEF Recurs
<1>9. ASSUME NEW n \in Nat PROVE f[n + 1] = Cells!AddTriangle(f[n], ts[n + 1])
  <2>1. <<n, f[n]>> \in Nat \X X
    BY <1>8
  <2> QED BY <1>8, <2>1
<1>10. ASSUME NEW n \in Nat
       PROVE  f[n] = IF n = 0 THEN m ELSE Cells!AddTriangle(f[n - 1], ts[n])
  <2>1. CASE n = 0
    BY <1>8, <2>1
  <2>2. CASE n # 0
    <3>1. n - 1 \in Nat /\ (n - 1) + 1 = n
      BY <2>2
    <3>2. f[(n - 1) + 1] = Cells!AddTriangle(f[n - 1], ts[(n - 1) + 1])
      BY <1>9, <3>1
    <3> QED BY <2>2, <3>1, <3>2
  <2> QED BY <2>1, <2>2
<1>11. f = Body(f)
  BY <1>8, <1>10
<1>12. grown = Body(grown)
  <2> HIDE DEF Body
  <2> QED BY <1>11
<1>13. Cells!AddTriangles(m, ts) = grown[Len(ts)]
  BY DEF Cells!AddTriangles
<1> HIDE DEF grown
<1>14. ASSUME NEW n \in Nat
       PROVE  grown[n] = IF n = 0 THEN m ELSE Cells!AddTriangle(grown[n - 1], ts[n])
  BY <1>12
<1>15. grown[0] = m
  BY <1>14
<1>16. ASSUME NEW n \in Nat PROVE grown[n + 1] = Cells!AddTriangle(grown[n], ts[n + 1])
  <2>1. n + 1 \in Nat /\ n + 1 # 0 /\ (n + 1) - 1 = n
    OBVIOUS
  <2> QED BY <1>14, <2>1
<1> QED BY <1>13, <1>15, <1>16 DEF AddedOneByOne

(* All triangles of the cell are added (marchingcubes.cpp:61-102). *)
LEMMA AddTrianglesFits ==
  ASSUME NEW m, MeshFits(m), NEW ts, TrianglesFit(ts)
  PROVE  MeshFits(Cells!AddTriangles(m, ts))
<1>1. PICK grown : AddedOneByOne(grown, m, ts)
  BY TrianglesAreAdded DEF MeshFits
<1>2. /\ Cells!AddTriangles(m, ts) = grown[Len(ts)]
      /\ grown[0] = m /\ \A n \in Nat : grown[n + 1] = Cells!AddTriangle(grown[n], ts[n + 1])
  BY <1>1 DEF AddedOneByOne
<1>3. Len(ts) \in Nat /\ \A n \in 1 .. Len(ts) : TriangleFits(ts[n])
  BY DEF TrianglesFit
<1> DEFINE S == {n \in Nat : n <= Len(ts) => MeshFits(grown[n])}
<1>4. 0 \in S
  BY <1>2
<1>5. ASSUME NEW n \in Nat, n \in S PROVE n + 1 \in S
  <2>1. ASSUME n + 1 <= Len(ts) PROVE MeshFits(grown[n + 1])
    <3>1. n <= Len(ts) /\ n + 1 \in 1 .. Len(ts)
      BY <1>3, <2>1
    <3>2. MeshFits(grown[n]) /\ TriangleFits(ts[n + 1])
      BY <1>3, <1>5, <3>1
    <3> QED BY <1>2, <3>2, AddTriangleFits
  <2> QED BY <2>1
<1>6. Nat \subseteq S
  <2> HIDE DEF S
  <2> QED BY <1>4, <1>5, NaturalInduction
<1>7. MeshFits(grown[Len(ts)])
  BY <1>3, <1>6
<1> QED BY <1>2, <1>7

(* The invariant of the generator, and what it gives. *)
CellsInv == CellLoop /\ TrianglesFit(triangles) /\ MeshFits(cellMesh)

(* The loops start at the first cell with an empty mesh (marchingcubes.cpp:17-26). *)
LEMMA CellsStart == ASSUME Cells!Init PROVE CellsInv
<1>1. CellLoop
  BY GeneratorAssumption DEF Cells!Init, CellLoop
<1>2. TrianglesFit(triangles)
  <2>1. triangles = <<>>
    BY DEF Cells!Init
  <2>2. Len(triangles) = 0 /\ triangles \in Seq(Triples)
    BY <2>1
  <2> QED BY <2>2 DEF TrianglesFit
<1>3. MeshFits(cellMesh)
  <2>1. cellMesh = [vertices |-> <<>>, indices |-> <<>>, uniqueVertices |-> [v \in {} |-> 0]]
    BY DEF Cells!Init
  <2>2. /\ cellMesh.vertices = <<>> /\ cellMesh.indices = <<>>
        /\ DOMAIN cellMesh.uniqueVertices = {} /\ cellMesh.uniqueVertices = [v \in {} |-> 0]
    BY <2>1
  <2>3. /\ Len(cellMesh.indices) = 3 * 0 /\ Len(cellMesh.vertices) = 0 /\ cellMesh.indices \in Seq(Int)
        /\ cellMesh.vertices \in Seq(CellVertices)
    BY <2>2
  <2>4. cellMesh.uniqueVertices \in [DOMAIN cellMesh.uniqueVertices -> Int]
    BY <2>2
  <2>5. cellMesh = [vertices |-> cellMesh.vertices, indices |-> cellMesh.indices,
                    uniqueVertices |-> cellMesh.uniqueVertices]
    BY <2>1
  <2>6. CellMeshOf(cellMesh, CellVertices)
    BY <2>2, <2>3, <2>4, <2>5 DEF CellMeshOf
  <2> QED BY <2>3, <2>6 DEF MeshFits
<1> QED BY <1>1, <1>2, <1>3 DEF CellsInv

(* Each cell keeps the invariant (marchingcubes.cpp:24-105). *)
LEMMA CellsStep == ASSUME CellsInv, Cells!GenerateCell PROVE CellsInv'
<1>1. CellLoop'
  <2> USE GeneratorAssumption DEF CellsInv, CellLoop, Cells!GenerateCell, Cells!Advance
  <2> QED OBVIOUS
<1>2. triangles' = Cells!Polygonise /\ cellMesh' = Cells!AddTriangles(cellMesh, triangles') /\ UNCHANGED surface
  BY DEF Cells!GenerateCell
<1>t. PICK ts : ts = triangles'
  OBVIOUS
<1>3. TrianglesFit(ts)
  BY <1>2, <1>t, PolygoniseFits DEF CellsInv
<1>4. MeshFits(cellMesh')
  BY <1>2, <1>3, <1>t, AddTrianglesFits DEF CellsInv
<1>5. TrianglesFit(triangles)'
  <2>1. \A n, k : OnSurface(triangles[n][k])' <=> OnSurface(ts[n][k])
    BY <1>2, <1>t DEF OnSurface, Near, Crosses
  <2>2. ASSUME NEW n \in 1 .. Len(ts) PROVE TriangleFits(triangles[n])'
    <3>1. ts[n] \in Triples /\ Close(ts[n]) /\ \A k \in 1 .. 3 : OnSurface(ts[n][k]) /\ ts[n][k] # Cells!Unset
      BY <1>3 DEF TrianglesFit, TriangleFits
    <3> QED BY <1>t, <2>1, <3>1 DEF TriangleFits
  <2> QED BY <1>3, <1>t, <2>2 DEF TrianglesFit
<1>6. MeshFits(cellMesh)'
  BY <1>4
<1> QED BY <1>1, <1>5, <1>6 DEF CellsInv

(* Indices are those of vertices, and the loops stay in the grid (marchingcubes.cpp:24-105). *)
LEMMA CellsTypes == ASSUME CellsInv PROVE Cells!MarchingTypeOK
<1>1. \A n \in 1 .. Len(cellMesh.indices) : cellMesh.indices[n] \in 0 .. (Len(cellMesh.vertices) - 1)
  BY DEF CellsInv, MeshFits, CellMeshOf
<1>2. DOMAIN cellMesh.indices = 1 .. Len(cellMesh.indices)
  <2>1. cellMesh.indices \in Seq(Int)
    BY DEF CellsInv, MeshFits, CellMeshOf
  <2> QED BY <2>1
<1>3. {x, y, z} \subseteq 0 .. (cells - 1) /\ cellPc \in {"loop", "built"}
  BY DEF CellsInv, CellLoop
<1> QED BY <1>1, <1>2, <1>3 DEF Cells!MarchingTypeOK

(* No triangle has a point that was not computed (marchingcubes.cpp:55, 121-140). *)
LEMMA TablesAgreeInCells == ASSUME CellsInv PROVE Cells!TablesAgree
<1>1. triangles \in Seq(Triples) /\ Len(triangles) <= 5 /\ \A n \in 1 .. Len(triangles) : TriangleFits(triangles[n])
  BY DEF CellsInv, TrianglesFit
<1>2. DOMAIN triangles = 1 .. Len(triangles)
  BY <1>1
<1>3. ASSUME NEW n \in DOMAIN triangles PROVE Cells!Unset \notin Cells!Range(triangles[n])
  <2>1. triangles[n] \in Triples /\ \A k \in 1 .. 3 : triangles[n][k] # Cells!Unset
    BY <1>1, <1>2 DEF TriangleFits
  <2>2. DOMAIN triangles[n] = 1 .. 3
    BY <2>1 DEF Triples
  <2> QED BY <2>1, <2>2 DEF Cells!Range
<1> QED BY <1>1, <1>3 DEF Cells!TablesAgree

(* Every point is on the surface (marchingcubes.cpp:144-161). *)
LEMMA OnSurfaceInCells == ASSUME CellsInv PROVE Cells!VerticesOnSurface
<1>1. triangles \in Seq(Triples) /\ \A n \in 1 .. Len(triangles) : TriangleFits(triangles[n])
  BY DEF CellsInv, TrianglesFit
<1>2. DOMAIN triangles = 1 .. Len(triangles)
  BY <1>1
<1>3. \A n \in DOMAIN triangles, k \in 1 .. 3 : OnSurface(triangles[n][k])
  BY <1>1, <1>2 DEF TriangleFits
<1>4. ASSUME NEW r, OnSurface(r)
      PROVE  LET p == [n \in 1 .. 3 |-> r[n] \div Steps]
                 q == [n \in 1 .. 3 |-> (r[n] + Steps - 1) \div Steps]
                 d == (r[1] - Steps * p[1]) + (r[2] - Steps * p[2]) + (r[3] - Steps * p[3])
             IN  IF p = q THEN Near(p) ELSE Crosses(p, q, d)
  BY <1>4, Zenon DEF OnSurface
<1> HIDE DEF OnSurface
<1> QED BY <1>3, <1>4 DEF Cells!VerticesOnSurface, Near, Crosses

(* No triangle leaves its cell, those of vertex 0 included (marchingcubes.cpp:62-101). *)
LEMMA NoStrayInCells == ASSUME CellsInv PROVE Cells!NoStrayTriangle
<1>m. PICK m : m = cellMesh
  OBVIOUS
<1>1. MeshFits(m)
  BY <1>m DEF CellsInv
<1>2. /\ m.indices \in Seq(Int) /\ m.vertices \in Seq(CellVertices)
      /\ \A n \in 1 .. Len(m.indices) : m.indices[n] \in 0 .. (Len(m.vertices) - 1)
      /\ \A n \in 1 .. Len(m.indices) : n % 3 = 1 => TriangleStays(m, n)
  BY <1>1 DEF MeshFits, CellMeshOf
<1>c. PICK c \in Nat : Len(m.indices) = 3 * c
  BY <1>1 DEF MeshFits
<1>3. DOMAIN m.indices = 1 .. Len(m.indices)
  BY <1>2
<1>4. \A n : Cells!PositionOf(n) = PositionIn(m, n)
  BY <1>m DEF Cells!PositionOf, PositionIn
<1>5. ASSUME NEW n \in 1 .. Len(m.indices) PROVE PositionIn(m, n) \in [1 .. 3 -> Int]
  <2>1. m.indices[n] \in 0 .. (Len(m.vertices) - 1) /\ Len(m.vertices) \in Nat
    BY <1>2
  <2>2. m.indices[n] + 1 \in 1 .. Len(m.vertices)
    BY <2>1
  <2>3. m.vertices[m.indices[n] + 1] \in CellVertices
    BY <1>2, <2>2
  <2> QED BY <2>3 DEF CellVertices, PositionIn
<1>6. ASSUME NEW n \in Cells!TriangleStarts, NEW j \in n .. (n + 2), NEW k \in n .. (n + 2), NEW axis \in 1 .. 3
      PROVE  PositionIn(m, j)[axis] - PositionIn(m, k)[axis] \in -Steps .. Steps
  <2>1. n \in 1 .. Len(m.indices) /\ n % 3 = 1
    BY <1>3, <1>m DEF Cells!TriangleStarts
  <2>2. n + 1 \in 1 .. Len(m.indices) /\ n + 2 \in 1 .. Len(m.indices)
    BY <1>c, <2>1
  <2>p. PICK p \in [1 .. 3 -> Int] : p = PositionIn(m, n)
    BY <1>5, <2>1
  <2>q. PICK q \in [1 .. 3 -> Int] : q = PositionIn(m, n + 1)
    BY <1>5, <2>2
  <2>r. PICK r \in [1 .. 3 -> Int] : r = PositionIn(m, n + 2)
    BY <1>5, <2>2
  <2>t. PICK t : t = <<p, q, r>>
    OBVIOUS
  <2>3. Close(t)
    BY <1>2, <2>1, <2>p, <2>q, <2>r, <2>t DEF TriangleStays
  <2>4. t[1] = p /\ t[2] = q /\ t[3] = r
    BY <2>t
  <2>5. /\ p[1] \in Int /\ p[2] \in Int /\ p[3] \in Int /\ q[1] \in Int /\ q[2] \in Int /\ q[3] \in Int
        /\ r[1] \in Int /\ r[2] \in Int /\ r[3] \in Int
    OBVIOUS
  <2>6. /\ p[1] - q[1] \in -Steps .. Steps /\ p[1] - r[1] \in -Steps .. Steps /\ q[1] - r[1] \in -Steps .. Steps
        /\ p[2] - q[2] \in -Steps .. Steps /\ p[2] - r[2] \in -Steps .. Steps /\ q[2] - r[2] \in -Steps .. Steps
        /\ p[3] - q[3] \in -Steps .. Steps /\ p[3] - r[3] \in -Steps .. Steps /\ q[3] - r[3] \in -Steps .. Steps
    BY <2>3, <2>4 DEF Close
  <2>7. \A a, b \in {p, q, r} : a[axis] - b[axis] \in -Steps .. Steps
    <3>1. /\ p[axis] \in Int /\ q[axis] \in Int /\ r[axis] \in Int
          /\ p[axis] - q[axis] \in -Steps .. Steps /\ p[axis] - r[axis] \in -Steps .. Steps /\ q[axis] - r[axis] \in -Steps .. Steps
      <4>1. axis = 1 \/ axis = 2 \/ axis = 3
        OBVIOUS
      <4> QED BY <2>5, <2>6, <4>1
    <3>2. \A i, l \in Int : i - l \in -Steps .. Steps => l - i \in -Steps .. Steps
      BY GeneratorAssumption
    <3>3. \A i \in Int : i - i \in -Steps .. Steps
      BY GeneratorAssumption
    <3> QED BY <3>1, <3>2, <3>3
  <2>8. PositionIn(m, j) \in {p, q, r} /\ PositionIn(m, k) \in {p, q, r}
    <3>1. j \in {n, n + 1, n + 2} /\ k \in {n, n + 1, n + 2}
      BY <2>1
    <3> QED BY <2>p, <2>q, <2>r, <3>1
  <2> QED BY <2>7, <2>8
<1> QED BY <1>4, <1>6 DEF Cells!NoStrayTriangle

(***************************************************************************)
(* The making of a model: the corners of a file are kept, the staging      *)
(* buffer outlives the copy, a finished model draws what it was made from  *)
(***************************************************************************)

BufferKinds == {"vertex", "index"}
Places == {"idle", "load", "create", "submit", "wait", "release", "ready", "thrown", "aborted"}

-----------------------------------------------------------------------------
(* The inductive invariants                                                *)

TypeInv ==
    /\ pc \in Places /\ kind \in BufferKinds /\ lost \in BOOLEAN
    /\ (\E S : vertices \in Seq(S)) /\ indices \in Seq(Int)
    /\ IsMesh(vertices, indices)

(* uniqueVertices is the inverse of vertices. *)
LoadInv ==
    /\ pc = "idle" =>
          file = NoFile /\ vertices = <<>> /\ indices = <<>> /\ DOMAIN uniqueVertices = {}
    /\ pc = "load" \/ file # NoFile =>
          /\ file \in Files
          /\ Len(indices) <= Len(file.corners)
          /\ \A v \in DOMAIN uniqueVertices :
                /\ uniqueVertices[v] \in 0 .. (Len(vertices) - 1)
                /\ vertices[uniqueVertices[v] + 1] = v
          /\ \A n \in 1 .. Len(vertices) :
                vertices[n] \in DOMAIN uniqueVertices /\ uniqueVertices[vertices[n]] = n - 1
          /\ \A n \in 1 .. Len(indices) :
                vertices[indices[n] + 1] = VertexOf(file, file.corners[n])

StagingInv ==
    /\ pc \in {"submit", "wait"} => staging = Data(kind)
    /\ queue # <<>> =>
          pc = "wait" /\ queue = <<[to |-> kind, size |-> CopySize(kind, Count)]>>

(* The buffer is finished, or will be without a further submission. *)
Copied(k) ==
    \/ k = kind /\ (pc = "release" \/ (pc = "wait" /\ queue = <<>>))
    \/ k = "vertex" /\ kind = "index"
    \/ pc = "ready"

DeviceInv ==
    /\ device = [k \in BufferKinds |-> device[k]]
    /\ pc \in {"idle", "load"} => kind = "vertex"
    /\ pc = "ready" => kind = "index"
    /\ pc = "submit" \/ queue # <<>> => device[kind] = [n \in 1 .. Count |-> Garbage]
    /\ ~lost /\ Fits => \A k \in BufferKinds : Copied(k) /\ (k = "vertex" \/ indices # <<>>) => device[k] = Data(k)

(* A mesh is handed over, whatever its vertices are; a procedural mesh hands over its own. *)
IsList(v) == \E S : v \in Seq(S)

HandOver == \E v, i : IsList(v) /\ i \in Seq(Int) /\ IsMesh(v, i) /\ GetModel(v, i)

AnyModelNext == LoadModel \/ LoadCorner \/ Loaded \/ HandOver \/ MakeBuffers

-----------------------------------------------------------------------------
(* What a corner stands for is a vertex; an absent attribute is zero
   (model.cpp:40-71).                                                      *)
LEMMA VertexType ==
  ASSUME NEW f \in Files, NEW n \in 1 .. Len(f.corners)
  PROVE  VertexOf(f, f.corners[n]) \in Vertices
<1>1. /\ f.positions \in Seq(Int) /\ f.normals \in Seq(Int) /\ f.texcoords \in Seq(Int)
      /\ f.corners[n].vertex \in -1 .. (Len(f.positions) - 1)
      /\ f.corners[n].normal \in -1 .. (Len(f.normals) - 1)
      /\ f.corners[n].texcoord \in -1 .. (Len(f.texcoords) - 1)
  BY FilesAssumption
<1>2. ASSUME NEW s \in Seq(Int), NEW i \in -1 .. (Len(s) - 1) PROVE Attribute(s, i) \in Int
  BY DEF Attribute
<1> QED BY <1>1, <1>2 DEF VertexOf, Vertices

(* The step of loadModel that handles a corner keeps the types and the inverse
   (model.cpp:73-76).                                                      *)
LEMMA LoadCornerStep ==
  ASSUME TypeInv, LoadInv, LoadCorner
  PROVE  TypeInv' /\ LoadInv'
<1> DEFINE vertex == VertexOf(file, file.corners[Len(indices) + 1])
           known == DOMAIN uniqueVertices
           number == NumberOf(vertex)
<1>1. /\ file \in Files /\ pc = "load" /\ file' = file /\ pc' = pc /\ kind' = kind /\ lost' = lost
      /\ Len(indices) < Len(file.corners)
      /\ vertices' = IF vertex \in known THEN vertices ELSE Append(vertices, vertex)
      /\ uniqueVertices' = [v \in known \cup {vertex} |-> NumberOf(v)]
      /\ indices' = Append(indices, number)
  BY DEF LoadCorner, LoadInv, buffers
<1>s. PICK S : Vertices \subseteq S /\ vertices \in Seq(S)
  <2>1. PICK T : vertices \in Seq(T)
    BY DEF TypeInv
  <2>2. vertices \in Seq(T \cup Vertices)
    BY <2>1
  <2> QED BY <2>2
<1>2. /\ vertices \in Seq(S) /\ indices \in Seq(Int)
      /\ \A n \in 1 .. Len(indices) : indices[n] \in 0 .. (Len(vertices) - 1)
  BY <1>s DEF TypeInv, IsMesh
<1>3. file.corners \in Seq(Corners)
  BY <1>1, FilesAssumption
<1>4. vertex \in S
  <2>1. Len(indices) + 1 \in 1 .. Len(file.corners)
    BY <1>1, <1>2, <1>3
  <2> QED BY <1>1, <1>s, <2>1, VertexType
<1>5. /\ \A v \in known :
            uniqueVertices[v] \in 0 .. (Len(vertices) - 1) /\ vertices[uniqueVertices[v] + 1] = v
      /\ \A n \in 1 .. Len(vertices) : vertices[n] \in known /\ uniqueVertices[vertices[n]] = n - 1
      /\ \A n \in 1 .. Len(indices) : vertices[indices[n] + 1] = VertexOf(file, file.corners[n])
  BY <1>1 DEF LoadInv
<1> HIDE DEF vertex, number
<1>6. /\ vertices' \in Seq(S) /\ Len(vertices') >= Len(vertices)
      /\ \A n \in 1 .. Len(vertices) : vertices'[n] = vertices[n]
      /\ number \in 0 .. (Len(vertices') - 1) /\ vertices'[number + 1] = vertex
  <2>1. CASE vertex \in known
    BY <1>1, <1>2, <1>5, <2>1 DEF NumberOf, number
  <2>2. CASE vertex \notin known
    BY <1>1, <1>2, <1>4, <2>2 DEF NumberOf, number
  <2> QED BY <2>1, <2>2
<1>7. /\ indices' \in Seq(Int) /\ Len(indices') = Len(indices) + 1
      /\ \A n \in 1 .. Len(indices) : indices'[n] = indices[n]
      /\ indices'[Len(indices) + 1] = number
  BY <1>1, <1>2, <1>6
<1>len. Len(vertices) \in Nat /\ Len(vertices') \in Nat /\ Len(indices) \in Nat
  BY <1>2, <1>6
<1>8. \A n \in 1 .. Len(indices') : indices'[n] \in 0 .. (Len(vertices') - 1)
  <2>1. ASSUME NEW n \in 1 .. Len(indices) PROVE indices'[n] \in 0 .. (Len(vertices') - 1)
    <3>1. indices'[n] = indices[n] /\ indices[n] \in 0 .. (Len(vertices) - 1)
      BY <1>2, <1>7
    <3> QED BY <1>6, <1>len, <3>1
  <2> QED BY <1>len, <1>6, <1>7, <2>1
<1>9. \A v \in known \cup {vertex} :
        /\ uniqueVertices'[v] \in 0 .. (Len(vertices') - 1)
        /\ vertices'[uniqueVertices'[v] + 1] = v
  <2>1. ASSUME NEW v \in known
        PROVE  /\ uniqueVertices'[v] \in 0 .. (Len(vertices') - 1)
               /\ vertices'[uniqueVertices'[v] + 1] = v
    <3>1. uniqueVertices'[v] = uniqueVertices[v]
      BY <1>1 DEF NumberOf
    <3>2. uniqueVertices[v] \in 0 .. (Len(vertices) - 1) /\ vertices[uniqueVertices[v] + 1] = v
      BY <1>5
    <3>3. uniqueVertices[v] + 1 \in 1 .. Len(vertices)
      BY <1>len, <3>2
    <3> QED BY <1>len, <1>6, <3>1, <3>2, <3>3
  <2>2. uniqueVertices'[vertex] = number
    BY <1>1 DEF number
  <2> QED BY <1>6, <2>1, <2>2
<1>10. \A n \in 1 .. Len(vertices') :
         vertices'[n] \in known \cup {vertex} /\ uniqueVertices'[vertices'[n]] = n - 1
  <2>1. CASE vertex \in known
    BY <1>1, <1>2, <1>5, <2>1 DEF NumberOf
  <2>2. CASE vertex \notin known
    <3>1. Len(vertices') = Len(vertices) + 1 /\ vertices'[Len(vertices) + 1] = vertex
      BY <1>1, <1>2, <1>4, <2>2
    <3>2. uniqueVertices'[vertex] = Len(vertices)
      BY <1>1, <2>2 DEF NumberOf
    <3>3. ASSUME NEW n \in 1 .. Len(vertices)
          PROVE  vertices'[n] \in known \cup {vertex} /\ uniqueVertices'[vertices'[n]] = n - 1
      <4>1. vertices'[n] = vertices[n] /\ vertices[n] \in known /\ uniqueVertices[vertices[n]] = n - 1
        BY <1>5, <1>6
      <4> QED BY <1>1, <4>1 DEF NumberOf
    <3>4. Len(vertices) \in Nat
      BY <1>2
    <3> QED BY <3>1, <3>2, <3>3, <3>4
  <2> QED BY <2>1, <2>2
<1>11. \A n \in 1 .. Len(indices') :
         vertices'[indices'[n] + 1] = VertexOf(file, file.corners[n])
  <2>1. ASSUME NEW n \in 1 .. Len(indices)
        PROVE  vertices'[indices'[n] + 1] = VertexOf(file, file.corners[n])
    <3>1. indices'[n] = indices[n] /\ indices[n] \in 0 .. (Len(vertices) - 1)
      BY <1>2, <1>7
    <3>2. indices[n] + 1 \in 1 .. Len(vertices)
      BY <1>len, <3>1
    <3> QED BY <1>5, <1>6, <3>1, <3>2
  <2>2. vertices'[indices'[Len(indices) + 1] + 1] = VertexOf(file, file.corners[Len(indices) + 1])
    BY <1>6, <1>7 DEF vertex
  <2>3. \A n \in 1 .. Len(indices') : n \in 1 .. Len(indices) \/ n = Len(indices) + 1
    BY <1>len, <1>7
  <2> QED BY <2>1, <2>2, <2>3
<1>12. TypeInv'
  BY <1>1, <1>6, <1>7, <1>8 DEF TypeInv, IsMesh
<1>13. LoadInv'
  <2>1. Len(indices') <= Len(file.corners)
    BY <1>1, <1>2, <1>3, <1>7
  <2>2. DOMAIN uniqueVertices' = known \cup {vertex}
    BY <1>1
  <2> QED BY <1>1, <1>9, <1>10, <1>11, <2>1, <2>2 DEF LoadInv
<1> QED BY <1>12, <1>13

(* Every other step leaves the mesh alone, except those that start a model: from a
   file, or with the mesh of a generator (procedural_mesh.hpp:27).          *)
LEMMA MeshStep ==
  ASSUME TypeInv, LoadInv, [AnyModelNext]_modelVars
  PROVE  TypeInv' /\ LoadInv'
<1> USE DEF Places, BufferKinds
<1>1. CASE LoadModel
  <2>1. /\ pc = "idle" /\ file' \in Files /\ pc' \in {"load", "thrown"}
        /\ UNCHANGED <<kind, vertices, indices, uniqueVertices, lost>>
    BY <1>1 DEF LoadModel, buffers
  <2>2. vertices = <<>> /\ indices = <<>> /\ DOMAIN uniqueVertices = {}
    BY <2>1 DEF LoadInv
  <2>3. file'.corners \in Seq(Corners)
    BY <2>1, FilesAssumption
  <2>4. TypeInv'
    BY <2>1 DEF TypeInv
  <2>5. LoadInv'
    BY <2>1, <2>2, <2>3 DEF LoadInv
  <2> QED BY <2>4, <2>5
<1>2. CASE LoadCorner
  BY <1>2, LoadCornerStep
<1>3. CASE HandOver
  <2>1. PICK v, i : IsList(v) /\ i \in Seq(Int) /\ IsMesh(v, i) /\ GetModel(v, i)
    BY <1>3 DEF HandOver
  <2>2. /\ pc = "idle" /\ pc' = "create" /\ vertices' = v /\ indices' = i
        /\ UNCHANGED <<kind, file, lost>>
    BY <2>1 DEF GetModel, buffers
  <2>3. TypeInv'
    BY <2>1, <2>2 DEF TypeInv, IsList
  <2>4. LoadInv'
    BY <2>2 DEF LoadInv
  <2> QED BY <2>3, <2>4
<1>4. CASE Loaded \/ MakeBuffers \/ UNCHANGED modelVars
  <2>1. UNCHANGED builder /\ (pc' = pc \/ pc' \notin {"idle", "load"})
    BY <1>4 DEF Loaded, MakeBuffers, NoIndexBuffer, TooFew, FillStaging, CreateBufferFails, MapFails,
                SubmitCopy, ExecuteCopy, LoseCopy, EndSingleTimeCommands, ReleaseStaging, modelVars
  <2>2. pc' \in Places /\ kind' \in BufferKinds /\ lost' \in BOOLEAN
    BY <1>4 DEF TypeInv, Loaded, MakeBuffers, NoIndexBuffer, TooFew, FillStaging, CreateBufferFails, MapFails,
                SubmitCopy, ExecuteCopy, LoseCopy, EndSingleTimeCommands, ReleaseStaging, modelVars,
                buffers
  <2>3. TypeInv'
    BY <2>1, <2>2 DEF TypeInv, builder
  <2>4. LoadInv'
    BY <2>1 DEF LoadInv, builder
  <2> QED BY <2>3, <2>4
<1> QED BY <1>1, <1>2, <1>3, <1>4 DEF AnyModelNext

(* The staging buffer holds the data from before the submission until after the wait,
   and nothing else is on the queue (model.cpp:94-111, device.cpp:434-447).  *)
LEMMA StagingStep ==
  ASSUME StagingInv, [AnyModelNext]_modelVars
  PROVE  StagingInv'
<1>1. CASE FillStaging
  BY <1>1 DEF FillStaging, StagingInv, Data, Count, builder
<1>2. CASE SubmitCopy
  BY <1>2 DEF SubmitCopy, StagingInv, Data, Count, builder
<1>3. CASE ExecuteCopy \/ LoseCopy \/ EndSingleTimeCommands \/ UNCHANGED modelVars
  BY <1>3 DEF ExecuteCopy, LoseCopy, EndSingleTimeCommands, StagingInv, Data, Count, modelVars,
              builder, buffers
<1>4. CASE LoadModel \/ LoadCorner \/ Loaded \/ HandOver
  <2>1. queue' = queue /\ pc \in {"idle", "load"} /\ pc' \in {"load", "thrown", "create"}
    BY <1>4 DEF LoadModel, LoadCorner, Loaded, HandOver, GetModel, buffers
  <2> QED BY <2>1 DEF StagingInv
<1>5. CASE NoIndexBuffer \/ TooFew \/ CreateBufferFails \/ MapFails \/ ReleaseStaging
  <2>1. /\ queue' = queue /\ pc \in {"create", "release"}
        /\ pc' \in {"ready", "aborted", "thrown", "create"}
    BY <1>5 DEF NoIndexBuffer, TooFew, CreateBufferFails, MapFails, ReleaseStaging, buffers
  <2> QED BY <2>1 DEF StagingInv
<1> QED BY <1>1, <1>2, <1>3, <1>4, <1>5 DEF AnyModelNext, MakeBuffers

-----------------------------------------------------------------------------
(* A copy whose size did not wrap fills the buffer with what is in the staging
   buffer (model.cpp:111, 140).                                             *)
LEMMA CopyWhole ==
  ASSUME TypeInv, StagingInv, DeviceInv, ExecuteCopy, Fits
  PROVE  device' = [device EXCEPT ![kind] = Data(kind)]
<1>1. /\ pc = "wait" /\ staging = Data(kind) /\ kind \in BufferKinds
      /\ Head(queue) = [to |-> kind, size |-> CopySize(kind, Count)]
  BY DEF ExecuteCopy, StagingInv, TypeInv
<1>2. Count \in Nat /\ Data(kind) = [n \in 1 .. Count |-> Data(kind)[n]]
  <2>1. CASE kind = "vertex"
    <3>1. PICK S : vertices \in Seq(S)
      BY DEF TypeInv
    <3> QED BY <2>1, <3>1 DEF Data, Count
  <2>2. CASE kind = "index"
    BY <2>2 DEF TypeInv, Data, Count
  <2> QED BY <1>1, <2>1, <2>2 DEF BufferKinds
<1>3. device[kind] = [n \in 1 .. Count |-> Garbage]
  BY DEF DeviceInv, ExecuteCopy
<1>4. CopySize(kind, Count) = ElementSize[kind] * Count
  <2>1. ElementSize[kind] * Count < WordSize /\ ElementSize[kind] * Count \in Nat
    BY <1>1, <1>2 DEF Fits, BufferKinds, Count, ElementSize
  <2> QED BY <2>1, WordAssumption DEF CopySize
<1>5. \A n \in 1 .. Count : n * ElementSize[kind] <= CopySize(kind, Count)
  BY <1>1, <1>2, <1>4 DEF BufferKinds, ElementSize
<1>6. device' = [device EXCEPT ![kind] = [n \in 1 .. Count |-> staging[n]]]
  <2> DEFINE content == [n \in DOMAIN device[kind] |->
                   IF n \in DOMAIN staging /\ n * ElementSize[kind] <= CopySize(kind, Count)
                   THEN staging[n] ELSE device[kind][n]]
  <2>1. device' = [device EXCEPT ![kind] = content]
    <3>1. Head(queue).to = kind /\ Head(queue).size = CopySize(kind, Count)
      BY <1>1
    <3> QED BY <3>1 DEF ExecuteCopy
  <2>2. DOMAIN staging = 1 .. Count /\ DOMAIN device[kind] = 1 .. Count
    BY <1>1, <1>2, <1>3
  <2>3. content = [n \in 1 .. Count |-> staging[n]]
    BY <1>5, <2>2
  <2> QED BY <2>1, <2>3
<1> QED BY <1>1, <1>2, <1>6

(* Every step keeps what is known of the device-local buffers (model.cpp:94-140). *)
LEMMA DeviceStep ==
  ASSUME TypeInv, StagingInv, DeviceInv, [AnyModelNext]_modelVars
  PROVE  DeviceInv'
<1> USE DEF BufferKinds
<1>1. CASE LoadModel \/ LoadCorner \/ Loaded \/ HandOver
  <2>1. /\ pc \in {"idle", "load"} /\ pc' \in {"load", "thrown", "create"}
        /\ UNCHANGED <<kind, queue, device, lost>>
    BY <1>1 DEF LoadModel, LoadCorner, Loaded, HandOver, GetModel, buffers
  <2>2. kind = "vertex" /\ queue = <<>>
    BY <2>1 DEF DeviceInv, StagingInv
  <2>3. \A k \in BufferKinds : ~ Copied(k)'
    BY <2>1, <2>2 DEF Copied
  <2> QED BY <2>1, <2>2, <2>3 DEF DeviceInv
<1>2. CASE NoIndexBuffer
  <2>1. /\ pc = "create" /\ kind = "index" /\ indices = <<>> /\ pc' = "ready"
        /\ UNCHANGED <<kind, builder, buffers>>
    BY <1>2 DEF NoIndexBuffer, Count, Data, TypeInv
  <2> QED BY <2>1 DEF DeviceInv, StagingInv, Copied, Data, Count, Fits, builder, buffers
<1>3. CASE TooFew \/ CreateBufferFails \/ MapFails
  <2>1. pc = "create" /\ pc' \in {"aborted", "thrown"} /\ UNCHANGED <<kind, builder, buffers>>
    BY <1>3 DEF TooFew, CreateBufferFails, MapFails
  <2> QED BY <2>1 DEF DeviceInv, StagingInv, Copied, Data, Count, Fits, builder, buffers
<1>4. CASE FillStaging
  <2>1. /\ pc = "create" /\ pc' = "submit" /\ UNCHANGED <<kind, builder, queue, lost>>
        /\ device' = [device EXCEPT ![kind] = [n \in 1 .. Count |-> Garbage]]
    BY <1>4 DEF FillStaging
  <2>2. kind \in BufferKinds /\ queue = <<>>
    BY <2>1 DEF TypeInv, StagingInv
  <2> QED BY <2>1, <2>2 DEF DeviceInv, Copied, Data, Count, Fits, builder
<1>5. CASE SubmitCopy
  <2>1. /\ pc = "submit" /\ pc' = "wait" /\ UNCHANGED <<kind, builder, device>>
        /\ lost' = TRUE \/ (queue' # <<>> /\ lost' = lost)
    BY <1>5 DEF SubmitCopy
  <2>2. device'[kind'] = [n \in 1 .. Count' |-> Garbage]
    BY <2>1 DEF DeviceInv, Count, Data, builder
  <2> QED BY <2>1, <2>2 DEF DeviceInv, Copied, Data, Count, Fits, builder
<1>6. CASE ExecuteCopy
  <2>0. /\ pc = "wait" /\ queue' = <<>> /\ UNCHANGED <<pc, kind, builder, lost>> /\ kind \in BufferKinds
        /\ Head(queue).to = kind
    BY <1>6 DEF ExecuteCopy, StagingInv, TypeInv
  <2>1. /\ device' = [k \in BufferKinds |-> device'[k]]
        /\ \A k \in BufferKinds : k # kind => device'[k] = device[k]
    <3>1. PICK content : device' = [device EXCEPT ![kind] = content]
      BY <1>6, <2>0 DEF ExecuteCopy
    <3> QED BY <3>1 DEF DeviceInv
  <2>2. Fits => device'[kind] = Data(kind)
    BY <1>6, <2>0, CopyWhole DEF DeviceInv
  <2> QED BY <2>0, <2>1, <2>2 DEF DeviceInv, Copied, Data, Count, Fits, builder
<1>7. CASE LoseCopy
  <2>1. pc = "wait" /\ queue' = <<>> /\ lost' = TRUE /\ UNCHANGED <<pc, kind, builder, device>>
    BY <1>7 DEF LoseCopy, StagingInv
  <2> QED BY <2>1 DEF DeviceInv, Copied, Data, Count, Fits, builder
<1>8. CASE EndSingleTimeCommands
  <2>1. pc = "wait" /\ queue = <<>> /\ pc' = "release" /\ UNCHANGED <<kind, builder, buffers>>
    BY <1>8 DEF EndSingleTimeCommands
  <2> QED BY <2>1 DEF DeviceInv, Copied, Data, Count, Fits, builder, buffers
<1>9. CASE ReleaseStaging
  <2>1. /\ pc = "release" /\ queue = <<>> /\ UNCHANGED <<builder, queue, device, lost>>
        /\ kind \in BufferKinds
        /\ \/ kind = "vertex" /\ pc' = "create" /\ kind' = "index"
           \/ kind = "index" /\ pc' = "ready" /\ kind' = "index"
    BY <1>9 DEF ReleaseStaging, StagingInv, TypeInv
  <2> QED BY <2>1 DEF DeviceInv, Copied, Data, Count, Fits, builder
<1>10. CASE UNCHANGED modelVars
  BY <1>10 DEF modelVars, builder, buffers, DeviceInv, Copied, Data, Count, Fits
<1> QED
  BY <1>1, <1>2, <1>3, <1>4, <1>5, <1>6, <1>7, <1>8, <1>9, <1>10 DEF AnyModelNext, MakeBuffers

-----------------------------------------------------------------------------
ModelInv == TypeInv /\ LoadInv /\ StagingInv /\ DeviceInv

(* The invariant holds before anything is loaded.                           *)
LEMMA ModelStart == ModelInit => ModelInv
<1> SUFFICES ASSUME ModelInit PROVE ModelInv
  OBVIOUS
<1>1. /\ pc = "idle" /\ kind = "vertex" /\ file = NoFile /\ vertices = <<>> /\ indices = <<>>
      /\ DOMAIN uniqueVertices = {} /\ queue = <<>> /\ lost = FALSE
      /\ device = [vertex |-> <<>>, index |-> <<>>]
  BY DEF ModelInit
<1>2. TypeInv
  <2>1. vertices \in Seq(Vertices) /\ indices \in Seq(Int)
    BY <1>1
  <2>2. IsMesh(vertices, indices)
    BY <1>1 DEF IsMesh
  <2> QED BY <1>1, <2>1, <2>2 DEF TypeInv, Places, BufferKinds
<1>3. LoadInv
  BY <1>1 DEF LoadInv
<1>4. StagingInv /\ DeviceInv
  BY <1>1 DEF StagingInv, DeviceInv, Copied, BufferKinds
<1> QED BY <1>2, <1>3, <1>4 DEF ModelInv

(* Every step keeps it, whatever mesh is handed over.                       *)
LEMMA ModelStep == ModelInv /\ [AnyModelNext]_modelVars => ModelInv'
BY MeshStep, StagingStep, DeviceStep DEF ModelInv

(* The inductive invariant holds for every file and every mesh.             *)
LEMMA ModelInvariance == ModelSpec => []ModelInv
<1>1. ModelInv /\ [ModelNext]_modelVars => ModelInv'
  <2> SUFFICES ASSUME ModelInv, [ModelNext]_modelVars PROVE ModelInv'
    OBVIOUS
  <2>1. ASSUME NEW b \in Builders, GetModel(b.vertices, b.indices) PROVE HandOver
    <3>1. b.vertices \in Seq(Vertices) /\ b.indices \in Seq(Int) /\ IsMesh(b.vertices, b.indices)
      BY BuildersAssumption
    <3>2. IsList(b.vertices)
      BY <3>1 DEF IsList
    <3> QED BY <2>1, <3>1, <3>2 DEF HandOver
  <2>2. [AnyModelNext]_modelVars
    BY <2>1 DEF ModelNext, AnyModelNext
  <2> QED BY <2>2, ModelStep
<1> QED BY <1>1, ModelStart, PTL DEF ModelSpec

(* The invariant gives the types (model.cpp:73-76). *)
LEMMA ModelTypesFollow == ModelInv => ModelTypeOK
<1> SUFFICES ASSUME ModelInv PROVE ModelTypeOK
  OBVIOUS
<1>1. Len(queue) <= 1
  <2>1. CASE queue = <<>>
    BY <2>1
  <2>2. CASE queue # <<>>
    <3>1. queue = <<[to |-> kind, size |-> CopySize(kind, Count)]>>
      BY <2>2 DEF ModelInv, StagingInv
    <3> QED BY <3>1
  <2> QED BY <2>1, <2>2
<1> QED BY <1>1 DEF ModelInv, TypeInv, ModelTypeOK, Places, BufferKinds

(* Types, and every index is that of a vertex, for every file and mesh
   (model.cpp:73-76). *)
THEOREM ModelTypes == ModelSpec => []ModelTypeOK
BY ModelTypesFollow, ModelInvariance, PTL

(* uniqueVertices is the inverse of vertices, so that no two are equal (model.cpp:73-76). *)
LEMMA CornersKeptFollows == ModelInv => CornersKept
<1> SUFFICES ASSUME ModelInv, file # NoFile PROVE CornersKept
  BY DEF CornersKept
<1>1. \A n \in 1 .. Len(indices) : vertices[indices[n] + 1] = VertexOf(file, file.corners[n])
  BY DEF ModelInv, LoadInv
<1>2. \A n \in 1 .. Len(vertices) : uniqueVertices[vertices[n]] = n - 1
  BY DEF ModelInv, LoadInv
<1>3. ASSUME NEW j \in 1 .. Len(vertices), NEW k \in 1 .. Len(vertices), vertices[j] = vertices[k]
      PROVE  j = k
  <2>1. j - 1 = k - 1
    BY <1>2, <1>3
  <2> QED BY <2>1
<1> QED BY <1>1, <1>3 DEF CornersKept

(* The corners of a file of any size are found again through the indices, and no
   two vertices are equal (model.cpp:36-76). *)
THEOREM CornersKeptHolds == ModelSpec => []CornersKept
BY CornersKeptFollows, ModelInvariance, PTL

(* A copy is on the queue only while the function waits for it (device.cpp:444-447). *)
LEMMA StagingHeldFollows == ModelInv => StagingHeld
<1> SUFFICES ASSUME ModelInv, queue # <<>> PROVE pc = "wait" /\ queue[1].to = kind /\ staging = Data(kind)
  BY DEF StagingHeld
<1>1. pc = "wait" /\ queue = <<[to |-> kind, size |-> CopySize(kind, Count)]>>
  BY DEF ModelInv, StagingInv
<1>2. staging = Data(kind)
  BY <1>1 DEF ModelInv, StagingInv
<1> QED BY <1>1, <1>2

(* The staging buffer outlives the copy from it, however slow the queue
   (model.cpp:94-111, 121-140, device.cpp:444-447). *)
THEOREM StagingHeldHolds == ModelSpec => []StagingHeld
BY StagingHeldFollows, ModelInvariance, PTL

(* Both buffers of a finished model have been copied (model.cpp:87-152). *)
LEMMA DrawnAsBuiltFollows == ModelInv => DrawnAsBuilt
<1> SUFFICES ASSUME ModelInv, pc = "ready", ~lost, Fits
             PROVE  Drawn = IF indices = <<>> THEN vertices
                            ELSE [n \in DOMAIN indices |-> vertices[indices[n] + 1]]
  BY DEF DrawnAsBuilt
<1>1. device.vertex = vertices
  BY DEF ModelInv, DeviceInv, Copied, Data, BufferKinds
<1>2. indices # <<>> => device.index = indices
  BY DEF ModelInv, DeviceInv, Copied, Data, BufferKinds
<1>3. \A n \in DOMAIN indices : indices[n] \in 0 .. (Len(vertices) - 1)
  BY DEF ModelInv, TypeInv, IsMesh
<1>4. CASE indices = <<>>
  BY <1>1, <1>4 DEF Drawn
<1>5. CASE indices # <<>>
  <2>1. Drawn = [n \in DOMAIN indices |->
                    IF indices[n] \in 0 .. (Len(vertices) - 1) THEN vertices[indices[n] + 1] ELSE Garbage]
    BY <1>1, <1>2, <1>5 DEF Drawn
  <2> QED BY <1>3, <1>5, <2>1
<1> QED BY <1>4, <1>5

(* A finished model of any size, whose sizes fit their 32 bits, draws the mesh it
   was made from (model.cpp:87-152). *)
THEOREM DrawnAsBuiltHolds == ModelSpec => []DrawnAsBuilt
BY DrawnAsBuiltFollows, ModelInvariance, PTL

(***************************************************************************)
(* The composition: a generator runs until its mesh is handed over         *)
(***************************************************************************)

(* The generator that is in use keeps its invariant; it is only run to hand its mesh
   to a model that has not been started.                                   *)
GeneratorInv ==
    /\ source = "squares" => SquaresInv
    /\ source = "cells" => CellsInv

LoadModelsInv == GeneratorInv /\ ModelInv

(* The meshes of the generators are lists of vertices and of indices of them. *)
LEMMA SquareMeshIsMesh ==
  ASSUME SquaresInv
  PROVE  /\ IsList(squareMesh.vertices) /\ squareMesh.indices \in Seq(Int)
         /\ IsMesh(squareMesh.vertices, squareMesh.indices)
<1> DEFINE S == Placed(squareKind, squareResolution)
<1>1. MeshOf(squareMesh, S)
  BY DEF SquaresInv, Generated
<1> HIDE DEF S
<1>2. squareMesh.vertices \in Seq(S) /\ squareMesh.indices \in Seq(Int)
  BY <1>1 DEF MeshOf
<1>3. \A n \in 1 .. Len(squareMesh.indices) : squareMesh.indices[n] \in 0 .. (Len(squareMesh.vertices) - 1)
  BY <1>1 DEF MeshOf
<1> QED BY <1>2, <1>3 DEF IsList, IsMesh

(* What marching cubes hands over (procedural_mesh.hpp:27). *)
LEMMA CellMeshIsMesh ==
  ASSUME CellsInv
  PROVE  /\ IsList(cellMesh.vertices) /\ cellMesh.indices \in Seq(Int)
         /\ IsMesh(cellMesh.vertices, cellMesh.indices)
<1>1. CellMeshOf(cellMesh, CellVertices)
  BY DEF CellsInv, MeshFits
<1>2. cellMesh.vertices \in Seq(CellVertices) /\ cellMesh.indices \in Seq(Int)
  BY <1>1 DEF CellMeshOf
<1>3. \A n \in 1 .. Len(cellMesh.indices) : cellMesh.indices[n] \in 0 .. (Len(cellMesh.vertices) - 1)
  BY <1>1 DEF CellMeshOf
<1> QED BY <1>2, <1>3 DEF IsList, IsMesh

(* A generator that does not run keeps its invariant. *)
LEMMA SquaresKept ==
  ASSUME SquaresInv, UNCHANGED squareVars
  PROVE  SquaresInv'
BY DEF squareVars, SquaresInv, LoopInv, Done, Visited, Before

(* The same of marching cubes. *)
LEMMA CellsKept ==
  ASSUME CellsInv, UNCHANGED cellVars
  PROVE  CellsInv'
<1>1. UNCHANGED <<surface, x, y, z, triangles, cellMesh, cellPc>>
  BY DEF cellVars
<1>2. CellLoop'
  BY <1>1 DEF CellsInv, CellLoop
<1>t. PICK ts : ts = triangles
  OBVIOUS
<1>3. TrianglesFit(ts)
  BY <1>t DEF CellsInv
<1>4. TrianglesFit(triangles)'
  <2>1. \A n, k : OnSurface(triangles[n][k])' <=> OnSurface(ts[n][k])
    BY <1>1, <1>t DEF OnSurface, Near, Crosses
  <2>2. ASSUME NEW n \in 1 .. Len(ts) PROVE TriangleFits(triangles[n])'
    <3>1. ts[n] \in Triples /\ Close(ts[n]) /\ \A k \in 1 .. 3 : OnSurface(ts[n][k]) /\ ts[n][k] # Cells!Unset
      BY <1>3 DEF TrianglesFit, TriangleFits
    <3> QED BY <1>1, <1>t, <2>1, <3>1 DEF TriangleFits
  <2> QED BY <1>1, <1>3, <1>t, <2>2 DEF TrianglesFit
<1>5. MeshFits(cellMesh)'
  BY <1>1 DEF CellsInv
<1> QED BY <1>2, <1>4, <1>5 DEF CellsInv

(* The invariant holds before anything is generated or loaded. *)
LEMMA LoadModelsStart == Init => LoadModelsInv
<1> SUFFICES ASSUME Init PROVE LoadModelsInv
  OBVIOUS
<1>1. ModelInv
  BY ModelStart DEF Init
<1>2. source = "squares" => SquaresInv
  BY SquaresStart DEF Init
<1>3. source = "cells" => CellsInv
  BY CellsStart DEF Init
<1> QED BY <1>1, <1>2, <1>3 DEF LoadModelsInv, GeneratorInv

(* The steps of a generator keep it, and so do those of the model whose mesh was
   generated or read (quad.cpp:40-90, marchingcubes.cpp:17-106, model.cpp:27-152). *)
LEMMA LoadModelsStep == LoadModelsInv /\ [Next]_vars => LoadModelsInv'
<1> SUFFICES ASSUME LoadModelsInv, [Next]_vars PROVE LoadModelsInv'
  OBVIOUS
<1>0. ModelInv /\ GeneratorInv
  BY DEF LoadModelsInv
<1>1. ASSUME UNCHANGED <<source, squareVars, cellVars>> PROVE GeneratorInv'
  <2>1. source = "squares" => SquaresInv'
    BY <1>0, <1>1, SquaresKept DEF GeneratorInv
  <2>2. source = "cells" => CellsInv'
    BY <1>0, <1>1, CellsKept DEF GeneratorInv
  <2> QED BY <1>1, <2>1, <2>2 DEF GeneratorInv
<1>2. ASSUME [AnyModelNext]_modelVars PROVE ModelInv'
  BY <1>0, <1>2, ModelStep
<1>3. CASE GenerateSquares
  <2>1. source = "squares" /\ Squares!GenerateSquares /\ source' = source /\ UNCHANGED modelVars
    BY <1>3 DEF GenerateSquares
  <2>2. SquaresInv'
    BY <1>0, <2>1, SquaresStep DEF GeneratorInv
  <2>3. GeneratorInv'
    BY <2>1, <2>2 DEF GeneratorInv
  <2> QED BY <1>2, <2>1, <2>3 DEF LoadModelsInv
<1>4. CASE GenerateCell
  <2>1. source = "cells" /\ Cells!GenerateCell /\ source' = source /\ UNCHANGED modelVars
    BY <1>4 DEF GenerateCell
  <2>2. CellsInv'
    BY <1>0, <2>1, CellsStep DEF GeneratorInv
  <2>3. GeneratorInv'
    BY <2>1, <2>2 DEF GeneratorInv
  <2> QED BY <1>2, <2>1, <2>3 DEF LoadModelsInv
<1>5. CASE LoadFile
  <2>1. AnyModelNext /\ UNCHANGED <<source, squareVars, cellVars>>
    BY <1>5 DEF LoadFile, AnyModelNext
  <2> QED BY <1>1, <1>2, <2>1 DEF LoadModelsInv
<1>6. CASE BuildModel
  <2>1. CASE source = "squares" /\ GetModel(squareMesh.vertices, squareMesh.indices)
    <3>1. HandOver
      BY <1>0, <2>1, SquareMeshIsMesh DEF GeneratorInv, HandOver
    <3> QED BY <1>1, <1>2, <1>6, <3>1 DEF BuildModel, AnyModelNext, LoadModelsInv
  <2>2. CASE source = "cells" /\ GetModel(cellMesh.vertices, cellMesh.indices)
    <3>1. HandOver
      BY <1>0, <2>2, CellMeshIsMesh DEF GeneratorInv, HandOver
    <3> QED BY <1>1, <1>2, <1>6, <3>1 DEF BuildModel, AnyModelNext, LoadModelsInv
  <2> QED BY <1>6, <2>1, <2>2 DEF BuildModel
<1>7. CASE UploadModel
  <2>1. AnyModelNext /\ UNCHANGED <<source, squareVars, cellVars>>
    BY <1>7 DEF UploadModel, AnyModelNext
  <2> QED BY <1>1, <1>2, <2>1 DEF LoadModelsInv
<1>8. CASE UNCHANGED vars
  <2>1. UNCHANGED modelVars /\ UNCHANGED <<source, squareVars, cellVars>>
    BY <1>8 DEF vars
  <2> QED BY <1>1, <1>2, <2>1 DEF LoadModelsInv
<1> QED BY <1>3, <1>4, <1>5, <1>6, <1>7, <1>8 DEF Next

(* The inductive invariant, for every resolution, surface and file. *)
LEMMA LoadModelsInvariance == Spec => []LoadModelsInv
BY LoadModelsStart, LoadModelsStep, PTL DEF Spec

(* Types of a model, and every index is that of a vertex, whichever generator or file
   the mesh came from (procedural_mesh.hpp:27, model.cpp:73-76). *)
THEOREM LoadedTypesHold == Spec => []ModelTypeOK
<1>1. LoadModelsInv => ModelTypeOK
  BY ModelTypesFollow DEF LoadModelsInv
<1> QED BY <1>1, LoadModelsInvariance, PTL

(* The corners of a file are found again through the indices, and no two vertices are
   equal (model.cpp:36-76). *)
THEOREM LoadedCornersKept == Spec => []CornersKept
<1>1. LoadModelsInv => CornersKept
  BY CornersKeptFollows DEF LoadModelsInv
<1> QED BY <1>1, LoadModelsInvariance, PTL

(* The staging buffer outlives the copy from it, whatever the mesh (model.cpp:94-111,
   121-140, device.cpp:444-447). *)
THEOREM LoadedStagingHeld == Spec => []StagingHeld
<1>1. LoadModelsInv => StagingHeld
  BY StagingHeldFollows DEF LoadModelsInv
<1> QED BY <1>1, LoadModelsInvariance, PTL

(* A finished model draws the mesh its generator or its file gave it, if the sizes fit
   their 32 bits (model.cpp:87-152, procedural_mesh.hpp:27). *)
THEOREM LoadedDrawnAsBuilt == Spec => []DrawnAsBuilt
<1>1. LoadModelsInv => DrawnAsBuilt
  BY DrawnAsBuiltFollows DEF LoadModelsInv
<1> QED BY <1>1, LoadModelsInvariance, PTL

(* The indices of a generated mesh are those of its vertices, terrain only reads heights
   that exist, and marching cubes stays in its grid, for every resolution
   (quad.cpp:59-90, terrain.cpp:33-91, cube.cpp:20-405, marchingcubes.cpp:24-105). *)
THEOREM GeneratorTypesHold == Spec => []GeneratorTypeOK
<1>1. LoadModelsInv => GeneratorTypeOK
  BY SquaresTypes, CellsTypes DEF LoadModelsInv, GeneratorInv, GeneratorTypeOK, Generates
<1> QED BY <1>1, LoadModelsInvariance, PTL

(* Squares of every resolution that is a power of two are wound one way, leave no gaps,
   and share their corners and heights (quad.cpp:59-87, terrain.cpp:33-88,
   cube.cpp:81-402).                                                       *)
THEOREM SquaresJoinedHolds == Spec => []SquaresJoined
<1>1. LoadModelsInv => SquaresJoined
  BY OrientedWhenBuilt, SharedWhenBuilt DEF LoadModelsInv, GeneratorInv, SquaresJoined, Generates
<1> QED BY <1>1, LoadModelsInvariance, PTL

(* In a grid of any size and for every surface, the two tables agree, vertices lie where
   edges meet isolevel or at a corner less than two epsilon from it, and no triangle leaves
   its cell (marchingcubes.cpp:55, 62-101, 109-161).                       *)
THEOREM SurfaceFollowedHolds == Spec => []SurfaceFollowed
<1>1. LoadModelsInv => SurfaceFollowed
  BY TablesAgreeInCells, OnSurfaceInCells, NoStrayInCells
     DEF LoadModelsInv, GeneratorInv, SurfaceFollowed, Generates
<1> QED BY <1>1, LoadModelsInvariance, PTL
=============================================================================
