------------------------------ MODULE PgmFile -------------------------------
(***************************************************************************)
(* The image files (dsp_img_filter/pgm.cpp, pgm/pgm.cpp): an image that was *)
(* generated, or comes in a file of another program, is written and read    *)
(* again.  A file is a sequence of items: a byte, or a word of the header   *)
(* as one item.  The format, to which pgm.cpp refers, has the pixels row by *)
(* row, and so has the first program; pgm/ reads and writes them column by  *)
(* column.                                                                  *)
(***************************************************************************)
EXTENDS Integers, Sequences, FiniteSetsExt

CONSTANTS
  Sizes,      \* <<rows, cols>> of the images
  Thresholds, \* their largest values, a word of two bytes
  Values,     \* pixels of the images that come in a file
  MaxPasses   \* bound: times the image is read

Blank == 32
Newline == 10
Hash == 35
Letter == 65
EOF == -1
P5 == 999
White == {9, Newline, 11, 12, 13, Blank}  \* what scanf skips for a blank
Word(k) == 1000 + k  \* the item that stands for a number of the header

ASSUME PgmFileAssumption ==
  /\ Sizes \subseteq (Nat \ {0}) \X (Nat \ {0}) /\ Thresholds \subseteq Nat \ {0}
  /\ \A thld \in Thresholds : thld < 65536
  /\ Values \subseteq 0 .. 255
  /\ MaxPasses \in Nat

VARIABLES
  columns,  \* the program goes column by column
  image,    \* the image in memory
  file,     \* the file
  source,   \* history: the image that is in the file
  across,   \* history: it is there column by column
  passes    \* times it has been read

fileVars == <<columns, image, file, source, across, passes>>

LO(value) == value % 256
HI(value) == (value \div 256) % 256

NewImage(rows, cols, thld, pixelAt) ==
  [rows |-> rows, cols |-> cols, thld |-> thld,
   data |-> [i \in 0 .. rows - 1 |-> [k \in 0 .. cols - 1 |-> pixelAt[<<i, k>>]]]]

Places(rows, cols) == (0 .. rows - 1) \X (0 .. cols - 1)

(* A checker board of at least one pixel to a field. *)
GenTestInput(rows, cols, thld) ==
  LET field(k, size) == (k \div (IF size < 16 THEN 1 ELSE size \div 16)) % 2
      pixelAt == [place \in Places(rows, cols) |->
        IF (thld * (field(place[2], cols) + field(place[1], rows))) % 2 = 1 THEN thld \div 2 ELSE 0]
  IN  NewImage(rows, cols, thld, pixelAt)

(* Where the program looks for the pixel at i, k among those of the file.  *)
FilePlace(rows, cols, i, k) == IF columns THEN k * rows + i ELSE i * cols + k

(* Faulty: the other order. *)
PixelOf_Across(m, k, byColumns) ==
  IF byColumns THEN m.data[k \div m.cols][k % m.cols] ELSE m.data[k % m.rows][k \div m.rows]

(* The k-th pixel of m, column by column or row by row. *)
PixelOf(m, k, byColumns) ==
  IF byColumns THEN m.data[k % m.rows][k \div m.rows] ELSE m.data[k \div m.cols][k % m.cols]

DataOf(m, byColumns) ==
  LET size == m.rows * m.cols
  IN  IF m.thld > 255
      THEN [b \in 1 .. 2 * size |->
              IF b % 2 = 1 THEN HI(PixelOf(m, b \div 2, byColumns))
              ELSE LO(PixelOf(m, b \div 2 - 1, byColumns))]
      ELSE [b \in 1 .. size |-> LO(PixelOf(m, b - 1, byColumns))]

(* A file with comments before some of the numbers; sep comes after each.  *)
FileOf(m, byColumns, comments, sep) ==
  LET comment(k) == IF k \in comments THEN <<Hash, Blank, Letter, Newline>> ELSE <<>>
  IN  <<P5, sep>> \o comment(1) \o <<Word(m.cols), sep>> \o comment(2)
        \o <<Word(m.rows), sep>> \o comment(3) \o <<Word(m.thld), sep>>
        \o DataOf(m, byColumns)

---------------------------------------------------------------------------
(* The items at which a read goes on. *)
ItemAt(k) == IF k \in DOMAIN file THEN file[k] ELSE EOF

SkipBlanks(from) ==
  Min({k \in from .. Len(file) + 1 : ItemAt(k) \notin White} \union {Len(file) + 1})

SkipLine(from) ==
  Min({k \in from .. Len(file) : file[k] = Newline} \union {Len(file)}) + 1

(* Blanks, and lines that begin with #. *)
SkipComments(from) ==
  LET skip[k \in 1 .. Len(file) + 1] ==
        IF ItemAt(SkipBlanks(k)) = Hash THEN skip[SkipLine(SkipBlanks(k))] ELSE SkipBlanks(k)
  IN  skip[from]

(* The blanks and comments after the threshold are skipped, and a byte. *)
DataStart(header) == SkipComments(header) + 1

(* pgm_read of a file whose header has its three numbers (the results of    *)
(* fscanf are not looked at).                                               *)
ReadImage ==
  LET c == SkipComments(2)
      r == SkipComments(c + 1)
      t == SkipComments(r + 1)
      first == DataStart(t + 1)
      rows == ItemAt(r) - Word(0)
      cols == ItemAt(c) - Word(0)
      thld == ItemAt(t) - Word(0)
      pixelAt == [place \in Places(rows, cols) |->
        LET k == FilePlace(rows, cols, place[1], place[2])
        IN  IF thld > 255
            THEN 256 * ItemAt(first + 2 * k) + ItemAt(first + 2 * k + 1)
            ELSE ItemAt(first + k)]
  IN  NewImage(rows, cols, thld, pixelAt)

NoImageYet == NewImage(0, 0, 0, <<>>)

(* An image in a file of another program, which keeps to the format, or one *)
(* that the program generates.                                              *)
FileInit ==
  /\ columns \in BOOLEAN
  /\ \E size \in Sizes, thld \in Thresholds, comments \in SUBSET (1 .. 3),
        sep \in {Blank, Newline}, values \in [0 .. 3 -> Values] :
       LET foreign == NewImage(size[1], size[2], thld,
                               [place \in Places(size[1], size[2]) |->
                                  values[(place[1] * size[2] + place[2]) % 4]])
       IN  \/ /\ source = foreign /\ file = FileOf(foreign, FALSE, comments, sep)
              /\ across = FALSE /\ image = NoImageYet
           \/ /\ comments = {} /\ sep = Blank /\ \A k \in 0 .. 3 : values[k] = Min(Values)
              /\ source = NoImageYet /\ file = <<>> /\ across = columns
              /\ image = GenTestInput(size[1], size[2], thld)
  /\ passes = 0

PgmRead ==
  /\ file # <<>> /\ image.rows = 0
  /\ passes < MaxPasses
  /\ image' = ReadImage
  /\ passes' = passes + 1
  /\ UNCHANGED <<columns, file, source, across>>

(* pgm_write, and pgm_delete. *)
PgmWrite ==
  /\ image.rows > 0
  /\ file' = FileOf(image, columns, {}, Blank)
  /\ source' = image /\ across' = columns
  /\ image' = NoImageYet
  /\ UNCHANGED <<columns, passes>>

FileNext == PgmRead \/ PgmWrite

FileSpec == FileInit /\ [][FileNext]_fileVars

---------------------------------------------------------------------------
(* Two bytes, either of which may be the end of the file. *)
PixelValue == {k \in Int : -257 <= k /\ k <= 65535}

FileTypeOK ==
  /\ passes \in 0 .. MaxPasses
  /\ \A k \in DOMAIN file : file[k] \in 0 .. 255 \/ file[k] = P5 \/ file[k] > Word(0)
  /\ \A m \in {image, source} :
       m.data \in [0 .. m.rows - 1 -> [0 .. m.cols - 1 -> PixelValue]]

(* Whatever its bytes look like, an image that is read has the size and the *)
(* threshold of the one in the file.                                        *)
HeaderKept ==
  image.rows > 0 /\ source.rows > 0 =>
    <<image.rows, image.cols, image.thld>> = <<source.rows, source.cols, source.thld>>

(* Of the pixels at the beginning some are lost: those that look like blanks *)
(* or a comment, and one more, which is the only one unless the first looks *)
(* like that.  The program goes through its image in its own order and finds *)
(* the others in the order of the file, each once; the end of the file makes *)
(* up for the lost ones.  Where the two orders are the same, as they are    *)
(* for a file of its own, the image is in place; where they are not, as in  *)
(* pgm/ for a file of another program, it is not.                           *)
PixelsInOrder ==
  image.rows > 0 /\ source.rows > 0 /\ source.thld <= 255 =>
    LET size == source.rows * source.cols
    IN  \E lost \in 1 .. size :
          /\ LO(PixelOf(source, 0, across)) \notin White \union {Hash} => lost = 1
          /\ \A k \in 0 .. size - 1 :
               PixelOf(image, k, columns) =
                 IF k + lost < size THEN LO(PixelOf(source, k + lost, across)) ELSE EOF

(* A file that the program wrote, or another with its own blanks and        *)
(* comments, is read as an image of its size and threshold, with the pixels *)
(* of the file in their order but for those lost at the beginning.          *)
ImageKept == FileTypeOK /\ HeaderKept /\ PixelsInOrder
=============================================================================
