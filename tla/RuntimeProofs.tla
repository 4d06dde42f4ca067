--------------------------- MODULE RuntimeProofs ----------------------------
(***************************************************************************)
(* The services of the runtime that keep a state of their own: the screen  *)
(* and the line editor, for every size of the screen and of the buffer;    *)
(* the strings, for every size of the arena; and the table of disks, for   *)
(* every set of computers and every bound: no disk is in it twice and none *)
(* is missing.                                                             *)
(***************************************************************************)
EXTENDS Runtime, SequenceTheorems, TLAPS

-----------------------------------------------------------------------------
(* The screen and the line editor.                                         *)

Width == VGA_WIDTH
Height == VGA_HEIGHT
Displays == [screen: Screen, row: 0 .. Height - 1, col: 0 .. Width - 1]

(* The cells before the cursor hold the end of a text.                     *)
Shows(d, text) ==
    /\ Position(d) <= Len(text)
    /\ \A k \in 1 .. Position(d) :
           d.screen[k - 1] = text[Len(text) - Position(d) + k]

-----------------------------------------------------------------------------
(* The products of row numbers and the width.                              *)
LEMMA RowStarts ==
    ASSUME NEW row \in 0 .. Height - 1
    PROVE  /\ row * Width \in Nat
           /\ (row + 1) * Width = row * Width + Width
           /\ (row - 1) * Width = row * Width - Width
           /\ row * Width + Width <= Width * Height
PROOF
  <1>1. Width \in Nat /\ Height \in Nat /\ row \in Nat /\ Height - 1 - row \in Nat
    BY ConsoleAssumption DEF Width, Height
  <1>2. \A m, n \in Nat : m * n \in Nat
    OBVIOUS
  <1>3. row * Width \in Nat /\ (Height - 1 - row) * Width \in Nat
    BY <1>1, <1>2
  <1>4. (Height - 1 - row) * Width = Width * Height - Width - row * Width
    BY <1>1
  <1>5. (row + 1) * Width = row * Width + Width /\ (row - 1) * Width = row * Width - Width
    BY <1>1
  <1>6. Width * Height \in Int
    BY <1>1
  <1> QED BY <1>1, <1>3, <1>4, <1>5, <1>6

LEMMA CursorInCells ==
    ASSUME NEW d \in Displays
    PROVE  /\ Position(d) \in Cells
           /\ Position(d) \in Nat /\ Position(d) < Width * Height
           /\ Width * Height \in Nat /\ Cells = 0 .. Width * Height - 1
PROOF
  <1>1. d.row \in 0 .. Height - 1 /\ d.col \in 0 .. Width - 1
    BY DEF Displays
  <1>2. d.row * Width \in Nat /\ d.row * Width + Width <= Width * Height
    BY <1>1, RowStarts
  <1>3. Position(d) = d.row * Width + d.col
    BY DEF Position, Width
  <1>4. Cells = 0 .. Width * Height - 1
    BY DEF Cells, Width, Height
  <1>5. Width \in Nat /\ Width * Height \in Int
    BY ConsoleAssumption DEF Width, Height
  <1> DEFINE rows == d.row * Width
             size == Width * Height
  <1>6. /\ Position(d) = rows + d.col /\ rows \in Nat /\ rows + Width <= size
        /\ d.col \in 0 .. Width - 1 /\ Width \in Nat /\ size \in Int
    BY <1>1, <1>2, <1>3, <1>5
  <1> HIDE DEF rows, size
  <1>7. Position(d) \in Nat /\ Position(d) < size /\ size \in Nat
    BY <1>6
  <1> QED BY <1>1, <1>4, <1>7 DEF size

LEMMA PutOnScreen ==
    ASSUME NEW d \in Displays, NEW cell \in Cells, NEW ch \in Letters
    PROVE  Put(d, cell, ch) \in Screen
  BY DEF Put, Displays, Screen

LEMMA ScrolledOnScreen ==
    ASSUME NEW screen \in Screen
    PROVE  Scrolled(screen) \in Screen
  BY ConsoleAssumption DEF Scrolled, Screen

LEMMA ShownOnScreen ==
    ASSUME NEW screen \in Screen, NEW row \in 0 .. Height - 1,
           NEW col \in 0 .. Width - 1
    PROVE  /\ Shown(screen, row, col) \in Displays
           /\ Shown(screen, row, col).screen = screen
           /\ Position(Shown(screen, row, col)) = row * Width + col
  BY DEF Shown, Displays, Position, Width

LEMMA NewLineOnScreen ==
    ASSUME NEW screen \in Screen, NEW row \in 0 .. Height - 1
    PROVE  NewLine(screen, row) \in Displays
PROOF
  <1>1. 0 \in 0 .. Width - 1 /\ Height - 1 \in 0 .. Height - 1
    BY ConsoleAssumption DEF Width, Height
  <1>2. CASE row + 1 < Height
    <2>1. row + 1 \in 0 .. Height - 1
      BY <1>2, ConsoleAssumption DEF Height
    <2> QED BY <1>1, <1>2, <2>1, ShownOnScreen DEF NewLine, Height
  <1>3. CASE ~(row + 1 < Height)
    BY <1>1, <1>3, ScrolledOnScreen, ShownOnScreen DEF NewLine, Height
  <1> QED BY <1>2, <1>3

(* A letter, a tab: the cursor wraps before it leaves the screen.          *)
LEMMA WrappedOnScreen ==
    ASSUME NEW screen \in Screen, NEW row \in 0 .. Height - 1, NEW col \in Nat
    PROVE  Wrapped(screen, row, col) \in Displays
PROOF
  <1>1. CASE col >= Width
    BY <1>1, NewLineOnScreen DEF Wrapped, Width
  <1>2. CASE ~(col >= Width)
    <2>1. col \in 0 .. Width - 1
      BY <1>2, ConsoleAssumption DEF Width
    <2> QED BY <1>2, <2>1, ShownOnScreen DEF Wrapped, Width
  <1> QED BY <1>1, <1>2

LEMMA LetterOnScreen ==
    ASSUME NEW d \in Displays, NEW ch \in Letters
    PROVE  Letter(d, ch) \in Displays
PROOF
  <1>1. Put(d, Position(d), ch) \in Screen
    BY CursorInCells, PutOnScreen
  <1>2. d.row \in 0 .. Height - 1 /\ d.col + 1 \in Nat
    BY DEF Displays
  <1> QED BY <1>1, <1>2, WrappedOnScreen DEF Letter

LEMMA TabOnScreen ==
    ASSUME NEW d \in Displays
    PROVE  Tab(d) \in Displays
PROOF
  <1> DEFINE n == TabWidth - (d.col % TabWidth)
             cells == Position(d) .. Position(d) + n - 1
             screen == [cell \in Cells |-> IF cell \in cells THEN Space ELSE d.screen[cell]]
  <1>1. d.row \in 0 .. Height - 1 /\ d.col \in Nat /\ d.screen \in Screen
    BY DEF Displays
  <1>2. screen \in Screen
    <2> HIDE DEF cells
    <2> QED BY <1>1, ConsoleAssumption DEF Screen
  <1>3. d.col + n \in Nat
    <2>1. d.col % TabWidth \in 0 .. TabWidth - 1 /\ TabWidth \in Nat
      BY <1>1, ConsoleAssumption
    <2> QED BY <1>1, <2>1
  <1>4. Tab(d) = Wrapped(screen, d.row, d.col + n)
    BY DEF Tab
  <1> HIDE DEF screen, n
  <1> QED BY <1>1, <1>2, <1>3, <1>4, WrappedOnScreen

(* The three cases of a backspace.                                         *)
LEMMA BackspaceOnScreen ==
    ASSUME NEW d \in Displays
    PROVE  /\ Backspace(d) \in Displays
           /\ \/ Position(d) = 0 /\ Backspace(d) = d
              \/ /\ Position(d) > 0
                 /\ Position(Backspace(d)) = Position(d) - 1
                 /\ Backspace(d).screen = Put(d, Position(d) - 1, Space)
PROOF
  <1>1. /\ d.row \in 0 .. Height - 1 /\ d.col \in 0 .. Width - 1
        /\ Width \in Nat \ {0} /\ Height \in Nat \ {0}
    BY ConsoleAssumption DEF Displays, Width, Height
  <1>2. /\ Position(d) \in Nat /\ Position(d) < Width * Height
        /\ Width * Height \in Nat /\ Cells = 0 .. Width * Height - 1
    BY CursorInCells
  <1>3. Position(d) = d.row * Width + d.col
    BY DEF Position, Width
  <1>4. d.row * Width \in Nat /\ (d.row - 1) * Width = d.row * Width - Width
    BY <1>1, RowStarts
  <1>5. Space \in Letters
    BY ConsoleAssumption
  <1>6. ASSUME Position(d) > 0 PROVE Put(d, Position(d) - 1, Space) \in Screen
    <2>1. Position(d) - 1 \in Cells
      BY <1>2, <1>6
    <2> QED BY <2>1, <1>5, PutOnScreen
  <1>7. CASE d.col > 0
    <2>1. Position(d) > 0
      BY <1>1, <1>3, <1>4, <1>7
    <2>2. Backspace(d) = Shown(Put(d, Position(d) - 1, Space), d.row, d.col - 1)
      BY <1>7 DEF Backspace
    <2>3. d.col - 1 \in 0 .. Width - 1
      BY <1>1, <1>7
    <2>4. d.row * Width + (d.col - 1) = Position(d) - 1
      BY <1>1, <1>3, <1>4
    <2> QED BY <1>1, <1>6, <2>1, <2>2, <2>3, <2>4, ShownOnScreen
  <1>8. CASE d.col = 0 /\ d.row > 0
    <2>1. Position(d) > 0
      <3>1. d.row * Width >= Width
        <4>1. d.row - 1 \in Nat /\ Width \in Nat
          BY <1>1, <1>8
        <4>2. (d.row - 1) * Width \in Nat
          BY <4>1
        <4> QED BY <4>1, <4>2, <1>4
      <3> QED BY <3>1, <1>1, <1>3, <1>8
    <2>2. Backspace(d) = Shown(Put(d, Position(d) - 1, Space), d.row - 1, Width - 1)
      BY <1>8 DEF Backspace, Width
    <2>3. d.row - 1 \in 0 .. Height - 1 /\ Width - 1 \in 0 .. Width - 1
      BY <1>1, <1>8
    <2>4. (d.row - 1) * Width + (Width - 1) = Position(d) - 1
      BY <1>1, <1>3, <1>4, <1>8
    <2> QED BY <1>6, <2>1, <2>2, <2>3, <2>4, ShownOnScreen
  <1>9. CASE d.col = 0 /\ d.row = 0
    <2>1. Position(d) = 0
      BY <1>1, <1>3, <1>9
    <2>2. Backspace(d) = d
      BY <1>9 DEF Backspace
    <2> QED BY <2>1, <2>2
  <1> QED BY <1>1, <1>7, <1>8, <1>9

-----------------------------------------------------------------------------
(* The text before the cursor.  A letter is added to it, wherever the      *)
(* cursor wraps to and however much is scrolled away.                      *)
LEMMA LetterShows ==
    ASSUME NEW d \in Displays, NEW text \in Seq(Letters), NEW ch \in Letters,
           Shows(d, text)
    PROVE  Shows(Letter(d, ch), Append(text, ch))
PROOF
  <1> DEFINE p == Position(d)
             screen == Put(d, p, ch)
             longer == Append(text, ch)
             e == Letter(d, ch)
  <1>1. /\ d.row \in 0 .. Height - 1 /\ d.col \in 0 .. Width - 1
        /\ Width \in Nat \ {0} /\ Height \in Nat \ {0}
    BY ConsoleAssumption DEF Displays, Width, Height
  <1>2. /\ p \in Nat /\ p < Width * Height /\ p \in Cells
        /\ Width * Height \in Nat /\ Cells = 0 .. Width * Height - 1
    BY CursorInCells
  <1>3. /\ p = d.row * Width + d.col /\ d.row * Width \in Nat
        /\ (d.row + 1) * Width = d.row * Width + Width
    BY <1>1, RowStarts DEF Position, Width
  <1>4. /\ Len(text) \in Nat /\ Len(longer) = Len(text) + 1
        /\ \A i \in 1 .. Len(text) : longer[i] = text[i]
        /\ longer[Len(text) + 1] = ch
    BY AppendProperties, LenProperties
  <1>5. p <= Len(text) /\ \A k \in 1 .. p : d.screen[k - 1] = text[Len(text) - p + k]
    BY DEF Shows
  <1>6. screen \in Screen /\ screen[p] = ch
        /\ \A cell \in Cells \ {p} : screen[cell] = d.screen[cell]
    BY <1>2, PutOnScreen DEF Put, Displays, Screen
  <1>7. \A k \in 1 .. p + 1 : screen[k - 1] = longer[Len(text) - p + k]
    <2> SUFFICES ASSUME NEW k \in 1 .. p + 1 PROVE screen[k - 1] = longer[Len(text) - p + k]
      OBVIOUS
    <2> HIDE DEF p, screen, longer
    <2>1. CASE k <= p
      <3>1. k \in 1 .. p /\ k - 1 \in Cells \ {p} /\ Len(text) - p + k \in 1 .. Len(text)
        BY <2>1, <1>2, <1>4, <1>5
      <3> QED BY <3>1, <1>4, <1>5, <1>6
    <2>2. CASE k = p + 1
      <3>1. k - 1 = p /\ Len(text) - p + k = Len(text) + 1
        BY <2>2, <1>2, <1>4
      <3> QED BY <3>1, <1>4, <1>6
    <2> QED BY <2>1, <2>2, <1>2
  <1>8. e = Wrapped(screen, d.row, d.col + 1)
    BY DEF Letter
  <1> HIDE DEF p, screen, longer
  <1>8a. /\ p \in Nat /\ p <= Len(text) /\ Len(text) \in Nat
         /\ Len(longer) = Len(text) + 1 /\ Width \in Nat
    BY <1>1, <1>2, <1>4, <1>5
  <1>9. CASE d.col + 1 < Width
    <2>1. e = Shown(screen, d.row, d.col + 1)
      BY <1>1, <1>8, <1>9 DEF Wrapped, Width
    <2>2. d.col + 1 \in 0 .. Width - 1
      BY <1>1, <1>9
    <2>3. Position(e) = p + 1 /\ e.screen = screen
      <3>1. d.row * Width + (d.col + 1) = p + 1
        BY <1>1, <1>3
      <3> HIDE DEF e
      <3> QED BY <2>1, <2>2, <3>1, <1>1, <1>6, ShownOnScreen
    <2> HIDE DEF e
    <2>4. Len(longer) - Position(e) = Len(text) - p /\ Position(e) <= Len(longer)
      BY <2>3, <1>8a
    <2>5. Shows(e, longer)
      BY <2>3, <2>4, <1>7 DEF Shows
    <2> QED BY <2>5 DEF e, longer
  <1>10. CASE ~(d.col + 1 < Width) /\ d.row + 1 < Height
    <2>1. e = Shown(screen, d.row + 1, 0)
      BY <1>1, <1>8, <1>10 DEF Wrapped, NewLine, Width, Height
    <2>2. d.row + 1 \in 0 .. Height - 1 /\ 0 \in 0 .. Width - 1
      BY <1>1, <1>10
    <2>3. Position(e) = p + 1 /\ e.screen = screen
      <3>1. (d.row + 1) * Width + 0 = p + 1
        <4>1. d.col + 1 = Width
          BY <1>1, <1>10
        <4> DEFINE rows == d.row * Width
                   here == (d.row + 1) * Width
        <4>2. here = rows + Width /\ p = rows + d.col /\ rows \in Nat
          BY <1>3
        <4>3. d.col \in Nat /\ Width \in Nat
          BY <1>1, <4>1
        <4> HIDE DEF rows, here, p
        <4>4. here = p + 1 /\ here + 0 = here
          BY <4>1, <4>2, <4>3
        <4> QED BY <4>4 DEF here
      <3> HIDE DEF e
      <3> QED BY <2>1, <2>2, <3>1, <1>6, ShownOnScreen
    <2> HIDE DEF e
    <2>4. Len(longer) - Position(e) = Len(text) - p /\ Position(e) <= Len(longer)
      BY <2>3, <1>8a
    <2>5. Shows(e, longer)
      BY <2>3, <2>4, <1>7 DEF Shows
    <2> QED BY <2>5 DEF e, longer
  <1>11. CASE ~(d.col + 1 < Width) /\ ~(d.row + 1 < Height)
    <2>1. e = Shown(Scrolled(screen), Height - 1, 0)
      BY <1>1, <1>8, <1>11 DEF Wrapped, NewLine, Width, Height
    <2>2. Height - 1 \in 0 .. Height - 1 /\ 0 \in 0 .. Width - 1 /\ d.row = Height - 1
      BY <1>1, <1>11
    <2>3. Position(e) = p + 1 - Width /\ e.screen = Scrolled(screen)
      <3>1. (Height - 1) * Width + 0 = p + 1 - Width
        <4> DEFINE rows == d.row * Width
        <4>1. d.col + 1 = Width /\ d.col \in Nat /\ Width \in Nat
          BY <1>1, <1>11
        <4>2. p = rows + d.col /\ rows \in Nat /\ (Height - 1) * Width = rows
          BY <2>2, <1>3
        <4> HIDE DEF rows, p
        <4>3. rows + 0 = p + 1 - Width
          BY <4>1, <4>2
        <4> QED BY <4>2, <4>3
      <3> HIDE DEF e
      <3> QED BY <2>1, <2>2, <3>1, <1>6, ScrolledOnScreen, ShownOnScreen
    <2> HIDE DEF e
    <2>4. Position(e) \in Nat
      <3>1. d.col + 1 = Width
        BY <1>1, <1>11
      <3> DEFINE start == d.row * Width
      <3>2. start \in Nat /\ p = start + d.col
        BY <1>3
      <3> HIDE DEF start
      <3>3. p + 1 - Width = start
        BY <3>1, <3>2, <1>1
      <3> QED BY <3>2, <3>3, <2>3
    <2>5. Len(longer) - Position(e) = Len(text) - p + Width /\ Position(e) <= Len(longer)
      BY <2>3, <2>4, <1>8a
    <2>6. ASSUME NEW k \in 1 .. Position(e)
          PROVE  e.screen[k - 1] = longer[Len(longer) - Position(e) + k]
      <3>1. k - 1 \in Cells /\ (k - 1) + Width \in Cells /\ k + Width \in 1 .. p + 1
        BY <2>3, <2>4, <1>1, <1>2
      <3>2. e.screen[k - 1] = screen[(k - 1) + Width]
        BY <2>3, <3>1 DEF Scrolled, Width
      <3>3. (k + Width) - 1 = (k - 1) + Width
            /\ Len(text) - p + (k + Width) = Len(longer) - Position(e) + k
        BY <2>4, <2>5, <1>1, <1>2, <1>4
      <3> QED BY <3>1, <3>2, <3>3, <1>7
    <2>7. Shows(e, longer)
      BY <2>5, <2>6 DEF Shows
    <2> QED BY <2>7 DEF e, longer
  <1> QED BY <1>9, <1>10, <1>11

(* A backspace takes the last letter away.                                 *)
LEMMA BackspaceShows ==
    ASSUME NEW d \in Displays, NEW text \in Seq(Letters), NEW shorter \in Seq(Letters),
           Len(text) = Len(shorter) + 1,
           \A i \in 1 .. Len(shorter) : shorter[i] = text[i],
           Shows(d, text)
    PROVE  Shows(Backspace(d), shorter)
PROOF
  <1> DEFINE p == Position(d)
             e == Backspace(d)
  <1>1. p \in Nat /\ Cells = 0 .. Width * Height - 1 /\ p < Width * Height
        /\ Width * Height \in Nat /\ Len(shorter) \in Nat
    BY CursorInCells, LenProperties
  <1>2. p <= Len(text) /\ \A k \in 1 .. p : d.screen[k - 1] = text[Len(text) - p + k]
    BY DEF Shows
  <1>3. \/ p = 0 /\ e = d
        \/ /\ p > 0 /\ Position(e) = p - 1
           /\ e.screen = Put(d, p - 1, Space)
    BY BackspaceOnScreen
  <1> HIDE DEF p, e
  <1>4. CASE p = 0 /\ e = d
    <2>1. Position(e) = 0
      BY <1>4 DEF p
    <2>2. Shows(e, shorter)
      BY <2>1, <1>1 DEF Shows
    <2> QED BY <2>2 DEF e
  <1>5. CASE p > 0 /\ Position(e) = p - 1 /\ e.screen = Put(d, p - 1, Space)
    <2>1. Position(e) <= Len(shorter)
      BY <1>1, <1>2, <1>5
    <2>2. ASSUME NEW k \in 1 .. Position(e)
          PROVE  e.screen[k - 1] = shorter[Len(shorter) - Position(e) + k]
      <3>1. k - 1 \in Cells /\ k - 1 # p - 1 /\ k \in 1 .. p
        BY <1>1, <1>5
      <3>2. e.screen[k - 1] = d.screen[k - 1]
        BY <3>1, <1>5 DEF Put, Displays, Screen
      <3>3. /\ Len(shorter) - Position(e) + k = Len(text) - p + k
            /\ Len(text) - p + k \in 1 .. Len(shorter)
        BY <1>1, <1>2, <1>5
      <3> QED BY <3>1, <3>2, <3>3, <1>2
    <2>3. Shows(e, shorter)
      BY <2>1, <2>2 DEF Shows
    <2> QED BY <2>3 DEF e
  <1> QED BY <1>3, <1>4, <1>5

-----------------------------------------------------------------------------
(* The parts of the text that the editor keeps.                            *)
LEMMA AppendAfter ==
    ASSUME NEW s \in Seq(Letters), NEW t \in Seq(Letters), NEW ch \in Letters
    PROVE  s \o Append(t, ch) = Append(s \o t, ch)
PROOF
  <1>1. /\ s \o t \in Seq(Letters) /\ Append(t, ch) \in Seq(Letters)
        /\ Append(s \o t, ch) \in Seq(Letters) /\ s \o Append(t, ch) \in Seq(Letters)
    BY ConcatProperties, AppendProperties
  <1>2. <<ch>> \in Seq(Letters)
    OBVIOUS
  <1>3. Append(t, ch) = t \o <<ch>> /\ Append(s \o t, ch) = (s \o t) \o <<ch>>
    BY <1>1, AppendIsConcat
  <1> QED BY <1>2, <1>3, ConcatAssociative

LEMMA FrontAfter ==
    ASSUME NEW s \in Seq(Letters), NEW t \in Seq(Letters), t # <<>>
    PROVE  /\ SubSeq(t, 1, Len(t) - 1) \in Seq(Letters)
           /\ Len(SubSeq(t, 1, Len(t) - 1)) = Len(t) - 1
           /\ s \o SubSeq(t, 1, Len(t) - 1) \in Seq(Letters)
           /\ Len(s \o t) = Len(s \o SubSeq(t, 1, Len(t) - 1)) + 1
           /\ \A i \in 1 .. Len(s \o SubSeq(t, 1, Len(t) - 1)) :
                  (s \o SubSeq(t, 1, Len(t) - 1))[i] = (s \o t)[i]
PROOF
  <1> DEFINE u == SubSeq(t, 1, Len(t) - 1)
  <1>1. Len(s) \in Nat /\ Len(t) \in Nat \ {0}
    BY EmptySeq, LenProperties
  <1>2. /\ u \in Seq(Letters) /\ Len(u) = Len(t) - 1
        /\ \A i \in 1 .. Len(t) - 1 : u[i] = t[i]
    <2>1. \A i \in 1 .. Len(t) - 1 : t[i] \in Letters
      BY <1>1, ElementOfSeq
    <2>2. 1 \in Int /\ Len(t) - 1 \in Int
      BY <1>1
    <2>3. /\ u \in Seq(Letters)
          /\ Len(u) = IF 1 <= Len(t) - 1 THEN (Len(t) - 1) - 1 + 1 ELSE 0
          /\ \A i \in 1 .. (Len(t) - 1) - 1 + 1 : u[i] = t[1 + i - 1]
      BY <2>1, <2>2, SubSeqProperties
    <2> HIDE DEF u
    <2>4. Len(u) = Len(t) - 1
      <3>1. CASE 1 <= Len(t) - 1
        BY <2>3, <3>1, <1>1
      <3>2. CASE ~(1 <= Len(t) - 1)
        <4>1. Len(u) = 0
          BY <2>3, <3>2
        <4>2. \A n \in Nat \ {0} : ~(1 <= n - 1) => n - 1 = 0
          OBVIOUS
        <4>3. Len(t) - 1 = 0
          BY ONLY <4>2, <3>2, <1>1
        <4> QED BY <4>1, <4>3
      <3> QED BY <3>1, <3>2
    <2>5. \A i \in 1 .. Len(t) - 1 : 1 + i - 1 = i /\ i \in 1 .. (Len(t) - 1) - 1 + 1
      BY <1>1
    <2>6. \A i \in 1 .. Len(t) - 1 : u[i] = t[i]
      BY <2>3, <2>5
    <2> QED BY <2>3, <2>4, <2>6
  <1> HIDE DEF u
  <1>3. /\ s \o u \in Seq(Letters) /\ Len(s \o u) = Len(s) + Len(u)
        /\ \A i \in 1 .. Len(s) + Len(u) :
               (s \o u)[i] = IF i <= Len(s) THEN s[i] ELSE u[i - Len(s)]
    BY <1>2, ConcatProperties
  <1>4. /\ Len(s \o t) = Len(s) + Len(t)
        /\ \A i \in 1 .. Len(s) + Len(t) :
               (s \o t)[i] = IF i <= Len(s) THEN s[i] ELSE t[i - Len(s)]
    BY ConcatProperties
  <1>5. \A i \in 1 .. Len(s \o u) : (s \o u)[i] = (s \o t)[i]
    <2> SUFFICES ASSUME NEW i \in 1 .. Len(s \o u) PROVE (s \o u)[i] = (s \o t)[i]
      OBVIOUS
    <2>1. i \in 1 .. Len(s) + Len(u) /\ i \in 1 .. Len(s) + Len(t)
      BY <1>1, <1>2, <1>3
    <2>2. CASE i <= Len(s)
      BY <2>1, <2>2, <1>3, <1>4
    <2>3. CASE ~(i <= Len(s))
      <3>1. i - Len(s) \in 1 .. Len(t) - 1
        BY <2>1, <2>3, <1>1, <1>2
      <3>2. (s \o u)[i] = u[i - Len(s)] /\ (s \o t)[i] = t[i - Len(s)]
        BY <2>1, <2>3, <1>3, <1>4
      <3> QED BY <3>1, <3>2, <1>2
    <2> QED BY <2>2, <2>3
  <1>6. Len(s \o t) = Len(s \o u) + 1
    BY <1>1, <1>2, <1>3, <1>4
  <1> QED BY <1>2, <1>3, <1>5, <1>6 DEF u

-----------------------------------------------------------------------------
EditorInv == ConsoleTypeOK /\ (reading => Shows(display, before \o buffer))

LEMMA EditorInit == ConsoleInit => EditorInv
PROOF
  <1> SUFFICES ASSUME ConsoleInit PROVE EditorInv
    OBVIOUS
  <1>1. Cleared \in Screen
    BY ConsoleAssumption DEF Cleared, Screen
  <1>2. 0 \in 0 .. Height - 1 /\ 0 \in 0 .. Width - 1
    BY ConsoleAssumption DEF Height, Width
  <1>3. display \in Displays
    BY <1>1, <1>2, ShownOnScreen DEF ConsoleInit
  <1>4. /\ shift_down = FALSE /\ reading = FALSE /\ capacity = 0
        /\ buffer = <<>> /\ before = <<>> /\ written = 0
    BY DEF ConsoleInit
  <1>5. <<>> \in Seq(Letters)
    OBVIOUS
  <1>6. ConsoleTypeOK
    BY <1>3, <1>4, <1>5 DEF ConsoleTypeOK, Displays, Height, Width
  <1> QED BY <1>4, <1>6 DEF EditorInv

LEMMA EditorStep == EditorInv /\ [ConsoleNext]_consoleVars => EditorInv'
PROOF
  <1> SUFFICES ASSUME EditorInv, [ConsoleNext]_consoleVars PROVE EditorInv'
    OBVIOUS
  <1>1. /\ display \in Displays /\ shift_down \in BOOLEAN /\ reading \in BOOLEAN
        /\ capacity \in Nat /\ before \in Seq(Letters) /\ written \in Nat
        /\ buffer \in Seq(Letters) /\ (reading => Len(buffer) < capacity)
        /\ (reading => Shows(display, before \o buffer))
    BY DEF EditorInv, ConsoleTypeOK, Displays, Height, Width
  <1>2. ASSUME /\ display' \in Displays /\ shift_down' \in BOOLEAN /\ reading' \in BOOLEAN
               /\ capacity' \in Nat /\ before' \in Seq(Letters) /\ written' \in Nat
               /\ buffer' \in Seq(Letters) /\ (reading' => Len(buffer') < capacity')
               /\ (reading' => Shows(display', before' \o buffer'))
        PROVE  EditorInv'
    <2>1. ConsoleTypeOK'
      BY <1>2 DEF ConsoleTypeOK, Displays, Height, Width
    <2>2. reading' => Shows(display, before \o buffer)'
      BY <1>2 DEF Shows, Position
    <2> QED BY <2>1, <2>2 DEF EditorInv
  <1>3. /\ display.screen \in Screen /\ display.row \in 0 .. Height - 1
        /\ 0 \in 0 .. Height - 1 /\ 0 \in 0 .. Width - 1
    BY <1>1, ConsoleAssumption DEF Displays, Height, Width
  <1>4. Len(buffer) \in Nat
    BY <1>1, LenProperties
  <1>5. CASE Write
    <2>1. display' \in Displays
      <3>1. CASE \E ch \in Letters : display' = Letter(display, ch)
        BY <3>1, <1>1, LetterOnScreen
      <3>2. CASE display' = NewLine(display.screen, display.row)
        BY <3>2, <1>3, NewLineOnScreen
      <3>3. CASE display' = Shown(display.screen, display.row, 0)
        BY <3>3, <1>3, ShownOnScreen
      <3>4. CASE display' = Backspace(display)
        BY <3>4, <1>1, BackspaceOnScreen
      <3>5. CASE display' = Tab(display)
        BY <3>5, <1>1, TabOnScreen
      <3> QED BY <3>1, <3>2, <3>3, <3>4, <3>5, <1>5 DEF Write
    <2> QED BY <2>1, <1>1, <1>2, <1>5 DEF Write, editor
  <1>6. CASE Clear
    <2>1. Cleared \in Screen
      BY ConsoleAssumption DEF Cleared, Screen
    <2>2. display' \in Displays
      BY <2>1, <1>3, <1>6, ShownOnScreen DEF Clear
    <2> QED BY <2>2, <1>1, <1>2, <1>6 DEF Clear, editor
  <1>7. ASSUME NEW size \in Capacities, BeginRead(size) PROVE EditorInv'
    <2> DEFINE text == [k \in 1 .. Position(display) |-> display.screen[k - 1]]
    <2>1. Position(display) \in Nat /\ \A k \in 1 .. Position(display) : display.screen[k - 1] \in Letters
      <3>1. /\ Position(display) \in Nat /\ Position(display) < Width * Height
            /\ Width * Height \in Nat /\ Cells = 0 .. Width * Height - 1
        BY <1>1, CursorInCells
      <3>2. \A k \in 1 .. Position(display) : k - 1 \in Cells
        BY <3>1
      <3> QED BY <3>1, <3>2, <1>3 DEF Screen
    <2>2. text \in Seq(Letters) /\ Len(text) = Position(display)
      BY <2>1
    <2>3. buffer' = <<>> /\ before' = text /\ display' = display /\ reading' = TRUE
          /\ capacity' = size /\ size # 0 /\ shift_down' = shift_down /\ written' = written
      BY <1>7 DEF BeginRead
    <2>4. before' \o buffer' = text
      <3> HIDE DEF text
      <3> QED BY <2>2, <2>3, ConcatEmptySeq
    <2>5. Shows(display', text)
      BY <2>1, <2>2, <2>3 DEF Shows
    <2>6. size \in Nat /\ Len(<<>>) = 0 /\ <<>> \in Seq(Letters)
      BY ConsoleAssumption, EmptySeq
    <2> HIDE DEF text
    <2> QED BY <2>2, <2>3, <2>4, <2>5, <2>6, <1>1, <1>2
  <1>8. CASE PressShift
    BY <1>1, <1>2, <1>8 DEF PressShift
  <1>9. ASSUME NEW code \in Scancodes, TypeKey(code) PROVE EditorInv'
    <2> DEFINE ch == IF shift_down THEN Shifted[code] ELSE Normal[code]
    <2>1. ch \in Letters
      BY ConsoleAssumption
    <2>2. /\ buffer' = Append(buffer, ch) /\ display' = Letter(display, ch)
          /\ reading /\ Len(buffer) + 1 < capacity
          /\ UNCHANGED <<shift_down, reading, capacity, before, written>>
      BY <1>9 DEF TypeKey, HasRoom
    <2> HIDE DEF ch
    <2>3. buffer' \in Seq(Letters) /\ Len(buffer') = Len(buffer) + 1
      BY <2>1, <2>2, <1>1, AppendProperties
    <2>4. before' \o buffer' = Append(before \o buffer, ch)
      BY <2>1, <2>2, <1>1, AppendAfter
    <2>5. before \o buffer \in Seq(Letters)
      BY <1>1, ConcatProperties
    <2>6. display' \in Displays /\ Shows(display', before' \o buffer')
      BY <2>1, <2>2, <2>4, <2>5, <1>1, LetterOnScreen, LetterShows
    <2> QED BY <2>2, <2>3, <2>6, <1>1, <1>2
  <1>10. CASE EraseKey
    <2>1. /\ buffer # <<>> /\ buffer' = SubSeq(buffer, 1, Len(buffer) - 1)
          /\ display' = Backspace(display) /\ reading
          /\ UNCHANGED <<shift_down, reading, capacity, before, written>>
      BY <1>10 DEF EraseKey
    <2>2. /\ buffer' \in Seq(Letters) /\ Len(buffer') = Len(buffer) - 1
          /\ before' \o buffer' \in Seq(Letters)
          /\ Len(before \o buffer) = Len(before' \o buffer') + 1
          /\ \A i \in 1 .. Len(before' \o buffer') :
                 (before' \o buffer')[i] = (before \o buffer)[i]
      BY <2>1, <1>1, FrontAfter
    <2>3. before \o buffer \in Seq(Letters)
      BY <1>1, ConcatProperties
    <2>4. display' \in Displays
      BY <2>1, <1>1, BackspaceOnScreen
    <2>5. Shows(display', before' \o buffer')
      BY <2>1, <2>2, <2>3, <1>1, BackspaceShows
    <2> QED BY <2>1, <2>2, <2>4, <2>5, <1>1, <1>2, <1>4
  <1>11. CASE EnterKey
    <2>1. display' \in Displays
      BY <1>3, <1>11, NewLineOnScreen DEF EnterKey
    <2> QED BY <2>1, <1>1, <1>2, <1>11 DEF EnterKey
  <1>12. CASE UNCHANGED consoleVars
    BY <1>1, <1>2, <1>12 DEF consoleVars
  <1> QED BY <1>5, <1>6, <1>7, <1>8, <1>9, <1>10, <1>11, <1>12 DEF ConsoleNext

(* No character is put outside of VGA_MEMORY or past the end of a buffer.  *)
THEOREM ConsoleSafe == ConsoleSpec => []ConsoleTypeOK
PROOF
  <1>1. EditorInv => ConsoleTypeOK
    BY DEF EditorInv
  <1> QED BY <1>1, EditorInit, EditorStep, PTL DEF ConsoleSpec

(* What the user sees of a line is what the program will get.              *)
THEOREM EchoAlways == ConsoleSpec => []EchoMatches
PROOF
  <1>1. EditorInv => EchoMatches
    BY DEF EditorInv, EchoMatches, Shows
  <1> QED BY <1>1, EditorInit, EditorStep, PTL DEF ConsoleSpec

-----------------------------------------------------------------------------
(* Where a string stands: the next block comes right after what was built  *)
(* since; or the arena has wrapped and the next block is below the string, *)
(* and what lies between, the gap at the end included, has been passed; or *)
(* the string was overwritten, by blocks that reach from it around the end *)
(* of the arena to it.                                                     *)
Ahead(b, at) == b.intact /\ at = b.base + b.size + b.since
Below(b, at) ==
    /\ b.intact /\ at <= b.base
    /\ b.base + b.size + b.since + b.largest >= ArenaBytes + 1 + at
Lost(b) == ~b.intact /\ b.size + b.since + b.largest >= ArenaBytes + 2

Placed(b, at) ==
    /\ b \in Block /\ b.base + b.size <= ArenaBytes
    /\ Ahead(b, at) \/ Below(b, at) \/ Lost(b)

ArenaInv == next \in 0 .. ArenaBytes /\ \A b \in held : Placed(b, next)

-----------------------------------------------------------------------------
(* A block lies in the arena.                                              *)
LEMMA BaseInArena ==
    ASSUME NEW at \in 0 .. ArenaBytes, NEW size \in 1 .. ArenaBytes
    PROVE  /\ Base(at, size) \in Nat
           /\ Base(at, size) + size \in 0 .. ArenaBytes
           /\ Base(at, size) = at \/ (Base(at, size) = 0 /\ at + size > ArenaBytes)
  BY StringArenaAssumption DEF Base

(* A new block leaves every string placed.                                 *)
LEMMA AgedPlaced ==
    ASSUME NEW at \in 0 .. ArenaBytes, NEW size \in 1 .. ArenaBytes,
           NEW b, Placed(b, at)
    PROVE  Placed(Aged(b, Base(at, size), size), Base(at, size) + size)
PROOF
  <1> DEFINE base == Base(at, size)
             c == Aged(b, base, size)
  <1>1. /\ base \in Nat /\ base + size <= ArenaBytes
        /\ base = at \/ (base = 0 /\ at + size > ArenaBytes)
    BY BaseInArena
  <1>2. /\ b.base \in Nat /\ b.size \in Nat \ {0} /\ b.since \in Nat
        /\ b.largest \in Nat /\ b.intact \in BOOLEAN /\ b.base + b.size <= ArenaBytes
    BY DEF Placed, Block
  <1>3. ArenaBytes \in Nat /\ at \in Nat /\ at <= ArenaBytes /\ size \in Nat /\ size > 0
    BY StringArenaAssumption
  <1>4. /\ c.base = b.base /\ c.size = b.size /\ c.since = b.since + size
        /\ c.largest = (IF size > b.largest THEN size ELSE b.largest)
        /\ c.intact = (b.intact /\ Disjoint(b, base, size))
        /\ DOMAIN c = DOMAIN b
    <2> HIDE DEF base
    <2> QED BY DEF Aged, Placed, Block
  <1>5. /\ c.largest \in Nat /\ c.largest >= size /\ c.largest >= b.largest
        /\ c.since \in Nat
    <2> HIDE DEF c, base
    <2> QED BY <1>2, <1>3, <1>4
  <1>6. c \in Block /\ c.base + c.size <= ArenaBytes
    <2>1. ASSUME NEW since \in Nat, NEW largest \in Nat, NEW intact \in BOOLEAN
          PROVE  [b EXCEPT !.since = since, !.largest = largest, !.intact = intact] \in Block
      BY DEF Placed, Block
    <2>2. (b.intact /\ Disjoint(b, base, size)) \in BOOLEAN
      OBVIOUS
    <2>3. /\ b.since + size \in Nat
          /\ (IF size > b.largest THEN size ELSE b.largest) \in Nat
      BY <1>2, <1>3
    <2>4. c \in Block
      <3> HIDE DEF base
      <3> QED BY <2>1, <2>2, <2>3 DEF Aged
    <2> HIDE DEF c, base
    <2> QED BY <2>4, <1>2, <1>4
  <1> SUFFICES Placed(c, base + size)
    OBVIOUS
  <1> HIDE DEF c, base
  <1>7. Disjoint(b, base, size) <=> b.base + b.size <= base \/ base + size <= b.base
    BY DEF Disjoint
  <1>8. CASE Ahead(b, at)
    <2>1. at = b.base + b.size + b.since /\ b.intact
      BY <1>8 DEF Ahead
    <2>2. CASE base = at
      <3>1. Disjoint(b, base, size)
        BY <2>1, <2>2, <1>2, <1>7
      <3>2. c.intact
        BY <3>1, <2>1, <1>4
      <3>3. base + size = c.base + c.size + c.since
        BY <2>1, <2>2, <1>2, <1>3, <1>4
      <3> QED BY <3>2, <3>3, <1>6 DEF Placed, Ahead
    <2>3. CASE base = 0 /\ at + size > ArenaBytes
      <3>1. CASE size <= b.base
        <4>1. Disjoint(b, base, size)
          BY <3>1, <2>3, <1>2, <1>3, <1>7
        <4>2. c.intact
          BY <4>1, <2>1, <1>4
        <4>3. /\ base + size <= c.base
              /\ c.base + c.size + c.since + c.largest >= ArenaBytes + 1 + (base + size)
          BY <3>1, <2>1, <2>3, <1>2, <1>3, <1>4, <1>5
        <4> QED BY <4>2, <4>3, <1>6 DEF Placed, Below
      <3>2. CASE size > b.base
        <4>1. ~Disjoint(b, base, size)
          BY <3>2, <2>3, <1>2, <1>3, <1>7
        <4>2. ~c.intact
          BY <4>1, <1>4
        <4>3. c.size + c.since + c.largest >= ArenaBytes + 2
          BY <3>2, <2>1, <2>3, <1>2, <1>3, <1>4, <1>5
        <4> QED BY <4>2, <4>3, <1>6 DEF Placed, Lost
      <3> QED BY <3>1, <3>2, <1>2, <1>3
    <2> QED BY <2>2, <2>3, <1>1
  <1>9. CASE Below(b, at)
    <2>1. /\ b.intact /\ at <= b.base
          /\ b.base + b.size + b.since + b.largest >= ArenaBytes + 1 + at
      BY <1>9 DEF Below
    <2>2. base <= at
      BY <1>1, <1>3
    <2>3. CASE base + size <= b.base
      <3>1. c.intact
        BY <2>1, <2>3, <1>4, <1>7
      <3>2. c.base + c.size + c.since + c.largest >= ArenaBytes + 1 + (base + size)
        BY <2>1, <2>2, <1>1, <1>2, <1>3, <1>4, <1>5
      <3> QED BY <3>1, <3>2, <2>3, <1>4, <1>6 DEF Placed, Below
    <2>4. CASE base + size > b.base
      <3>1. ~Disjoint(b, base, size)
        BY <2>1, <2>2, <2>4, <1>1, <1>2, <1>3, <1>7
      <3>2. ~c.intact
        BY <3>1, <1>4
      <3>3. c.size + c.since + c.largest >= ArenaBytes + 2
        BY <2>1, <2>2, <2>4, <1>1, <1>2, <1>3, <1>4, <1>5
      <3> QED BY <3>2, <3>3, <1>6 DEF Placed, Lost
    <2> QED BY <2>3, <2>4, <1>1, <1>2, <1>3
  <1>10. CASE Lost(b)
    <2>1. ~b.intact /\ b.size + b.since + b.largest >= ArenaBytes + 2
      BY <1>10 DEF Lost
    <2>2. ~c.intact
      BY <2>1, <1>4
    <2>3. c.size + c.since + c.largest >= ArenaBytes + 2
      BY <2>1, <1>2, <1>3, <1>4, <1>5
    <2> QED BY <2>2, <2>3, <1>6 DEF Placed, Lost
  <1> QED BY <1>8, <1>9, <1>10 DEF Placed

(* A string just built is placed.                                          *)
LEMMA FreshPlaced ==
    ASSUME NEW at \in 0 .. ArenaBytes, NEW size \in 1 .. ArenaBytes
    PROVE  Placed(Fresh(Base(at, size), size), Base(at, size) + size)
PROOF
  <1>1. Base(at, size) \in Nat /\ Base(at, size) + size \in 0 .. ArenaBytes
    BY BaseInArena
  <1>2. ArenaBytes \in Nat /\ size \in Nat \ {0}
    BY StringArenaAssumption
  <1> QED BY <1>1, <1>2 DEF Fresh, Placed, Ahead, Block

(* Every string built lasts, whatever the program keeps and drops, until   *)
(* the arena is full of what was built since.                              *)
THEOREM ArenaSafe == ArenaSpec => []ArenaInv
PROOF
  <1>1. ArenaInit => ArenaInv
    BY StringArenaAssumption DEF ArenaInit, ArenaInv
  <1>2. ArenaInv /\ [ArenaNext]_arenaVars => ArenaInv'
    <2> SUFFICES ASSUME ArenaInv, [ArenaNext]_arenaVars PROVE ArenaInv'
      OBVIOUS
    <2> USE DEF ArenaInv
    <2>1. ASSUME NEW size \in 1 .. ArenaBytes, Build(size) PROVE ArenaInv'
      <3> DEFINE base == Base(next, size)
      <3>1. next' = base + size
        BY <2>1 DEF Build
      <3>2. \A b \in held' :
               b = Fresh(base, size) \/ \E a \in held : b = Aged(a, base, size)
        BY <2>1 DEF Build, Keeping
      <3>3. \A b \in held' : Placed(b, base + size)
        BY <3>2, AgedPlaced, FreshPlaced
      <3>4. base + size \in 0 .. ArenaBytes
        BY BaseInArena
      <3> QED BY <3>1, <3>3, <3>4
    <2>2. ASSUME NEW size \in Digits, BuildNumber(size) PROVE ArenaInv'
      <3> DEFINE low == Base(next, Scratch)
                 base == Base(low + Scratch, size)
      <3>1. next' = base + size
        BY <2>2 DEF BuildNumber
      <3>2. \A b \in held' :
               \/ b = Fresh(base, size)
               \/ \E a \in held : b = Aged(Aged(a, low, Scratch), base, size)
        BY <2>2 DEF BuildNumber, Keeping
      <3>3. Scratch \in 1 .. ArenaBytes /\ size \in 1 .. ArenaBytes
        BY StringArenaAssumption
      <3>4. low + Scratch \in 0 .. ArenaBytes
        BY <3>3, BaseInArena
      <3>5. \A a \in held : Placed(Aged(a, low, Scratch), low + Scratch)
        BY <3>3, AgedPlaced
      <3>6. \A b \in held' : Placed(b, base + size)
        BY <3>2, <3>3, <3>4, <3>5, AgedPlaced, FreshPlaced
      <3>7. base + size \in 0 .. ArenaBytes
        BY <3>3, <3>4, BaseInArena
      <3> QED BY <3>1, <3>6, <3>7
    <2>3. CASE Drop
      BY <2>3 DEF Drop
    <2>4. CASE UNCHANGED arenaVars
      BY <2>4 DEF arenaVars
    <2> QED BY <2>1, <2>2, <2>3, <2>4 DEF ArenaNext
  <1> QED BY <1>1, <1>2, PTL DEF ArenaSpec

(* StringsLast and the bounds of every block.                              *)
THEOREM StringsLastAlways == ArenaSpec => [](ArenaTypeOK /\ StringsLast)
PROOF
  <1>1. ArenaInv => ArenaTypeOK /\ StringsLast
    <2> SUFFICES ASSUME ArenaInv PROVE ArenaTypeOK /\ StringsLast
      OBVIOUS
    <2>1. ArenaTypeOK
      BY DEF ArenaInv, ArenaTypeOK, Placed
    <2>2. ASSUME NEW b \in held, b.size + b.since + b.largest <= ArenaBytes + 1
          PROVE  b.intact
      <3>1. Placed(b, next)
        BY DEF ArenaInv
      <3>2. /\ b.size \in Nat /\ b.since \in Nat /\ b.largest \in Nat
            /\ ArenaBytes \in Nat
        BY <3>1, StringArenaAssumption DEF Placed, Block
      <3>3. ~Lost(b)
        BY <2>2, <3>2 DEF Lost
      <3> QED BY <3>1, <3>3 DEF Placed, Ahead, Below
    <2> QED BY <2>1, <2>2 DEF StringsLast
  <1> QED BY <1>1, ArenaSafe, PTL
-----------------------------------------------------------------------------
(* The table of disks.                                                     *)

(* The functions of a computer that are looked at.                         *)
Fun(c, s, f) ==
    IF f < Len(c.slots[s].functions) THEN c.slots[s].functions[f + 1]
    ELSE IF c.slots[s].multi THEN Absent ELSE c.slots[s].functions[1]
Count(c, s) == IF c.slots[s].multi THEN NumFunctions ELSE 1
LookedAt(c, s, f) ==
    s \in 1 .. Len(c.slots) /\ f \in Nat /\ f < Count(c, s) /\ Fun(c, s, 0) # Absent

(* The AHCI ports that come before a position of the three loops.          *)
Passed(c, place, s, f, n) ==
    \E t, g \in Nat :
        /\ LookedAt(c, t, g) /\ Reachable(Fun(c, t, g))
        /\ place[1] = Fun(c, t, g).base /\ place[2] \in 1 .. Len(Fun(c, t, g).ports)
        /\ t < s \/ (t = s /\ (g < f \/ (g = f /\ place[2] < n)))

DrivePlaces == Channels \X {0, 1}
PortPlaces(c) == {<<Fun(c, p[1], p[2]).base, p[3]>> : p \in Nat \X Nat \X Nat}
Entry(c) ==
    [kind: {"ide", "ahci"}, at: DrivePlaces \cup PortPlaces(c), context: Int,
     sectors: {n \in Nat : n < Word}]

ScanTypes ==
    /\ computer \in Computers /\ scan \in {"none", "running", "done"}
    /\ slot \in Nat \ {0} /\ function \in Nat /\ port \in Nat
    /\ drives \in Seq(DrivePlaces) /\ found_ide \in BOOLEAN
    /\ disks \in Seq(Entry(computer)) /\ Len(disks) <= MaxDisks
    /\ contexts \in 0 .. MaxContexts
    /\ \A i \in 1 .. Len(disks) : disks[i].context < contexts
    /\ selected \in 0 .. Len(disks) /\ (scan # "done" => selected = 0)

(* An AHCI controller is in hand, or IDE drives are, or nothing.           *)
InHand ==
    port # 0 =>
        /\ drives = <<>>
        /\ LookedAt(computer, slot, function) /\ Reachable(Fun(computer, slot, function))
        /\ port \in 1 .. Len(Fun(computer, slot, function).ports)

(* The ports in the table and the ports that were given memory are behind. *)
PortsBehind ==
    /\ \A i \in 1 .. Len(disks) :
           disks[i].kind = "ahci" => Passed(computer, disks[i].at, slot, function, port)
    /\ \A p \in programmed :
           /\ Passed(computer, p[1], slot, function, port)
           /\ p[2] \in Nat /\ p[2] < contexts
    /\ scan = "none" => programmed = {}

(* The IDE drives in hand are apart, and not in the table yet; there are   *)
(* none in hand or in the table until a controller is found or the bus has *)
(* been searched.                                                          *)
DrivesAhead ==
    /\ \A i, j \in 1 .. Len(drives) : drives[i] = drives[j] => i = j
    /\ \A i \in 1 .. Len(disks), j \in 1 .. Len(drives) :
           disks[i].kind = "ide" => disks[i].at # drives[j]
    /\ ~found_ide /\ slot <= Len(computer.slots) + 1 =>
           drives = <<>> /\ \A i \in 1 .. Len(disks) : disks[i].kind # "ide"

ScanInv == ScanTypes /\ InHand /\ PortsBehind /\ DrivesAhead /\ DisksApart

(* The functions that a device has, in the words of Fun.                    *)
Unit(c, p) == Fun(c, p[1], p[2])
Units(c) ==
    {p \in (1 .. Len(c.slots)) \X (0 .. NumFunctions - 1) :
        /\ p[2] < Len(c.slots[p[1]].functions) /\ (p[2] > 0 => c.slots[p[1]].multi)
        /\ c.slots[p[1]].functions[1] # Absent}
IdeUnits(c) == {p \in Units(c) : Unit(c, p).is = "ide"}
ChannelsOf(c) ==
    IF IdeUnits(c) = {} THEN {Primary, Secondary}
    ELSE LET first == CHOOSE p \in IdeUnits(c) : \A q \in IdeUnits(c) : Before(p, q)
         IN  {Channel(Unit(c, first), i) : i \in {1, 2}} \cap Channels
DrivesSought(c) == ChannelsOf(c) \X {0, 1}

(* A disk is settled that is in the table, or for which there is no room.   *)
InTable(table, kind, place, drive) ==
    \E i \in 1 .. Len(table) :
        /\ table[i].kind = kind /\ table[i].at = place
        /\ table[i].sectors = Min({drive.sectors, Word - 1})
Settled(table, kind, place, drive) ==
    drive.is = "disk" => InTable(table, kind, place, drive) \/ Len(table) = MaxDisks

Behind(p, n, s, f, k) == p[1] < s \/ (p[1] = s /\ (p[2] < f \/ (p[2] = f /\ n < k)))

(* The ports behind the position of the loops are settled.                  *)
PortsSettled ==
    \A p \in Units(computer) : Reachable(Unit(computer, p)) =>
        \A n \in 1 .. Len(Unit(computer, p).ports) :
            Behind(p, n, slot, function, port) =>
                \/ contexts = MaxContexts
                \/ Settled(disks, "ahci", <<Unit(computer, p).base, n>>,
                           Unit(computer, p).ports[n])

(* No IDE controller was passed over; the drives in hand are those of the   *)
(* first one, or of the legacy ports, and the others of these are settled.  *)
DrivesSettled ==
    /\ ~found_ide => \A p \in IdeUnits(computer) : ~Behind(p, 0, slot, function, 0)
    /\ \A j \in 1 .. Len(drives) : drives[j] \in DrivesSought(computer)
    /\ found_ide \/ slot > Len(computer.slots) + 1 =>
           \A place \in DrivesSought(computer) :
               \/ \E j \in 1 .. Len(drives) : drives[j] = place
               \/ Settled(disks, "ide", place, computer.drives[place])

(* What is in the table is there.                                           *)
IsPort(c, place) ==
    \E p \in Units(c) :
        /\ Reachable(Unit(c, p)) /\ place[1] = Unit(c, p).base
        /\ place[2] \in 1 .. Len(Unit(c, p).ports) /\ place = <<place[1], place[2]>>
        /\ Unit(c, p).ports[place[2]].is = "disk"
Genuine ==
    \A i \in 1 .. Len(disks) :
        \/ disks[i].kind = "ahci" /\ IsPort(computer, disks[i].at)
        \/ /\ disks[i].kind = "ide" /\ disks[i].at \in DrivesSought(computer)
           /\ computer.drives[disks[i].at].is = "disk"

(* The loops before they start and when they have ended.                    *)
AtEnds ==
    /\ scan = "none" =>
          /\ slot = 1 /\ function = 0 /\ port = 0 /\ drives = <<>>
          /\ found_ide = FALSE /\ disks = <<>> /\ contexts = 0
    /\ scan = "done" => slot = Len(computer.slots) + 2 /\ port = 0 /\ drives = <<>>

FoundInv == PortsSettled /\ DrivesSettled /\ Genuine /\ AtEnds

-----------------------------------------------------------------------------
LEMMA Computer ==
    ASSUME NEW c \in Computers
    PROVE  /\ Len(c.slots) \in Nat
           /\ \A place \in DrivePlaces : IsAnswer(c.drives[place])
           /\ \A s \in 1 .. Len(c.slots) :
                 /\ Len(c.slots[s].functions) \in Nat \ {0}
                 /\ \A f \in 1 .. Len(c.slots[s].functions) : IsFunction(c.slots[s].functions[f])
                 /\ Count(c, s) \in Nat \ {0}
PROOF
  <1>1. /\ Len(c.slots) \in Nat
        /\ \A place \in Channels \X {0, 1} : IsAnswer(c.drives[place])
        /\ \A s \in 1 .. Len(c.slots) :
              /\ Len(c.slots[s].functions) \in Nat \ {0}
              /\ \A f \in 1 .. Len(c.slots[s].functions) : IsFunction(c.slots[s].functions[f])
    BY ComputerAssumption
  <1>2. \A s : Count(c, s) \in Nat \ {0}
    BY DiskScanAssumption DEF Count
  <1> QED BY <1>1, <1>2 DEF DrivePlaces

(* A function that is looked at and not absent is one of the device's.     *)
LEMMA OwnFunction ==
    ASSUME NEW c \in Computers, NEW s \in Nat, NEW f \in Nat, LookedAt(c, s, f),
           Fun(c, s, f) # Absent
    PROVE  /\ f + 1 \in 1 .. Len(c.slots[s].functions) /\ s \in 1 .. Len(c.slots)
           /\ Fun(c, s, f) = c.slots[s].functions[f + 1]
           /\ IsFunction(Fun(c, s, f))
PROOF
  <1>1. s \in 1 .. Len(c.slots) /\ f < Count(c, s)
    BY DEF LookedAt
  <1>2. Len(c.slots[s].functions) \in Nat \ {0}
    BY <1>1, Computer
  <1>3. f < Len(c.slots[s].functions)
    BY <1>1, <1>2 DEF Fun, Count
  <1>4. Fun(c, s, f) = c.slots[s].functions[f + 1]
    BY <1>3 DEF Fun
  <1>5. f + 1 \in 1 .. Len(c.slots[s].functions)
    BY <1>2, <1>3
  <1> QED BY <1>1, <1>4, <1>5, Computer

LEMMA FunctionsApart ==
    ASSUME NEW c \in Computers, NEW s \in Nat, NEW f \in Nat, NEW t \in Nat, NEW g \in Nat,
           LookedAt(c, s, f), Reachable(Fun(c, s, f)),
           LookedAt(c, t, g), Reachable(Fun(c, t, g)),
           Fun(c, s, f).base = Fun(c, t, g).base
    PROVE  s = t /\ f = g
PROOF
  <1>1. Fun(c, s, f) # Absent /\ Fun(c, t, g) # Absent
    BY DEF Reachable, Absent
  <1>2. /\ f + 1 \in 1 .. Len(c.slots[s].functions) /\ s \in 1 .. Len(c.slots)
        /\ Fun(c, s, f) = c.slots[s].functions[f + 1]
        /\ g + 1 \in 1 .. Len(c.slots[t].functions) /\ t \in 1 .. Len(c.slots)
        /\ Fun(c, t, g) = c.slots[t].functions[g + 1]
    BY <1>1, OwnFunction
  <1> DEFINE Own(u, i) == c.slots[u].functions[i]
  <1>3. \A u, v \in 1 .. Len(c.slots) :
           \A i \in 1 .. Len(c.slots[u].functions), j \in 1 .. Len(c.slots[v].functions) :
               Reachable(Own(u, i)) /\ Reachable(Own(v, j)) /\ Own(u, i).base = Own(v, j).base
                   => u = v /\ i = j
    BY ComputerAssumption
  <1> HIDE DEF Own
  <1>4. s = t /\ f + 1 = g + 1
    <2>1. Fun(c, s, f) = Own(s, f + 1) /\ Fun(c, t, g) = Own(t, g + 1)
      BY <1>2 DEF Own
    <2>2. Reachable(Own(s, f + 1)) /\ Reachable(Own(t, g + 1))
          /\ Own(s, f + 1).base = Own(t, g + 1).base
      BY <2>1
    <2> QED BY <1>2, <1>3, <2>2
  <1> QED BY <1>4

LEMMA PassedMore ==
    ASSUME NEW c, NEW place, NEW s \in Nat, NEW f \in Nat, NEW n \in Nat,
           NEW s1 \in Nat, NEW f1 \in Nat, NEW n1 \in Nat,
           s < s1 \/ (s = s1 /\ (f < f1 \/ (f = f1 /\ n <= n1))),
           Passed(c, place, s, f, n)
    PROVE  Passed(c, place, s1, f1, n1)
PROOF
  <1>1. PICK t \in Nat, g \in Nat :
            /\ LookedAt(c, t, g) /\ Reachable(Fun(c, t, g))
            /\ place[1] = Fun(c, t, g).base /\ place[2] \in 1 .. Len(Fun(c, t, g).ports)
            /\ t < s \/ (t = s /\ (g < f \/ (g = f /\ place[2] < n)))
    BY DEF Passed
  <1>2. place[2] \in Int
    BY <1>1
  <1>3. t < s1 \/ (t = s1 /\ (g < f1 \/ (g = f1 /\ place[2] < n1)))
    BY <1>1, <1>2
  <1> QED BY <1>1, <1>3 DEF Passed

(* The port in hand is not behind, and is once the loops go on.            *)
LEMMA PortInHand ==
    ASSUME NEW c \in Computers, NEW s \in Nat, NEW f \in Nat, NEW n \in Nat,
           LookedAt(c, s, f), Reachable(Fun(c, s, f)), n \in 1 .. Len(Fun(c, s, f).ports)
    PROVE  LET place == <<Fun(c, s, f).base, n>>
           IN  /\ ~Passed(c, place, s, f, n)
               /\ Passed(c, place, s, f, n + 1) /\ Passed(c, place, s, f + 1, 0)
PROOF
  <1> DEFINE place == <<Fun(c, s, f).base, n>>
  <1>1. place[1] = Fun(c, s, f).base /\ place[2] = n
    OBVIOUS
  <1> HIDE DEF place
  <1>2. ASSUME Passed(c, place, s, f, n) PROVE FALSE
    <2>1. PICK t \in Nat, g \in Nat :
            /\ LookedAt(c, t, g) /\ Reachable(Fun(c, t, g))
            /\ place[1] = Fun(c, t, g).base
            /\ t < s \/ (t = s /\ (g < f \/ (g = f /\ place[2] < n)))
      BY <1>2 DEF Passed
    <2>2. t = s /\ g = f
      BY <2>1, <1>1, FunctionsApart
    <2> QED BY <2>1, <2>2, <1>1
  <1>3. n < n + 1 /\ f < f + 1
    OBVIOUS
  <1>4. Passed(c, place, s, f, n + 1) /\ Passed(c, place, s, f + 1, 0)
    BY <1>1, <1>3 DEF Passed
  <1> QED BY <1>2, <1>4 DEF place

-----------------------------------------------------------------------------
(* What ata_sector_count returns fits 32 bits.                             *)
LEMMA SectorCounts ==
    ASSUME NEW drive, IsAnswer(drive), drive.is = "disk"
    PROVE  SectorCount(drive) \in {n \in Nat : n < Word}
PROOF
  <1>1. drive.sectors \in Nat
    BY DEF IsAnswer
  <1>2. ASSUME NEW m \in Nat, NEW n \in Nat
        PROVE  Min({m, n}) \in Nat /\ Min({m, n}) <= n
    <2>1. \E x \in {m, n} : \A y \in {m, n} : x <= y
      OBVIOUS
    <2>2. Min({m, n}) \in {m, n} /\ \A y \in {m, n} : Min({m, n}) <= y
      BY <2>1 DEF Min
    <2> QED BY <2>2
  <1>3. Lba28(drive) \in Nat /\ Lba28(drive) < Word
    BY <1>1, <1>2, DiskScanAssumption DEF Lba28
  <1>4. drive.sectors % Word \in Nat /\ drive.sectors % Word < Word
    BY <1>1, DiskScanAssumption
  <1> QED BY <1>3, <1>4, DiskScanAssumption DEF SectorCount

(* The table, with an entry more unless it is full.                        *)
LEMMA Registered ==
    ASSUME NEW E, NEW table \in Seq(E), NEW entry \in E, Len(table) <= MaxDisks,
           NEW longer, longer = IF Len(table) >= MaxDisks THEN table ELSE Append(table, entry)
    PROVE  /\ longer \in Seq(E) /\ Len(longer) <= MaxDisks /\ Len(longer) >= Len(table)
           /\ \A i \in 1 .. Len(longer) :
                 \/ i \in 1 .. Len(table) /\ longer[i] = table[i]
                 \/ i = Len(table) + 1 /\ i = Len(longer) /\ longer[i] = entry
PROOF
  <1>1. Len(table) \in Nat /\ MaxDisks \in Nat
    BY LenProperties, DiskScanAssumption
  <1>2. CASE Len(table) >= MaxDisks
    BY <1>1, <1>2
  <1>3. CASE ~(Len(table) >= MaxDisks)
    <2>1. /\ longer \in Seq(E) /\ Len(longer) = Len(table) + 1
          /\ longer[Len(table) + 1] = entry
          /\ \A i \in 1 .. Len(table) : longer[i] = table[i]
      BY <1>3, AppendProperties
    <2> QED BY <2>1, <1>1, <1>3
  <1> QED BY <1>2, <1>3

-----------------------------------------------------------------------------
LEMMA SameFunctions ==
    /\ Slot = computer.slots
    /\ \A s, f : FunctionOf(s, f) = Fun(computer, s, f)
    /\ \A s : FunctionCount(s) = Count(computer, s)
  BY DEF Slot, FunctionOf, Fun, FunctionCount, Count

(* The loops go on, and nothing is found.                                  *)
LEMMA LoopsGoOn ==
    ASSUME ScanTypes, PortsBehind, DisksApart, scan' \in {scan, "running"},
           computer' = computer, UNCHANGED <<disks, contexts, programmed>>,
           slot' \in Nat, function' \in Nat, port' \in Nat,
           slot < slot' \/ (slot = slot' /\ (function < function' \/
               (function = function' /\ port <= port')))
    PROVE  PortsBehind' /\ DisksApart'
PROOF
  <1>1. slot \in Nat /\ function \in Nat /\ port \in Nat
    BY DEF ScanTypes
  <1>2. \A place : Passed(computer, place, slot, function, port)
                       => Passed(computer, place, slot', function', port')
    BY <1>1, PassedMore
  <1>3. PortsBehind'
    BY <1>2 DEF PortsBehind
  <1>4. DisksApart'
    BY DEF DisksApart
  <1> QED BY <1>3, <1>4

(* A disk that is not in the table yet is appended to it.                  *)
LEMMA TableGrows ==
    ASSUME ScanTypes, DisksApart, computer' = computer, NEW entry \in Entry(computer),
           disks' = IF Len(disks) >= MaxDisks THEN disks ELSE Append(disks, entry),
           contexts' \in 0 .. MaxContexts, contexts' >= contexts, entry.context < contexts',
           selected' = 0,
           \A i \in 1 .. Len(disks) : disks[i].kind = entry.kind => disks[i].at # entry.at
    PROVE  /\ disks' \in Seq(Entry(computer)) /\ Len(disks') <= MaxDisks
           /\ \A i \in 1 .. Len(disks') : disks'[i].context < contexts'
           /\ selected' \in 0 .. Len(disks')
           /\ \A i, j \in 1 .. Len(disks') :
                 disks'[i].kind = disks'[j].kind /\ disks'[i].at = disks'[j].at => i = j
           /\ \A i \in 1 .. Len(disks') :
                 \/ i \in 1 .. Len(disks) /\ disks'[i] = disks[i]
                 \/ disks'[i] = entry
PROOF
  <1>1. /\ disks \in Seq(Entry(computer)) /\ Len(disks) <= MaxDisks
        /\ \A i \in 1 .. Len(disks) : disks[i].context < contexts
        /\ \A i, j \in 1 .. Len(disks) :
              disks[i].kind = disks[j].kind /\ disks[i].at = disks[j].at => i = j
        /\ contexts \in Nat /\ Len(disks) \in Nat
    BY LenProperties, DiskScanAssumption DEF ScanTypes, DisksApart
  <1> DEFINE longer == disks'
             E == Entry(computer)
  <1>2. longer = IF Len(disks) >= MaxDisks THEN disks ELSE Append(disks, entry)
    OBVIOUS
  <1>3. entry \in E /\ disks \in Seq(E)
    BY <1>1
  <1> HIDE DEF longer, E
  <1>4. /\ longer \in Seq(E) /\ Len(longer) <= MaxDisks /\ Len(longer) >= Len(disks)
        /\ \A i \in 1 .. Len(longer) :
              \/ i \in 1 .. Len(disks) /\ longer[i] = disks[i]
              \/ i = Len(disks) + 1 /\ i = Len(longer) /\ longer[i] = entry
    BY <1>1, <1>2, <1>3, Registered
  <1>5. \A i \in 1 .. Len(disks) : disks[i].context \in Int
    <2>1. \A i \in 1 .. Len(disks) : disks[i] \in Entry(computer)
      BY <1>1, LenProperties
    <2> QED BY <2>1 DEF Entry
  <1>6. Len(longer) \in Nat
    BY <1>4, LenProperties
  <1>7. \A i \in 1 .. Len(longer) : longer[i].context < contexts'
    <2> SUFFICES ASSUME NEW i \in 1 .. Len(longer) PROVE longer[i].context < contexts'
      OBVIOUS
    <2>1. CASE longer[i] = entry
      BY <2>1
    <2>2. CASE i \in 1 .. Len(disks) /\ longer[i] = disks[i]
      BY <2>2, <1>1, <1>5
    <2> QED BY <2>1, <2>2, <1>4
  <1>8. \A i, j \in 1 .. Len(longer) :
           longer[i].kind = longer[j].kind /\ longer[i].at = longer[j].at => i = j
    BY <1>1, <1>4
  <1>9. selected' \in 0 .. Len(longer)
    BY <1>6
  <1> QED BY <1>4, <1>7, <1>8, <1>9 DEF longer, E

-----------------------------------------------------------------------------
LEMMA ScanInvInit == ScanInit => ScanInv
PROOF
  <1> SUFFICES ASSUME ScanInit PROVE ScanInv
    OBVIOUS
  <1>1. /\ computer \in Computers /\ scan = "none" /\ slot = 1 /\ function = 0 /\ port = 0
        /\ drives = <<>> /\ found_ide = FALSE /\ disks = <<>> /\ contexts = 0
        /\ programmed = {} /\ selected = 0
    BY DEF ScanInit
  <1>2. /\ Len(disks) = 0 /\ Len(drives) = 0
        /\ disks \in Seq(Entry(computer)) /\ drives \in Seq(DrivePlaces)
    BY <1>1, EmptySeq
  <1>3. 0 \in 0 .. MaxContexts /\ 0 <= MaxDisks
    BY DiskScanAssumption
  <1>4. ScanTypes
    <2>1. (\A i : ~(i \in 1 .. Len(disks))) /\ 0 \in 0 .. Len(disks)
      BY <1>2
    <2>2. 1 \in Nat \ {0} /\ 0 \in Nat /\ FALSE \in BOOLEAN
      OBVIOUS
    <2> QED BY <1>1, <1>2, <1>3, <2>1, <2>2 DEF ScanTypes
  <1>5. InHand /\ PortsBehind
    BY <1>1, <1>2 DEF InHand, PortsBehind
  <1>6. DrivesAhead /\ DisksApart
    <2>1. \A i : ~(i \in 1 .. Len(disks)) /\ ~(i \in 1 .. Len(drives))
      BY <1>2
    <2> QED BY <1>1, <2>1 DEF DrivesAhead, DisksApart
  <1> QED BY <1>4, <1>5, <1>6 DEF ScanInv

LEMMA BeginScanInv == ScanInv /\ BeginScan => ScanInv'
PROOF
  <1> SUFFICES ASSUME ScanInv, BeginScan PROVE ScanInv'
    OBVIOUS
  <1>1. /\ computer \in Computers /\ computer' = computer /\ scan' = "running" /\ slot' = 1
        /\ function' = 0 /\ port' = 0 /\ drives' = <<>> /\ found_ide' = FALSE
        /\ disks' = <<>> /\ contexts' = 0 /\ programmed' = {} /\ selected' = 0
    BY DEF BeginScan, ScanInv, ScanTypes, PortsBehind
  <1>2. /\ Len(disks') = 0 /\ Len(drives') = 0
        /\ disks' \in Seq(Entry(computer)) /\ drives' \in Seq(DrivePlaces)
    BY <1>1, EmptySeq
  <1>3. 0 \in 0 .. MaxContexts /\ 0 <= MaxDisks
    BY DiskScanAssumption
  <1>4. ScanTypes'
    <2>1. (\A i : ~(i \in 1 .. Len(disks'))) /\ 0 \in 0 .. Len(disks')
      BY <1>2
    <2>2. 1 \in Nat \ {0} /\ 0 \in Nat /\ FALSE \in BOOLEAN
      OBVIOUS
    <2> QED BY <1>1, <1>2, <1>3, <2>1, <2>2 DEF ScanTypes
  <1>5. InHand' /\ PortsBehind'
    BY <1>1, <1>2 DEF InHand, PortsBehind
  <1>6. DrivesAhead' /\ DisksApart'
    <2>1. \A i : ~(i \in 1 .. Len(disks')) /\ ~(i \in 1 .. Len(drives'))
      BY <1>2
    <2> QED BY <1>1, <2>1 DEF DrivesAhead, DisksApart
  <1> QED BY <1>4, <1>5, <1>6 DEF ScanInv

LEMMA NextSlotInv == ScanInv /\ NextSlot => ScanInv'
PROOF
  <1> SUFFICES ASSUME ScanInv, NextSlot PROVE ScanInv'
    OBVIOUS
  <1>1. /\ port = 0 /\ drives = <<>> /\ slot <= Len(computer.slots)
        /\ slot' = slot + 1 /\ function' = 0
        /\ UNCHANGED <<port, drives, found_ide, disks, contexts, programmed, computer, scan,
                       selected>>
    BY SameFunctions DEF NextSlot, OnBus, Searching, NothingFound, Onward
  <1>2. /\ ScanTypes /\ InHand /\ PortsBehind /\ DrivesAhead /\ DisksApart
        /\ slot \in Nat \ {0} /\ computer \in Computers /\ port \in Nat
    BY DEF ScanInv, ScanTypes
  <1>3. Len(computer.slots) \in Nat
    BY <1>2, Computer
  <1>4. ScanTypes' /\ InHand'
    BY <1>1, <1>2 DEF ScanTypes, InHand
  <1>5. PortsBehind' /\ DisksApart'
    BY <1>1, <1>2, LoopsGoOn
  <1>6. DrivesAhead'
    BY <1>1, <1>2, <1>3 DEF DrivesAhead
  <1> QED BY <1>4, <1>5, <1>6 DEF ScanInv

(* The drives of two channels.                                             *)
LEMMA DrivesOf ==
    ASSUME NEW p, NEW q, p \in Channels => p # q
    PROVE  LET places == DrivesOn(p) \o DrivesOn(q)
           IN  /\ places \in Seq(DrivePlaces)
               /\ \A i, j \in 1 .. Len(places) : places[i] = places[j] => i = j
PROOF
  <1>1. ASSUME NEW c
        PROVE  /\ DrivesOn(c) \in Seq(DrivePlaces) /\ Len(DrivesOn(c)) \in Nat
               /\ \A i \in 1 .. Len(DrivesOn(c)) : c \in Channels /\ DrivesOn(c)[i] = <<c, i - 1>>
    <2>1. CASE c \in Channels
      <3> DEFINE both == <<<<c, 0>>, <<c, 1>>>>
      <3>1. <<c, 0>> \in DrivePlaces /\ <<c, 1>> \in DrivePlaces
        BY <2>1 DEF DrivePlaces
      <3>2. both \in Seq(DrivePlaces) /\ Len(both) = 2
        BY <3>1
      <3>3. both[1] = <<c, 0>> /\ both[2] = <<c, 1>>
        OBVIOUS
      <3> HIDE DEF both
      <3>4. \A i \in 1 .. 2 : both[i] = <<c, i - 1>>
        <4>1. \A i \in 1 .. 2 : (i = 1 /\ i - 1 = 0) \/ (i = 2 /\ i - 1 = 1)
          OBVIOUS
        <4> QED BY <4>1, <3>3
      <3>5. DrivesOn(c) = both
        BY <2>1 DEF DrivesOn, both
      <3>6. \A i \in 1 .. Len(both) : c \in Channels /\ both[i] = <<c, i - 1>>
        BY <2>1, <3>2, <3>4
      <3>7. Len(both) \in Nat
        BY <3>2
      <3> QED BY <3>2, <3>5, <3>6, <3>7
    <2>2. CASE c \notin Channels
      <3>1. DrivesOn(c) = <<>>
        BY <2>2 DEF DrivesOn
      <3>2. Len(<<>>) = 0 /\ <<>> \in Seq(DrivePlaces)
        BY EmptySeq
      <3> QED BY <3>1, <3>2
    <2> QED BY <2>1, <2>2
  <1> DEFINE s == DrivesOn(p)
             t == DrivesOn(q)
             places == s \o t
  <1>2. /\ s \in Seq(DrivePlaces) /\ t \in Seq(DrivePlaces) /\ Len(s) \in Nat /\ Len(t) \in Nat
        /\ \A i \in 1 .. Len(s) : p \in Channels /\ s[i] = <<p, i - 1>>
        /\ \A i \in 1 .. Len(t) : t[i] = <<q, i - 1>>
    BY <1>1
  <1> HIDE DEF s, t
  <1>3. /\ places \in Seq(DrivePlaces) /\ Len(places) = Len(s) + Len(t)
        /\ \A i \in 1 .. Len(s) + Len(t) :
              places[i] = IF i <= Len(s) THEN s[i] ELSE t[i - Len(s)]
    BY <1>2, ConcatProperties
  <1> HIDE DEF places
  <1>4. ASSUME NEW i \in 1 .. Len(places)
        PROVE  \/ i <= Len(s) /\ p # q /\ places[i] = <<p, i - 1>>
               \/ ~(i <= Len(s)) /\ places[i] = <<q, i - Len(s) - 1>>
    <2>1. CASE i <= Len(s)
      <3>1. i \in 1 .. Len(s)
        BY <2>1, <1>3
      <3> QED BY <3>1, <2>1, <1>2, <1>3
    <2>2. CASE ~(i <= Len(s))
      <3>1. i - Len(s) \in 1 .. Len(t)
        BY <2>2, <1>2, <1>3
      <3> QED BY <3>1, <2>2, <1>2, <1>3
    <2> QED BY <2>1, <2>2
  <1>5. ASSUME NEW i \in 1 .. Len(places), NEW j \in 1 .. Len(places), places[i] = places[j]
        PROVE  i = j
    <2>1. \A a1, a2, b1, b2 : <<a1, a2>> = <<b1, b2>> => a1 = b1 /\ a2 = b2
      OBVIOUS
    <2>2. i \in Int /\ j \in Int /\ Len(s) \in Nat
      BY <1>2, <1>3
    <2> QED BY <1>4, <1>5, <2>1, <2>2
  <1> QED BY <1>3, <1>5 DEF places, s, t

LEMMA ScanFunctionInv == ScanInv /\ ScanFunction => ScanInv'
PROOF
  <1> SUFFICES ASSUME ScanInv, ScanFunction PROVE ScanInv'
    OBVIOUS
  <1> DEFINE fun == Fun(computer, slot, function)
  <1>1. /\ scan = "running" /\ port = 0 /\ drives = <<>> /\ slot <= Len(computer.slots)
        /\ Fun(computer, slot, 0) # Absent /\ function < Count(computer, slot)
        /\ UNCHANGED <<disks, contexts, programmed, computer, scan, selected, slot>>
        /\ \/ /\ fun.is = "ide" /\ ~found_ide /\ found_ide' = TRUE
              /\ drives' = DrivesOn(Channel(fun, 1)) \o DrivesOn(Channel(fun, 2))
              /\ function' = function + 1 /\ port' = port
           \/ /\ Reachable(fun) /\ port' = 1
              /\ UNCHANGED <<function, drives, found_ide>>
           \/ function' = function + 1 /\ UNCHANGED <<port, drives, found_ide>>
    BY SameFunctions
       DEF ScanFunction, OnBus, Searching, Answered, Here, NextFunction, NothingFound, Onward
  <1>2. /\ ScanTypes /\ InHand /\ PortsBehind /\ DrivesAhead /\ DisksApart
        /\ slot \in Nat \ {0} /\ function \in Nat /\ port \in Nat /\ computer \in Computers
    BY DEF ScanInv, ScanTypes
  <1>3. Len(computer.slots) \in Nat
    BY <1>2, Computer
  <1>4. LookedAt(computer, slot, function)
    BY <1>1, <1>2, <1>3 DEF LookedAt
  <1> HIDE DEF fun
  <1>5. CASE /\ fun.is = "ide" /\ ~found_ide /\ found_ide' = TRUE
             /\ drives' = DrivesOn(Channel(fun, 1)) \o DrivesOn(Channel(fun, 2))
             /\ function' = function + 1 /\ port' = port
    <2>1. Channel(fun, 1) \in Channels => Channel(fun, 1) # Channel(fun, 2)
      <3>1. fun # Absent
        BY <1>5 DEF Absent
      <3>2. IsFunction(fun)
        BY <1>2, <1>4, <3>1, OwnFunction DEF fun
      <3> QED BY <1>5, <3>2 DEF IsFunction
    <2>2. /\ drives' \in Seq(DrivePlaces)
          /\ \A i, j \in 1 .. Len(drives') : drives'[i] = drives'[j] => i = j
      BY <1>5, <2>1, DrivesOf
    <2>3. \A i \in 1 .. Len(disks) : disks[i].kind # "ide"
      BY <1>1, <1>2, <1>3, <1>5 DEF DrivesAhead
    <2>4. ScanTypes' /\ InHand'
      BY <1>1, <1>2, <1>5, <2>2 DEF ScanTypes, InHand
    <2>5. PortsBehind' /\ DisksApart'
      BY <1>1, <1>2, <1>5, LoopsGoOn
    <2>6. DrivesAhead'
      BY <1>1, <1>5, <2>2, <2>3 DEF DrivesAhead
    <2> QED BY <2>4, <2>5, <2>6 DEF ScanInv
  <1>6. CASE Reachable(fun) /\ port' = 1 /\ UNCHANGED <<function, drives, found_ide>>
    <2>1. 1 \in 1 .. Len(fun.ports)
      <3>1. fun # Absent /\ fun.is = "ahci"
        BY <1>6 DEF Absent, Reachable
      <3>2. IsFunction(fun)
        BY <1>2, <1>4, <3>1, OwnFunction DEF fun
      <3>3. Len(fun.ports) \in Nat \ {0}
        BY <3>1, <3>2 DEF IsFunction
      <3> QED BY <3>3
    <2>2. ScanTypes'
      BY <1>1, <1>2, <1>6 DEF ScanTypes
    <2>3. InHand'
      BY <1>1, <1>4, <1>6, <2>1 DEF InHand, fun
    <2>4. PortsBehind' /\ DisksApart'
      BY <1>1, <1>2, <1>6, LoopsGoOn
    <2>5. DrivesAhead'
      BY <1>1, <1>2, <1>6 DEF DrivesAhead
    <2> QED BY <2>2, <2>3, <2>4, <2>5 DEF ScanInv
  <1>7. CASE function' = function + 1 /\ UNCHANGED <<port, drives, found_ide>>
    <2>1. ScanTypes' /\ InHand'
      BY <1>1, <1>2, <1>7 DEF ScanTypes, InHand
    <2>2. PortsBehind' /\ DisksApart'
      BY <1>1, <1>2, <1>7, LoopsGoOn
    <2>3. DrivesAhead'
      BY <1>1, <1>2, <1>7 DEF DrivesAhead
    <2> QED BY <2>1, <2>2, <2>3 DEF ScanInv
  <1> QED BY <1>1, <1>5, <1>6, <1>7

LEMMA ProbeDriveInv == ScanInv /\ ProbeDrive => ScanInv'
PROOF
  <1> SUFFICES ASSUME ScanInv, ProbeDrive PROVE ScanInv'
    OBVIOUS
  <1> DEFINE place == Head(drives)
             entry == [kind |-> "ide", at |-> place, context |-> -1,
                       sectors |-> SectorCount(computer.drives[place])]
  <1>1. /\ scan = "running" /\ drives # <<>> /\ drives' = Tail(drives)
        /\ UNCHANGED <<slot, function, port, found_ide, contexts, programmed, computer, scan,
                       selected>>
        /\ \/ /\ computer.drives[place].is = "disk"
              /\ disks' = IF Len(disks) >= MaxDisks THEN disks ELSE Append(disks, entry)
           \/ disks' = disks
    BY DEF ProbeDrive, Register, Onward
  <1>2. /\ ScanTypes /\ InHand /\ PortsBehind /\ DrivesAhead /\ DisksApart
        /\ computer \in Computers /\ drives \in Seq(DrivePlaces) /\ contexts \in 0 .. MaxContexts
        /\ selected = 0
        /\ slot \in Nat /\ function \in Nat /\ port \in Nat
    BY <1>1 DEF ScanInv, ScanTypes
  <1>3. port = 0
    BY <1>1, <1>2 DEF InHand
  <1>4. /\ place \in DrivePlaces /\ place = drives[1] /\ 1 \in 1 .. Len(drives)
        /\ drives' \in Seq(DrivePlaces) /\ Len(drives') = Len(drives) - 1
        /\ \A i \in 1 .. Len(drives') : i + 1 \in 1 .. Len(drives) /\ drives'[i] = drives[i + 1]
                                        /\ i \in Nat
    <2>1. /\ place \in DrivePlaces /\ Tail(drives) \in Seq(DrivePlaces)
          /\ place = drives[1] /\ Len(drives) \in Nat \ {0}
          /\ Len(Tail(drives)) = Len(drives) - 1
          /\ \A i \in 1 .. Len(Tail(drives)) : Tail(drives)[i] = drives[i + 1]
      BY <1>1, <1>2, HeadTailProperties, LenProperties, EmptySeq
    <2> QED BY <1>1, <2>1
  <1> HIDE DEF place
  <1>5. ASSUME NEW i \in 1 .. Len(drives') PROVE drives'[i] # place
    <2>1. i + 1 # 1 /\ i + 1 \in 1 .. Len(drives) /\ drives'[i] = drives[i + 1]
      BY <1>4
    <2> QED BY <2>1, <1>2, <1>4 DEF DrivesAhead
  <1>6. \A i, j \in 1 .. Len(drives') : drives'[i] = drives'[j] => i = j
    <2> SUFFICES ASSUME NEW i \in 1 .. Len(drives'), NEW j \in 1 .. Len(drives'),
                        drives'[i] = drives'[j]
                 PROVE  i = j
      OBVIOUS
    <2>1. i + 1 = j + 1 /\ i \in Nat /\ j \in Nat
      BY <1>2, <1>4 DEF DrivesAhead
    <2> QED BY <2>1
  <1>7. \A i \in 1 .. Len(disks), j \in 1 .. Len(drives') :
            disks[i].kind = "ide" => disks[i].at # drives'[j]
    BY <1>2, <1>4 DEF DrivesAhead
  <1>8. found_ide \/ ~(slot <= Len(computer.slots) + 1)
    BY <1>1, <1>2 DEF DrivesAhead
  <1>9. \A i \in 1 .. Len(disks) : disks[i].kind = "ide" => disks[i].at # place
    BY <1>2, <1>4 DEF DrivesAhead
  <1>10. InHand'
    BY <1>1, <1>3 DEF InHand
  <1>11. CASE disks' = disks
    <2>1. ScanTypes'
      BY <1>1, <1>2, <1>4, <1>11 DEF ScanTypes
    <2>2. PortsBehind' /\ DisksApart'
      BY <1>1, <1>2, <1>11 DEF PortsBehind, DisksApart
    <2>3. DrivesAhead'
      BY <1>1, <1>6, <1>7, <1>8, <1>11 DEF DrivesAhead
    <2> QED BY <1>10, <2>1, <2>2, <2>3 DEF ScanInv
  <1>12. CASE /\ computer.drives[place].is = "disk"
              /\ disks' = IF Len(disks) >= MaxDisks THEN disks ELSE Append(disks, entry)
    <2>1. SectorCount(computer.drives[place]) \in {n \in Nat : n < Word}
      BY <1>2, <1>4, <1>12, Computer, SectorCounts
    <2>2. /\ entry \in Entry(computer) /\ entry.kind = "ide" /\ entry.at = place
          /\ entry.context = -1
      BY <1>4, <2>1 DEF Entry
    <2>3. contexts' \in 0 .. MaxContexts /\ contexts' >= contexts /\ -1 < contexts'
      BY <1>1, <1>2, DiskScanAssumption
    <2> HIDE DEF entry
    <2>4. /\ disks' \in Seq(Entry(computer)) /\ Len(disks') <= MaxDisks
          /\ \A i \in 1 .. Len(disks') : disks'[i].context < contexts'
          /\ selected' \in 0 .. Len(disks')
          /\ \A i, j \in 1 .. Len(disks') :
                disks'[i].kind = disks'[j].kind /\ disks'[i].at = disks'[j].at => i = j
          /\ \A i \in 1 .. Len(disks') :
                \/ i \in 1 .. Len(disks) /\ disks'[i] = disks[i]
                \/ disks'[i] = entry
      BY <1>1, <1>2, <1>9, <1>12, <2>2, <2>3, TableGrows
    <2>5. ScanTypes'
      BY <1>1, <1>2, <1>4, <2>4 DEF ScanTypes
    <2>6. DisksApart'
      BY <1>1, <1>2, <2>4 DEF DisksApart
    <2>7. PortsBehind'
      BY <1>1, <1>2, <2>2, <2>4 DEF PortsBehind
    <2>8. DrivesAhead'
      <3>1. ASSUME NEW i \in 1 .. Len(disks'), NEW j \in 1 .. Len(drives'), disks'[i].kind = "ide"
            PROVE  disks'[i].at # drives'[j]
        <4>1. CASE i \in 1 .. Len(disks) /\ disks'[i] = disks[i]
          BY <1>7, <3>1, <4>1
        <4>2. CASE disks'[i] = entry
          BY <1>5, <2>2, <4>2
        <4> QED BY <2>4, <4>1, <4>2
      <3>2. found_ide' = found_ide /\ slot' = slot /\ computer' = computer
        BY <1>1
      <3> QED BY <1>6, <1>8, <3>1, <3>2 DEF DrivesAhead
    <2> QED BY <1>10, <2>5, <2>6, <2>7, <2>8 DEF ScanInv
  <1> QED BY <1>1, <1>11, <1>12

LEMMA ProbePortInv == ScanInv /\ ProbePort => ScanInv'
PROOF
  <1> SUFFICES ASSUME ScanInv, ProbePort PROVE ScanInv'
    OBVIOUS
  <1> DEFINE fun == Fun(computer, slot, function)
             answer == fun.ports[port]
             place == <<fun.base, port>>
             entry == [kind |-> "ahci", at |-> place, context |-> contexts,
                       sectors |-> SectorCount(answer)]
             Goes == \/ function' = function + 1 /\ port' = 0
                     \/ /\ port < Len(fun.ports) /\ function' = function
                        /\ port' = port + 1
  <1>1. /\ scan = "running" /\ port # 0 /\ slot' = slot /\ Goes
        /\ UNCHANGED <<drives, found_ide, computer, scan, selected>>
        /\ \/ UNCHANGED <<disks, contexts, programmed>>
           \/ /\ contexts < MaxContexts /\ contexts' = contexts + 1
              /\ \/ programmed' = programmed
                 \/ programmed' = programmed \cup {<<place, contexts>>}
              /\ \/ /\ answer.is = "disk"
                    /\ disks' = IF Len(disks) >= MaxDisks THEN disks ELSE Append(disks, entry)
                 \/ disks' = disks
    <2>1. Here = fun
      BY SameFunctions DEF Here
    <2> HIDE DEF fun
    <2>2. GiveUpPorts => slot' = slot /\ Goes
      BY DEF GiveUpPorts, NextFunction
    <2>3. NextPort => slot' = slot /\ Goes
      BY <2>1, <2>2 DEF NextPort
    <2>4. /\ scan = "running" /\ port # 0
          /\ UNCHANGED <<drives, found_ide, computer, scan, selected>>
      BY DEF ProbePort, Onward
    <2>5. CASE answer = PortEmpty /\ NextPort /\ NothingFound
      BY <2>3, <2>4, <2>5 DEF NothingFound
    <2>6. CASE GiveUpPorts /\ NothingFound
      BY <2>2, <2>4, <2>6 DEF NothingFound
    <2>7. CASE /\ contexts < MaxContexts /\ NextPort /\ contexts' = contexts + 1
               /\ programmed' = IF answer = PortStuck THEN programmed
                                ELSE programmed \cup {<<place, contexts>>}
               /\ IF answer.is = "disk" THEN Register("ahci", place, contexts, answer)
                  ELSE UNCHANGED disks
      BY <2>3, <2>4, <2>7 DEF Register
    <2> QED BY <2>1, <2>5, <2>6, <2>7 DEF ProbePort, PassEmptyPort
  <1>2. /\ ScanTypes /\ InHand /\ PortsBehind /\ DrivesAhead /\ DisksApart
        /\ computer \in Computers /\ contexts \in 0 .. MaxContexts /\ selected = 0
        /\ slot \in Nat /\ function \in Nat /\ port \in Nat
    BY <1>1 DEF ScanInv, ScanTypes
  <1>3. /\ drives = <<>> /\ LookedAt(computer, slot, function) /\ Reachable(fun)
        /\ port \in 1 .. Len(fun.ports)
    BY <1>1, <1>2 DEF InHand
  <1>4. IsAnswer(answer)
    <2>1. fun # Absent /\ fun.is = "ahci"
      BY <1>3 DEF Reachable, Absent
    <2>2. IsFunction(fun)
      BY <1>2, <1>3, <2>1, OwnFunction
    <2> QED BY <1>3, <2>1, <2>2 DEF IsFunction
  <1>5. /\ function' \in Nat /\ port' \in Nat
        /\ function < function' \/ (function = function' /\ port < port')
    BY <1>1, <1>2
  <1>6. /\ ~Passed(computer, place, slot, function, port)
        /\ Passed(computer, place, slot', function', port')
    <2>1. LET p == <<fun.base, port>>
          IN  /\ ~Passed(computer, p, slot, function, port)
              /\ Passed(computer, p, slot, function, port + 1)
              /\ Passed(computer, p, slot, function + 1, 0)
      BY <1>2, <1>3, PortInHand
    <2> HIDE DEF fun
    <2> QED BY <1>1, <2>1
  <1>7. InHand'
    <2>1. CASE port' = 0
      BY <2>1 DEF InHand
    <2>2. CASE /\ port < Len(fun.ports) /\ function' = function /\ port' = port + 1
      <3>1. port + 1 \in 1 .. Len(fun.ports)
        BY <1>3, <2>2
      <3> QED BY <3>1, <1>1, <1>3, <2>2 DEF InHand
    <2> QED BY <1>1, <2>1, <2>2
  <1>8. \A p : Passed(computer, p, slot, function, port)
                   => Passed(computer, p, slot', function', port')
    BY <1>1, <1>2, <1>5, PassedMore
  <1>9. PortPlaces(computer) = {<<Fun(computer, p[1], p[2]).base, p[3]>> : p \in Nat \X Nat \X Nat}
    BY DEF PortPlaces
  <1>10. place \in PortPlaces(computer)
    <2>1. <<slot, function, port>> \in Nat \X Nat \X Nat
      BY <1>2
    <2> DEFINE p == <<slot, function, port>>
    <2>2. p[1] = slot /\ p[2] = function /\ p[3] = port
      OBVIOUS
    <2>3. place = <<Fun(computer, p[1], p[2]).base, p[3]>> /\ p \in Nat \X Nat \X Nat
      BY <2>1, <2>2
    <2> HIDE DEF p, place, fun
    <2> QED BY <2>3, <1>9
  <1> HIDE DEF fun, answer, place, Goes
  <1>11. CASE UNCHANGED <<disks, contexts, programmed>>
    <2>1. ScanTypes'
      BY <1>1, <1>2, <1>5, <1>11 DEF ScanTypes
    <2>2. PortsBehind' /\ DisksApart'
      BY <1>1, <1>2, <1>5, <1>11, LoopsGoOn
    <2>3. DrivesAhead'
      BY <1>1, <1>2, <1>11 DEF DrivesAhead
    <2> QED BY <1>7, <2>1, <2>2, <2>3 DEF ScanInv
  <1>12. CASE /\ contexts < MaxContexts /\ contexts' = contexts + 1
              /\ \/ programmed' = programmed
                 \/ programmed' = programmed \cup {<<place, contexts>>}
              /\ \/ /\ answer.is = "disk"
                    /\ disks' = IF Len(disks) >= MaxDisks THEN disks ELSE Append(disks, entry)
                 \/ disks' = disks
    <2>1. /\ contexts' \in 0 .. MaxContexts /\ contexts' >= contexts /\ contexts < contexts'
          /\ contexts \in Int /\ contexts \in Nat
      BY <1>2, <1>12, DiskScanAssumption
    <2>2. /\ disks' \in Seq(Entry(computer)) /\ Len(disks') <= MaxDisks
          /\ \A i \in 1 .. Len(disks') : disks'[i].context < contexts'
          /\ selected' \in 0 .. Len(disks')
          /\ \A i, j \in 1 .. Len(disks') :
                disks'[i].kind = disks'[j].kind /\ disks'[i].at = disks'[j].at => i = j
          /\ \A i \in 1 .. Len(disks') :
                \/ i \in 1 .. Len(disks) /\ disks'[i] = disks[i]
                \/ disks'[i].kind = "ahci" /\ disks'[i].at = place
      <3>1. CASE disks' = disks
        <4>1. \A i \in 1 .. Len(disks) : disks[i].context \in Int
          <5>1. \A i \in 1 .. Len(disks) : disks[i] \in Entry(computer)
            BY <1>2, LenProperties DEF ScanTypes
          <5> QED BY <5>1 DEF Entry
        <4>2. \A i \in 1 .. Len(disks) : disks[i].context < contexts'
          BY <1>2, <2>1, <4>1 DEF ScanTypes
        <4> QED BY <1>1, <1>2, <3>1, <4>2 DEF ScanTypes, DisksApart
      <3>2. CASE /\ answer.is = "disk"
                 /\ disks' = IF Len(disks) >= MaxDisks THEN disks ELSE Append(disks, entry)
        <4>1. SectorCount(answer) \in {n \in Nat : n < Word}
          BY <1>4, <3>2, SectorCounts
        <4>2. /\ entry \in Entry(computer) /\ entry.kind = "ahci" /\ entry.at = place
              /\ entry.context = contexts
          BY <1>10, <2>1, <4>1 DEF Entry
        <4> HIDE DEF entry
        <4>3. \A i \in 1 .. Len(disks) : disks[i].kind = entry.kind => disks[i].at # entry.at
          BY <1>2, <1>6, <4>2 DEF PortsBehind
        <4>4. selected' = 0 /\ entry.context < contexts'
          BY <1>1, <1>2, <2>1, <4>2
        <4>5. /\ disks' \in Seq(Entry(computer)) /\ Len(disks') <= MaxDisks
              /\ \A i \in 1 .. Len(disks') : disks'[i].context < contexts'
              /\ selected' \in 0 .. Len(disks')
              /\ \A i, j \in 1 .. Len(disks') :
                    disks'[i].kind = disks'[j].kind /\ disks'[i].at = disks'[j].at => i = j
              /\ \A i \in 1 .. Len(disks') :
                    \/ i \in 1 .. Len(disks) /\ disks'[i] = disks[i]
                    \/ disks'[i] = entry
          BY <1>1, <1>2, <2>1, <3>2, <4>2, <4>3, <4>4, TableGrows
        <4> QED BY <4>2, <4>5
      <3> QED BY <1>12, <3>1, <3>2
    <2>3. ScanTypes'
      BY <1>1, <1>2, <1>5, <2>1, <2>2 DEF ScanTypes
    <2>4. ASSUME NEW p \in programmed'
          PROVE  \/ p \in programmed /\ p[2] \in Nat /\ p[2] < contexts /\ p[1] # place
                 \/ p[1] = place /\ p[2] = contexts
      <3>1. CASE p \in programmed
        BY <3>1, <1>2, <1>6 DEF PortsBehind
      <3>2. CASE p = <<place, contexts>>
        BY <3>2
      <3> QED BY <1>12, <3>1, <3>2
    <2>5. PortsBehind'
      <3>1. \A i \in 1 .. Len(disks') : disks'[i].kind = "ahci" =>
                Passed(computer, disks'[i].at, slot', function', port')
        BY <1>2, <1>6, <1>8, <2>2 DEF PortsBehind
      <3>2. ASSUME NEW p \in programmed'
            PROVE  /\ Passed(computer, p[1], slot', function', port')
                   /\ p[2] \in Nat /\ p[2] < contexts'
        <4>1. CASE p \in programmed /\ p[2] \in Nat /\ p[2] < contexts
          BY <4>1, <1>2, <1>8, <2>1 DEF PortsBehind
        <4>2. CASE p[1] = place /\ p[2] = contexts
          BY <4>2, <1>6, <2>1
        <4> QED BY <2>4, <4>1, <4>2
      <3> QED BY <1>1, <3>1, <3>2 DEF PortsBehind
    <2>6. DisksApart'
      <3>1. \A p, q \in programmed' : p[1] = q[1] <=> p[2] = q[2]
        <4> SUFFICES ASSUME NEW p \in programmed', NEW q \in programmed'
                     PROVE  p[1] = q[1] <=> p[2] = q[2]
          OBVIOUS
        <4>1. CASE p \in programmed /\ q \in programmed
          BY <4>1, <1>2 DEF DisksApart
        <4>2. contexts \in Nat
          BY <2>1
        <4>3. ~(p \in programmed) => p[1] = place /\ p[2] = contexts
          BY <2>4
        <4>4. ~(q \in programmed) => q[1] = place /\ q[2] = contexts
          BY <2>4
        <4>5. \A r \in programmed : r[1] # place /\ r[2] \in Nat /\ r[2] < contexts
          BY <1>2, <1>6 DEF PortsBehind
        <4>6. \A r \in programmed : r[1] # place /\ r[2] # contexts
          BY <4>2, <4>5
        <4> QED BY <4>1, <4>3, <4>4, <4>6
      <3> QED BY <2>2, <3>1 DEF DisksApart
    <2>7. DrivesAhead'
      <3>1. Len(drives') = 0
        BY <1>1, <1>3
      <3> QED BY <1>1, <1>2, <1>3, <2>2, <3>1 DEF DrivesAhead
    <2> QED BY <1>7, <2>3, <2>5, <2>6, <2>7 DEF ScanInv
  <1> QED BY <1>1, <1>11, <1>12

LEMMA ScanEndInv == ScanInv /\ ScanEnd => ScanInv'
PROOF
  <1> SUFFICES ASSUME ScanInv, ScanEnd PROVE ScanInv'
    OBVIOUS
  <1>1. /\ scan = "running" /\ port = 0 /\ drives = <<>> /\ slot = Len(computer.slots) + 1
        /\ slot' = slot + 1
        /\ drives' = IF found_ide THEN <<>> ELSE DrivesOn(Primary) \o DrivesOn(Secondary)
        /\ UNCHANGED <<function, port, found_ide, disks, contexts, programmed, computer, scan,
                       selected>>
    BY SameFunctions DEF ScanEnd, Searching, NothingFound, Onward
  <1>2. /\ ScanTypes /\ InHand /\ PortsBehind /\ DrivesAhead /\ DisksApart
        /\ slot \in Nat \ {0} /\ function \in Nat /\ port \in Nat /\ computer \in Computers
    BY DEF ScanInv, ScanTypes
  <1>3. Len(computer.slots) \in Nat
    BY <1>2, Computer
  <1>4. PortsBehind' /\ DisksApart'
    BY <1>1, <1>2, LoopsGoOn
  <1>5. InHand'
    BY <1>1 DEF InHand
  <1>6. ~(slot' <= Len(computer.slots) + 1)
    BY <1>1, <1>3
  <1>7. CASE found_ide
    <2>1. ScanTypes'
      BY <1>1, <1>2, <1>7 DEF ScanTypes
    <2>2. DrivesAhead'
      BY <1>1, <1>2, <1>7 DEF DrivesAhead
    <2> QED BY <1>4, <1>5, <2>1, <2>2 DEF ScanInv
  <1>8. CASE ~found_ide
    <2>1. /\ drives' \in Seq(DrivePlaces)
          /\ \A i, j \in 1 .. Len(drives') : drives'[i] = drives'[j] => i = j
      BY <1>1, <1>8, DrivesOf, DiskScanAssumption
    <2>2. ScanTypes'
      BY <1>1, <1>2, <2>1 DEF ScanTypes
    <2>3. \A i \in 1 .. Len(disks) : disks[i].kind # "ide"
      BY <1>1, <1>2, <1>3, <1>8 DEF DrivesAhead
    <2>4. DrivesAhead'
      BY <1>1, <1>6, <2>1, <2>3 DEF DrivesAhead
    <2> QED BY <1>4, <1>5, <2>2, <2>4 DEF ScanInv
  <1> QED BY <1>7, <1>8

LEMMA ScanDoneInv == ScanInv /\ ScanDone => ScanInv'
PROOF
  <1> SUFFICES ASSUME ScanInv, ScanDone PROVE ScanInv'
    OBVIOUS
  <1>1. /\ scan = "running" /\ port = 0 /\ drives = <<>> /\ scan' = "done"
        /\ selected' = IF disks = <<>> THEN 0 ELSE 1
        /\ UNCHANGED <<computer, slot, function, port, drives, found_ide, disks, contexts,
                       programmed>>
    BY DEF ScanDone, Searching, position
  <1>2. /\ ScanTypes /\ InHand /\ PortsBehind /\ DrivesAhead /\ DisksApart
        /\ disks \in Seq(Entry(computer))
    BY DEF ScanInv, ScanTypes
  <1>3. selected' \in 0 .. Len(disks)
    <2>1. Len(disks) \in Nat /\ (disks # <<>> => Len(disks) # 0)
      BY <1>2, LenProperties, EmptySeq
    <2> QED BY <1>1, <2>1
  <1>4. ScanTypes'
    BY <1>1, <1>2, <1>3 DEF ScanTypes
  <1>5. InHand' /\ PortsBehind'
    BY <1>1, <1>2 DEF InHand, PortsBehind
  <1>6. DrivesAhead' /\ DisksApart'
    BY <1>1, <1>2 DEF DrivesAhead, DisksApart
  <1> QED BY <1>4, <1>5, <1>6 DEF ScanInv

LEMMA ScanInvNext == ScanInv /\ [ScanNext]_scanVars => ScanInv'
PROOF
  <1>1. ASSUME ScanInv, UNCHANGED scanVars PROVE ScanInv'
    BY <1>1 DEF scanVars, position, ScanInv, ScanTypes, InHand, PortsBehind, DrivesAhead,
                DisksApart
  <1> QED BY <1>1, BeginScanInv, NextSlotInv, ScanFunctionInv, ProbeDriveInv, ProbePortInv,
             ScanEndInv, ScanDoneInv DEF ScanNext

-----------------------------------------------------------------------------
(* Every disk is found.  A function that is looked at is one of the units.  *)
LEMMA UnitsLooked ==
    ASSUME NEW c \in Computers, NEW p \in Units(c)
    PROVE  /\ p[1] \in Nat /\ p[2] \in Nat /\ p[1] \in 1 .. Len(c.slots)
           /\ p[2] < Count(c, p[1]) /\ LookedAt(c, p[1], p[2])
PROOF
  <1>1. /\ p[1] \in 1 .. Len(c.slots) /\ p[2] \in 0 .. NumFunctions - 1
        /\ p[2] > 0 => c.slots[p[1]].multi
        /\ c.slots[p[1]].functions[1] # Absent
    BY DEF Units
  <1>2. p[1] \in Nat /\ p[2] \in Nat /\ NumFunctions \in Nat \ {0}
    BY <1>1, Computer, DiskScanAssumption
  <1>3. p[2] < Count(c, p[1])
    BY <1>1, <1>2 DEF Count
  <1>4. Fun(c, p[1], 0) = c.slots[p[1]].functions[1]
    <2>1. Len(c.slots[p[1]].functions) \in Nat \ {0}
      BY <1>1, Computer
    <2>2. 0 < Len(c.slots[p[1]].functions) /\ 0 + 1 = 1
      BY <2>1
    <2> QED BY <2>2 DEF Fun
  <1> QED BY <1>1, <1>2, <1>3, <1>4 DEF LookedAt

LEMMA LookedUnits ==
    ASSUME NEW c \in Computers, NEW s \in Nat, NEW f \in Nat, LookedAt(c, s, f),
           Fun(c, s, f) # Absent
    PROVE  <<s, f>> \in Units(c) /\ Unit(c, <<s, f>>) = Fun(c, s, f)
PROOF
  <1> DEFINE p == <<s, f>>
  <1>1. p[1] = s /\ p[2] = f
    OBVIOUS
  <1>2. /\ f + 1 \in 1 .. Len(c.slots[s].functions) /\ s \in 1 .. Len(c.slots)
        /\ f < Count(c, s) /\ Fun(c, s, 0) # Absent
    BY OwnFunction DEF LookedAt
  <1>3. Len(c.slots[s].functions) \in Nat \ {0} /\ NumFunctions \in Nat \ {0}
    BY <1>2, Computer, DiskScanAssumption
  <1>4. f < Len(c.slots[s].functions) /\ f \in 0 .. NumFunctions - 1
        /\ (f > 0 => c.slots[s].multi)
    BY <1>2, <1>3 DEF Count
  <1>5. Fun(c, s, 0) = c.slots[s].functions[1]
    <2>1. 0 < Len(c.slots[s].functions) /\ 0 + 1 = 1
      BY <1>3
    <2> QED BY <2>1 DEF Fun
  <1>6. p \in (1 .. Len(c.slots)) \X (0 .. NumFunctions - 1)
    BY <1>2, <1>4
  <1> HIDE DEF p
  <1>7. p \in Units(c)
    BY <1>1, <1>2, <1>4, <1>5, <1>6 DEF Units
  <1>8. Unit(c, p) = Fun(c, s, f)
    BY <1>1 DEF Unit
  <1> QED BY <1>7, <1>8 DEF p

(* The definitions of the property, in the words of these proofs.           *)
LEMMA SameUnits ==
    /\ Functions = Units(computer) /\ Ides = IdeUnits(computer)
    /\ IdeChannels = ChannelsOf(computer)
PROOF
  <1>1. Functions = Units(computer)
    BY DEF Functions, Units, Slot
  <1>2. Ides = IdeUnits(computer)
    BY <1>1 DEF Ides, IdeUnits, Unit, FunctionOf, Fun, Slot
  <1>3. IdeChannels = ChannelsOf(computer)
    BY <1>2 DEF IdeChannels, ChannelsOf, Unit, FunctionOf, Fun, Slot
  <1> QED BY <1>1, <1>2, <1>3

(* Quotient and remainder tell the numbers below the divisor.               *)
LEMMA Division ==
    ASSUME NEW n \in Nat, NEW w \in Nat, 0 < w
    PROVE  /\ n \div w # 0 => w <= n
           /\ n \div w = 0 => n < w /\ n % w = n
PROOF
  <1>1. /\ n = w * (n \div w) + (n % w)
        /\ n \div w \in Int /\ n % w \in Int /\ 0 <= n % w /\ n % w < w
    BY Z3
  <1> DEFINE q == n \div w
             r == n % w
  <1> HIDE DEF q, r
  <1>2. n = w * q + r /\ q \in Int /\ r \in Int /\ 0 <= r /\ r < w
    BY <1>1 DEF q, r
  <1>3. q = 0 => n < w /\ r = n
    BY <1>2
  <1>4. q # 0 => w <= n
    <2>1. CASE q < 0
      <3>1. w * q <= 0 - w
        BY <1>2, <2>1
      <3> QED BY <1>2, <2>1, <3>1
    <2>2. CASE q > 0
      <3>1. w * q >= w
        BY <1>2, <2>2
      <3> QED BY <1>2, <2>2, <3>1
    <2> QED BY <1>2, <2>1, <2>2
  <1> QED BY <1>3, <1>4 DEF q, r

(* The size in the table is the drive's, as far as 32 bits can say it.      *)
LEMMA SectorCountExact ==
    ASSUME NEW drive, IsAnswer(drive), drive.is = "disk"
    PROVE  SectorCount(drive) = Min({drive.sectors, Word - 1})
PROOF
  <1>1. /\ drive.sectors \in Nat /\ drive.ext \in BOOLEAN
        /\ ~drive.ext => drive.sectors <= Lba28Max
    BY DEF IsAnswer
  <1>2. Word \in Nat /\ Lba28Max \in Nat \ {0} /\ Lba28Max < Word /\ 0 < Word
    BY DiskScanAssumption
  <1>3. ASSUME NEW m \in Int, NEW n \in Int
        PROVE  Min({m, n}) = IF m <= n THEN m ELSE n
    <2>1. \E x \in {m, n} : \A y \in {m, n} : x <= y
      OBVIOUS
    <2>2. Min({m, n}) \in {m, n} /\ \A y \in {m, n} : Min({m, n}) <= y
      BY <2>1 DEF Min
    <2> QED BY <2>2
  <1>4. /\ drive.sectors \div Word # 0 => Word <= drive.sectors
        /\ drive.sectors \div Word = 0 =>
              drive.sectors < Word /\ drive.sectors % Word = drive.sectors
    BY <1>1, <1>2, Division
  <1>5. /\ Min({drive.sectors, Word - 1}) =
              IF drive.sectors <= Word - 1 THEN drive.sectors ELSE Word - 1
        /\ Lba28(drive) = IF drive.sectors <= Lba28Max THEN drive.sectors ELSE Lba28Max
    BY <1>1, <1>2, <1>3 DEF Lba28
  <1>6. CASE drive.ext /\ drive.sectors \div Word # 0
    BY <1>1, <1>2, <1>4, <1>5, <1>6 DEF SectorCount
  <1>7. CASE drive.ext /\ drive.sectors \div Word = 0
    BY <1>1, <1>2, <1>4, <1>5, <1>7 DEF SectorCount
  <1>8. CASE ~drive.ext
    BY <1>1, <1>2, <1>5, <1>8 DEF SectorCount
  <1> QED BY <1>1, <1>6, <1>7, <1>8

(* What is settled stays so, and the entry that is added is settled.        *)
LEMMA TableKeeps ==
    ASSUME NEW E, NEW table \in Seq(E), NEW entry \in E, Len(table) <= MaxDisks,
           NEW longer, longer = IF Len(table) >= MaxDisks THEN table ELSE Append(table, entry)
    PROVE  /\ \A kind, place, drive :
                 Settled(table, kind, place, drive) => Settled(longer, kind, place, drive)
           /\ \A kind, place, drive :
                 /\ entry.kind = kind /\ entry.at = place
                 /\ entry.sectors = Min({drive.sectors, Word - 1})
                 => Settled(longer, kind, place, drive)
PROOF
  <1>1. Len(table) \in Nat /\ MaxDisks \in Nat
    BY LenProperties, DiskScanAssumption
  <1>2. CASE Len(table) >= MaxDisks
    BY <1>1, <1>2 DEF Settled
  <1>3. CASE ~(Len(table) >= MaxDisks)
    <2>1. /\ Len(longer) = Len(table) + 1 /\ longer[Len(table) + 1] = entry
          /\ \A i \in 1 .. Len(table) : longer[i] = table[i]
      BY <1>3, AppendProperties
    <2>2. /\ \A i \in 1 .. Len(table) : i \in 1 .. Len(longer) /\ longer[i] = table[i]
          /\ Len(table) + 1 \in 1 .. Len(longer) /\ Len(table) # MaxDisks
      BY <1>1, <1>3, <2>1
    <2>3. \A kind, place, drive :
              Settled(table, kind, place, drive) => Settled(longer, kind, place, drive)
      BY <2>2 DEF Settled, InTable
    <2>4. \A kind, place, drive :
              /\ entry.kind = kind /\ entry.at = place
              /\ entry.sectors = Min({drive.sectors, Word - 1})
              => Settled(longer, kind, place, drive)
      BY <2>1, <2>2 DEF Settled, InTable
    <2> QED BY <2>3, <2>4
  <1> QED BY <1>2, <1>3

-----------------------------------------------------------------------------
LEMMA FoundSame ==
    ASSUME FoundInv, AtEnds',
           UNCHANGED <<computer, slot, function, port, drives, found_ide, disks, contexts>>
    PROVE  FoundInv'
  BY DEF FoundInv, PortsSettled, DrivesSettled, Genuine

(* The loops go on past functions and ports that are settled.               *)
LEMMA PortsGoOn ==
    ASSUME PortsSettled, UNCHANGED <<computer, disks, contexts>>,
           \A p \in Units(computer) : Reachable(Unit(computer, p)) =>
               \A n \in 1 .. Len(Unit(computer, p).ports) :
                   Behind(p, n, slot', function', port') =>
                       \/ Behind(p, n, slot, function, port)
                       \/ contexts = MaxContexts
                       \/ Settled(disks, "ahci", <<Unit(computer, p).base, n>>,
                                  Unit(computer, p).ports[n])
    PROVE  PortsSettled'
  BY DEF PortsSettled

LEMMA DrivesGoOn ==
    ASSUME DrivesSettled, UNCHANGED <<computer, disks, drives, found_ide>>,
           slot' > Len(computer.slots) + 1 => slot > Len(computer.slots) + 1,
           ~found_ide => \A p \in IdeUnits(computer) : ~Behind(p, 0, slot', function', 0)
    PROVE  DrivesSettled'
  BY DEF DrivesSettled

LEMMA NextFunctionBehind ==
    ASSUME NEW c \in Computers, NEW p \in Units(c), NEW n \in Nat, NEW s \in Nat, NEW f \in Nat,
           Behind(p, n, s, f + 1, 0)
    PROVE  Behind(p, n, s, f, 0) \/ (p[1] = s /\ p[2] = f /\ Unit(c, p) = Fun(c, s, f))
PROOF
  <1>1. p[1] \in Nat /\ p[2] \in Nat
    BY UnitsLooked
  <1>2. Behind(p, n, s, f, 0) \/ (p[1] = s /\ p[2] = f)
    BY <1>1 DEF Behind
  <1> QED BY <1>2 DEF Unit

LEMMA FoundInit == ScanInit => FoundInv
PROOF
  <1> SUFFICES ASSUME ScanInit PROVE FoundInv
    OBVIOUS
  <1>1. /\ computer \in Computers /\ scan = "none" /\ slot = 1 /\ function = 0 /\ port = 0
        /\ drives = <<>> /\ found_ide = FALSE /\ disks = <<>> /\ contexts = 0
    BY DEF ScanInit
  <1>2. /\ \A i : ~(i \in 1 .. Len(disks)) /\ ~(i \in 1 .. Len(drives))
        /\ ~(slot > Len(computer.slots) + 1)
    <2>1. Len(disks) = 0 /\ Len(drives) = 0 /\ Len(computer.slots) \in Nat
      BY <1>1, EmptySeq, Computer
    <2> QED BY <1>1, <2>1
  <1>3. ASSUME NEW p \in Units(computer), NEW n \in Nat
        PROVE  ~Behind(p, n, slot, function, port)
    <2>1. p[1] \in Nat \ {0} /\ p[2] \in Nat
      BY <1>1, UnitsLooked
    <2> QED BY <1>1, <2>1 DEF Behind
  <1>4. PortsSettled
    BY <1>3 DEF PortsSettled
  <1>5. DrivesSettled
    BY <1>1, <1>2, <1>3 DEF DrivesSettled, IdeUnits
  <1>6. Genuine /\ AtEnds
    BY <1>1, <1>2 DEF Genuine, AtEnds
  <1> QED BY <1>4, <1>5, <1>6 DEF FoundInv

LEMMA FoundBegin == ScanInv /\ FoundInv /\ BeginScan => FoundInv'
PROOF
  <1> SUFFICES ASSUME FoundInv, BeginScan PROVE FoundInv'
    OBVIOUS
  <1>1. /\ UNCHANGED <<computer, slot, function, port, drives, found_ide, disks, contexts>>
        /\ scan' = "running"
    BY DEF BeginScan, FoundInv, AtEnds
  <1>2. AtEnds'
    BY <1>1 DEF AtEnds
  <1> QED BY <1>1, <1>2, FoundSame

LEMMA FoundNextSlot == ScanInv /\ FoundInv /\ NextSlot => FoundInv'
PROOF
  <1> SUFFICES ASSUME ScanInv, FoundInv, NextSlot PROVE FoundInv'
    OBVIOUS
  <1>1. /\ scan = "running" /\ port = 0 /\ slot <= Len(computer.slots)
        /\ slot' = slot + 1 /\ function' = 0
        /\ Fun(computer, slot, 0) = Absent \/ function >= Count(computer, slot)
        /\ UNCHANGED <<port, drives, found_ide, disks, contexts, computer, scan>>
    BY SameFunctions DEF NextSlot, OnBus, Searching, Answered, NothingFound, Onward
  <1>2. /\ slot \in Nat /\ function \in Nat /\ computer \in Computers
        /\ PortsSettled /\ DrivesSettled /\ Genuine
    BY DEF ScanInv, ScanTypes, FoundInv
  <1>3. ASSUME NEW p \in Units(computer), NEW n \in Nat, Behind(p, n, slot', function', 0)
        PROVE  Behind(p, n, slot, function, 0)
    <2>1. /\ p[1] \in Nat /\ p[2] \in Nat /\ p[2] < Count(computer, p[1])
          /\ Fun(computer, p[1], 0) # Absent /\ Count(computer, p[1]) \in Nat
      BY <1>2, UnitsLooked, Computer DEF LookedAt
    <2>2. p[1] < slot \/ p[1] = slot
      BY <1>1, <1>2, <1>3, <2>1 DEF Behind
    <2> QED BY <1>1, <1>2, <2>1, <2>2 DEF Behind
  <1>4. PortsSettled'
    <2>1. \A p \in Units(computer) : \A n \in Nat :
              Behind(p, n, slot', function', port') => Behind(p, n, slot, function, port)
      BY <1>1, <1>3
    <2>2. \A x, n : n \in 1 .. Len(x) => n \in Nat
      OBVIOUS
    <2> QED BY <1>1, <1>2, <2>1, <2>2, PortsGoOn
  <1>5. DrivesSettled'
    <2>1. ~found_ide => \A p \in IdeUnits(computer) : ~Behind(p, 0, slot', function', 0)
      BY <1>2, <1>3 DEF DrivesSettled, IdeUnits
    <2>2. ~(slot' > Len(computer.slots) + 1)
      BY <1>1, <1>2, Computer
    <2> QED BY <1>1, <1>2, <2>1, <2>2, DrivesGoOn
  <1>6. Genuine' /\ AtEnds'
    BY <1>1, <1>2 DEF Genuine, AtEnds
  <1> QED BY <1>4, <1>5, <1>6 DEF FoundInv

(* The drives of two channels are all the drives of those that there are.   *)
LEMMA DrivesAll ==
    ASSUME NEW a, NEW b
    PROVE  LET places == DrivesOn(a) \o DrivesOn(b)
           IN  /\ \A place \in ({a, b} \cap Channels) \X {0, 1} :
                     \E j \in 1 .. Len(places) : places[j] = place
               /\ \A j \in 1 .. Len(places) :
                     places[j] \in ({a, b} \cap Channels) \X {0, 1}
PROOF
  <1> DEFINE Both(c) == <<<<c, 0>>, <<c, 1>>>>
  <1>1. \A c : IF c \in Channels THEN DrivesOn(c) = Both(c) ELSE DrivesOn(c) = <<>>
    BY DEF DrivesOn
  <1>3. CASE a \in Channels /\ b \in Channels
    <2> DEFINE s == Both(a)
               t == Both(b)
               four == s \o t
    <2>1. s \in Seq(Channels \X {0, 1}) /\ t \in Seq(Channels \X {0, 1})
      BY <1>3
    <2>2. Len(s) = 2 /\ s[1] = <<a, 0>> /\ s[2] = <<a, 1>>
      OBVIOUS
    <2>3. Len(t) = 2 /\ t[1] = <<b, 0>> /\ t[2] = <<b, 1>>
      OBVIOUS
    <2>4. DrivesOn(a) = s /\ DrivesOn(b) = t
      BY <1>1, <1>3
    <2> HIDE DEF s, t
    <2>5. /\ Len(four) = 4 /\ four[1] = <<a, 0>> /\ four[2] = <<a, 1>>
          /\ four[3] = <<b, 0>> /\ four[4] = <<b, 1>>
      <3>1. /\ Len(four) = Len(s) + Len(t)
            /\ \A i \in 1 .. Len(s) + Len(t) :
                  four[i] = IF i <= Len(s) THEN s[i] ELSE t[i - Len(s)]
        BY <2>1, ConcatProperties
      <3>2. Len(four) = 4 /\ \A i \in 1 .. 4 : four[i] = IF i <= 2 THEN s[i] ELSE t[i - 2]
        BY <2>2, <2>3, <3>1
      <3> HIDE DEF four
      <3>3. four[1] = s[1] /\ four[2] = s[2]
        BY <3>2
      <3>4. four[3] = t[1] /\ four[4] = t[2]
        BY <3>2
      <3> QED BY <2>2, <2>3, <3>2, <3>3, <3>4
    <2>6. DrivesOn(a) \o DrivesOn(b) = four
      BY <2>4
    <2> HIDE DEF four
    <2>7. \A place : place \in ({a, b} \cap Channels) \X {0, 1}
              <=> place \in {<<a, 0>>, <<a, 1>>, <<b, 0>>, <<b, 1>>}
      BY <1>3
    <2>8. \A j : j \in 1 .. Len(four) <=> j \in {1, 2, 3, 4}
      BY <2>5
    <2>9. \A place \in ({a, b} \cap Channels) \X {0, 1} :
              \E j \in 1 .. Len(four) : four[j] = place
      BY <2>5, <2>7, <2>8
    <2>10. \A j \in 1 .. Len(four) : four[j] \in ({a, b} \cap Channels) \X {0, 1}
      BY <2>5, <2>7, <2>8
    <2> QED BY <2>6, <2>9, <2>10
  <1>4. CASE a \in Channels /\ b \notin Channels
    <2> DEFINE two == Both(a)
    <2>1. two \in Seq(Channels \X {0, 1}) /\ <<>> \in Seq(Channels \X {0, 1})
      BY <1>4
    <2>2. DrivesOn(a) \o DrivesOn(b) = two
      <3>1. DrivesOn(a) = two /\ DrivesOn(b) = <<>>
        BY <1>1, <1>4
      <3> HIDE DEF two
      <3> QED BY <2>1, <3>1, ConcatEmptySeq
    <2>3. Len(two) = 2 /\ two[1] = <<a, 0>> /\ two[2] = <<a, 1>>
      OBVIOUS
    <2> HIDE DEF two
    <2>4. \A place : place \in ({a, b} \cap Channels) \X {0, 1}
              <=> place \in {<<a, 0>>, <<a, 1>>}
      BY <1>4
    <2>5. \A j : j \in 1 .. Len(two) <=> j \in {1, 2}
      BY <2>3
    <2> QED BY <2>2, <2>3, <2>4, <2>5
  <1>5. CASE a \notin Channels /\ b \in Channels
    <2> DEFINE two == Both(b)
    <2>1. two \in Seq(Channels \X {0, 1}) /\ <<>> \in Seq(Channels \X {0, 1})
      BY <1>5
    <2>2. DrivesOn(a) \o DrivesOn(b) = two
      <3>1. DrivesOn(b) = two /\ DrivesOn(a) = <<>>
        BY <1>1, <1>5
      <3> HIDE DEF two
      <3> QED BY <2>1, <3>1, ConcatEmptySeq
    <2>3. Len(two) = 2 /\ two[1] = <<b, 0>> /\ two[2] = <<b, 1>>
      OBVIOUS
    <2> HIDE DEF two
    <2>4. \A place : place \in ({a, b} \cap Channels) \X {0, 1}
              <=> place \in {<<b, 0>>, <<b, 1>>}
      BY <1>5
    <2>5. \A j : j \in 1 .. Len(two) <=> j \in {1, 2}
      BY <2>3
    <2> QED BY <2>2, <2>3, <2>4, <2>5
  <1>6. CASE a \notin Channels /\ b \notin Channels
    <2>1. DrivesOn(a) \o DrivesOn(b) = <<>>
      BY <1>1, <1>6
    <2>2. \A place : place \notin ({a, b} \cap Channels) \X {0, 1}
      BY <1>6
    <2>3. \A j : j \notin 1 .. Len(<<>>)
      OBVIOUS
    <2> QED BY <2>1, <2>2, <2>3
  <1> QED BY <1>3, <1>4, <1>5, <1>6

(* The first IDE controller decides which channels are probed.              *)
LEMMA FirstController ==
    ASSUME NEW c \in Computers, NEW p \in IdeUnits(c),
           \A q \in IdeUnits(c) : ~Behind(q, 0, p[1], p[2], 0)
    PROVE  ChannelsOf(c) = {Channel(Unit(c, p), 1), Channel(Unit(c, p), 2)} \cap Channels
PROOF
  <1>1. \A q \in IdeUnits(c) :
            /\ q[1] \in Nat /\ q[2] \in Nat
            /\ \E x, y : q = <<x, y>>
    BY UnitsLooked DEF IdeUnits, Units
  <1>2. \A q \in IdeUnits(c) : Before(p, q)
    BY <1>1 DEF Behind, Before
  <1> DEFINE first == CHOOSE x \in IdeUnits(c) : \A q \in IdeUnits(c) : Before(x, q)
  <1>3. first \in IdeUnits(c) /\ \A q \in IdeUnits(c) : Before(first, q)
    BY <1>2
  <1> HIDE DEF first
  <1>4. first[1] = p[1] /\ first[2] = p[2]
    BY <1>1, <1>2, <1>3 DEF Before
  <1>5. Unit(c, first) = Unit(c, p)
    BY <1>4 DEF Unit
  <1>6. ChannelsOf(c) = {Channel(Unit(c, first), i) : i \in {1, 2}} \cap Channels
    BY DEF ChannelsOf, first
  <1> QED BY <1>5, <1>6

LEMMA FoundFunction == ScanInv /\ FoundInv /\ ScanFunction => FoundInv'
PROOF
  <1> SUFFICES ASSUME ScanInv, FoundInv, ScanFunction PROVE FoundInv'
    OBVIOUS
  <1> DEFINE fun == Fun(computer, slot, function)
             me == <<slot, function>>
  <1>1. /\ scan = "running" /\ port = 0 /\ drives = <<>> /\ slot <= Len(computer.slots)
        /\ Fun(computer, slot, 0) # Absent /\ function < Count(computer, slot)
        /\ UNCHANGED <<disks, contexts, computer, scan, slot>>
        /\ \/ /\ fun.is = "ide" /\ ~found_ide /\ found_ide' = TRUE
              /\ drives' = DrivesOn(Channel(fun, 1)) \o DrivesOn(Channel(fun, 2))
              /\ function' = function + 1 /\ port' = port
           \/ Reachable(fun) /\ port' = 1 /\ UNCHANGED <<function, drives, found_ide>>
           \/ /\ fun.is = "ide" => found_ide
              /\ ~Reachable(fun) /\ function' = function + 1
              /\ UNCHANGED <<port, drives, found_ide>>
    BY SameFunctions
       DEF ScanFunction, OnBus, Searching, Answered, Here, NextFunction, NothingFound, Onward
  <1>2. /\ slot \in Nat \ {0} /\ function \in Nat /\ computer \in Computers
        /\ PortsSettled /\ DrivesSettled /\ Genuine
        /\ Len(computer.slots) \in Nat
    BY Computer DEF ScanInv, ScanTypes, FoundInv
  <1>3. LookedAt(computer, slot, function)
    BY <1>1, <1>2 DEF LookedAt
  <1>4. fun # Absent => me \in Units(computer) /\ Unit(computer, me) = fun
    BY <1>2, <1>3, LookedUnits
  <1>5. me[1] = slot /\ me[2] = function
    OBVIOUS
  <1> HIDE DEF fun, me
  <1>6. ASSUME NEW p \in Units(computer), NEW n \in Nat, Behind(p, n, slot, function + 1, 0)
        PROVE  \/ Behind(p, n, slot, function, 0)
               \/ p[1] = slot /\ p[2] = function /\ Unit(computer, p) = fun
    BY <1>2, <1>6, NextFunctionBehind DEF fun
  <1>7. Genuine /\ disks' = disks /\ computer' = computer => Genuine'
    BY DEF Genuine
  <1>8. AtEnds' /\ Genuine'
    BY <1>1, <1>2, <1>7 DEF AtEnds
  <1>9. ASSUME ~Reachable(fun), function' = function + 1, port' = port
        PROVE  PortsSettled'
    <2>1. \A p \in Units(computer) : Reachable(Unit(computer, p)) =>
              \A n \in Nat : Behind(p, n, slot', function', port') =>
                  Behind(p, n, slot, function, port)
      BY <1>1, <1>6, <1>9
    <2>2. \A x, n : n \in 1 .. Len(x) => n \in Nat
      OBVIOUS
    <2> QED BY <1>1, <1>2, <2>1, <2>2, PortsGoOn
  <1>10. CASE /\ fun.is = "ide" /\ ~found_ide /\ found_ide' = TRUE
              /\ drives' = DrivesOn(Channel(fun, 1)) \o DrivesOn(Channel(fun, 2))
              /\ function' = function + 1 /\ port' = port
    <2>1. fun # Absent /\ ~Reachable(fun)
      BY <1>10 DEF Absent, Reachable
    <2>2. me \in IdeUnits(computer) /\ Unit(computer, me) = fun
      BY <1>4, <1>10, <2>1 DEF IdeUnits
    <2>3. \A q \in IdeUnits(computer) : ~Behind(q, 0, me[1], me[2], 0)
      BY <1>2, <1>5, <1>10 DEF DrivesSettled
    <2>4. DrivesSought(computer) =
              ({Channel(fun, 1), Channel(fun, 2)} \cap Channels) \X {0, 1}
      BY <1>2, <2>2, <2>3, FirstController DEF DrivesSought
    <2>5. /\ \A place \in DrivesSought(computer) :
                 \E j \in 1 .. Len(drives') : drives'[j] = place
          /\ \A j \in 1 .. Len(drives') : drives'[j] \in DrivesSought(computer)
      BY <1>10, <2>4, DrivesAll
    <2>6. DrivesSettled'
      BY <1>1, <1>10, <2>5 DEF DrivesSettled
    <2> QED BY <1>8, <1>9, <1>10, <2>1, <2>6 DEF FoundInv
  <1>11. CASE Reachable(fun) /\ port' = 1 /\ UNCHANGED <<function, drives, found_ide>>
    <2>1. \A p \in Units(computer) : \A n \in Nat \ {0} :
              Behind(p, n, slot', function', port') => Behind(p, n, slot, function, port)
      BY <1>1, <1>11 DEF Behind
    <2>2. \A x, n : n \in 1 .. Len(x) => n \in Nat \ {0}
      OBVIOUS
    <2>3. PortsSettled'
      BY <1>1, <1>2, <2>1, <2>2, PortsGoOn
    <2>4. DrivesSettled'
      BY <1>1, <1>2, <1>11 DEF DrivesSettled
    <2> QED BY <1>8, <2>3, <2>4 DEF FoundInv
  <1>12. CASE /\ fun.is = "ide" => found_ide
              /\ ~Reachable(fun) /\ function' = function + 1
              /\ UNCHANGED <<port, drives, found_ide>>
    <2>1. ~found_ide => \A p \in IdeUnits(computer) : ~Behind(p, 0, slot', function', 0)
      BY <1>1, <1>2, <1>6, <1>12 DEF DrivesSettled, IdeUnits
    <2>2. DrivesSettled'
      BY <1>1, <1>2, <1>12, <2>1, DrivesGoOn
    <2> QED BY <1>8, <1>9, <1>12, <2>2 DEF FoundInv
  <1> QED BY <1>1, <1>10, <1>11, <1>12

LEMMA FoundDrive == ScanInv /\ FoundInv /\ ProbeDrive => FoundInv'
PROOF
  <1> SUFFICES ASSUME ScanInv, FoundInv, ProbeDrive PROVE FoundInv'
    OBVIOUS
  <1> DEFINE place == Head(drives)
             drive == computer.drives[place]
             entry == [kind |-> "ide", at |-> place, context |-> -1,
                       sectors |-> SectorCount(drive)]
  <1>1. /\ scan = "running" /\ drives # <<>> /\ drives' = Tail(drives)
        /\ UNCHANGED <<slot, function, port, found_ide, contexts, computer, scan>>
        /\ \/ /\ drive.is = "disk"
              /\ disks' = IF Len(disks) >= MaxDisks THEN disks ELSE Append(disks, entry)
           \/ drive.is # "disk" /\ disks' = disks
    BY DEF ProbeDrive, Register, Onward
  <1>2. /\ computer \in Computers /\ drives \in Seq(DrivePlaces)
        /\ disks \in Seq(Entry(computer)) /\ Len(disks) <= MaxDisks
        /\ PortsSettled /\ DrivesSettled /\ Genuine /\ Len(disks) \in Nat
    BY LenProperties DEF ScanInv, ScanTypes, FoundInv
  <1>3. /\ place \in DrivePlaces /\ place = drives[1] /\ 1 \in 1 .. Len(drives)
        /\ \A j \in 1 .. Len(drives') : j + 1 \in 1 .. Len(drives) /\ drives'[j] = drives[j + 1]
        /\ \A j \in 1 .. Len(drives) :
              j = 1 \/ (j - 1 \in 1 .. Len(drives') /\ drives'[j - 1] = drives[j])
    <2>1. /\ place \in DrivePlaces /\ Tail(drives) \in Seq(DrivePlaces)
          /\ place = drives[1] /\ Len(drives) \in Nat \ {0}
          /\ Len(Tail(drives)) = Len(drives) - 1
          /\ \A i \in 1 .. Len(Tail(drives)) : Tail(drives)[i] = drives[i + 1]
      BY <1>1, <1>2, HeadTailProperties, LenProperties, EmptySeq
    <2> HIDE DEF place
    <2>2. \A j \in 1 .. Len(drives') : j + 1 \in 1 .. Len(drives) /\ drives'[j] = drives[j + 1]
      BY <1>1, <2>1
    <2>3. ASSUME NEW j \in 1 .. Len(drives), j # 1
          PROVE  j - 1 \in 1 .. Len(drives') /\ drives'[j - 1] = drives[j]
      <3>1. j - 1 \in 1 .. Len(drives') /\ (j - 1) + 1 = j
        BY <1>1, <2>1, <2>3
      <3> QED BY <3>1, <2>2
    <2> QED BY <2>1, <2>2, <2>3
  <1>4. place \in DrivesSought(computer) /\ IsAnswer(drive)
    BY <1>2, <1>3, Computer DEF DrivesSettled
  <1> HIDE DEF place, drive
  <1>5. drive.is = "disk" =>
            /\ entry \in Entry(computer) /\ entry.kind = "ide" /\ entry.at = place
            /\ entry.sectors = Min({drive.sectors, Word - 1})
    <2>1. drive.is = "disk" => /\ SectorCount(drive) \in {n \in Nat : n < Word}
                               /\ SectorCount(drive) = Min({drive.sectors, Word - 1})
      BY <1>4, SectorCounts, SectorCountExact
    <2> QED BY <1>3, <2>1 DEF Entry
  <1> HIDE DEF entry
  <1>6. /\ \A kind, where, what :
               Settled(disks, kind, where, what) => Settled(disks', kind, where, what)
        /\ Settled(disks', "ide", place, drive)
    <2>1. CASE drive.is # "disk" /\ disks' = disks
      BY <2>1 DEF Settled
    <2>2. CASE /\ drive.is = "disk"
               /\ disks' = IF Len(disks) >= MaxDisks THEN disks ELSE Append(disks, entry)
      <3> DEFINE longer == disks'
                 E == Entry(computer)
      <3>1. /\ longer = IF Len(disks) >= MaxDisks THEN disks ELSE Append(disks, entry)
            /\ disks \in Seq(E) /\ entry \in E
        BY <1>2, <1>5, <2>2
      <3> HIDE DEF longer, E
      <3>2. /\ \A kind, where, what :
                   Settled(disks, kind, where, what) => Settled(longer, kind, where, what)
            /\ \A kind, where, what :
                   /\ entry.kind = kind /\ entry.at = where
                   /\ entry.sectors = Min({what.sectors, Word - 1})
                   => Settled(longer, kind, where, what)
        BY <1>2, <3>1, TableKeeps
      <3> QED BY <1>5, <2>2, <3>2 DEF longer
    <2> QED BY <1>1, <2>1, <2>2
  <1>7. PortsSettled'
    BY <1>1, <1>2, <1>6 DEF PortsSettled
  <1>8. DrivesSettled'
    <2>1. \A j \in 1 .. Len(drives') : drives'[j] \in DrivesSought(computer)
      BY <1>2, <1>3 DEF DrivesSettled
    <2>2. ASSUME found_ide \/ slot > Len(computer.slots) + 1,
                 NEW other \in DrivesSought(computer)
          PROVE  \/ \E j \in 1 .. Len(drives') : drives'[j] = other
                 \/ Settled(disks', "ide", other, computer.drives[other])
      <3>1. CASE Settled(disks, "ide", other, computer.drives[other])
        BY <3>1, <1>6
      <3>2. CASE \E j \in 1 .. Len(drives) : drives[j] = other
        BY <3>2, <1>3, <1>6 DEF drive
      <3> QED BY <1>2, <2>2, <3>1, <3>2 DEF DrivesSettled
    <2> QED BY <1>1, <1>2, <2>1, <2>2 DEF DrivesSettled
  <1>9. Genuine'
    <2>1. CASE disks' = disks
      BY <1>1, <1>2, <2>1 DEF Genuine
    <2>2. CASE /\ drive.is = "disk"
               /\ disks' = IF Len(disks) >= MaxDisks THEN disks ELSE Append(disks, entry)
      <3> DEFINE longer == disks'
                 E == Entry(computer)
      <3>1. /\ longer = IF Len(disks) >= MaxDisks THEN disks ELSE Append(disks, entry)
            /\ disks \in Seq(E) /\ entry \in E
        BY <1>2, <1>5, <2>2
      <3> HIDE DEF longer, E
      <3>2. \A i \in 1 .. Len(longer) :
                (i \in 1 .. Len(disks) /\ longer[i] = disks[i]) \/ longer[i] = entry
        BY <1>2, <3>1, Registered
      <3> QED BY <1>1, <1>2, <1>4, <1>5, <2>2, <3>2 DEF Genuine, longer, drive
    <2> QED BY <1>1, <2>1, <2>2
  <1>10. AtEnds'
    BY <1>1 DEF AtEnds
  <1> QED BY <1>7, <1>8, <1>9, <1>10 DEF FoundInv

LEMMA FoundPort == ScanInv /\ FoundInv /\ ProbePort => FoundInv'
PROOF
  <1> SUFFICES ASSUME ScanInv, FoundInv, ProbePort PROVE FoundInv'
    OBVIOUS
  <1> DEFINE fun == Fun(computer, slot, function)
             me == <<slot, function>>
             answer == fun.ports[port]
             place == <<fun.base, port>>
             entry == [kind |-> "ahci", at |-> place, context |-> contexts,
                       sectors |-> SectorCount(answer)]
             Next1 == IF port < Len(fun.ports) THEN function' = function /\ port' = port + 1
                      ELSE function' = function + 1 /\ port' = 0
  <1>1. /\ scan = "running" /\ port # 0
        /\ UNCHANGED <<slot, drives, found_ide, computer, scan>>
        /\ \/ answer = PortEmpty /\ Next1 /\ UNCHANGED <<disks, contexts>>
           \/ /\ contexts >= MaxContexts /\ function' = function + 1 /\ port' = 0
              /\ UNCHANGED <<disks, contexts>>
           \/ /\ contexts < MaxContexts /\ Next1
              /\ \/ /\ answer.is = "disk"
                    /\ disks' = IF Len(disks) >= MaxDisks THEN disks ELSE Append(disks, entry)
                 \/ answer.is # "disk" /\ disks' = disks
    <2>1. Here = fun
      BY SameFunctions DEF Here
    <2> HIDE DEF fun
    <2>2. GiveUpPorts => slot' = slot /\ function' = function + 1 /\ port' = 0
      BY DEF GiveUpPorts, NextFunction
    <2>3. NextPort => slot' = slot /\ Next1
      BY <2>1, <2>2 DEF NextPort
    <2>4. /\ scan = "running" /\ port # 0
          /\ UNCHANGED <<drives, found_ide, computer, scan>>
      BY DEF ProbePort, Onward
    <2>5. CASE answer = PortEmpty /\ NextPort /\ NothingFound
      BY <2>3, <2>4, <2>5 DEF NothingFound
    <2>6. CASE contexts >= MaxContexts /\ GiveUpPorts /\ NothingFound
      BY <2>2, <2>4, <2>6 DEF NothingFound
    <2>7. CASE /\ contexts < MaxContexts /\ NextPort
               /\ IF answer.is = "disk" THEN Register("ahci", place, contexts, answer)
                  ELSE UNCHANGED disks
      BY <2>3, <2>4, <2>7 DEF Register
    <2> QED BY <2>1, <2>5, <2>6, <2>7 DEF ProbePort, PassEmptyPort
  <1>2. /\ computer \in Computers /\ slot \in Nat /\ function \in Nat /\ port \in Nat
        /\ disks \in Seq(Entry(computer)) /\ Len(disks) <= MaxDisks /\ Len(disks) \in Nat
        /\ contexts \in Nat /\ MaxContexts \in Nat /\ contexts <= MaxContexts
        /\ PortsSettled /\ DrivesSettled /\ Genuine
    BY LenProperties, DiskScanAssumption DEF ScanInv, ScanTypes, FoundInv
  <1>3. /\ LookedAt(computer, slot, function) /\ Reachable(fun)
        /\ port \in 1 .. Len(fun.ports) /\ drives = <<>>
    BY <1>1 DEF ScanInv, InHand
  <1>4. fun # Absent /\ fun.is = "ahci"
    BY <1>3 DEF Reachable, Absent
  <1>5. IsAnswer(answer) /\ Len(fun.ports) \in Nat
    <2>1. IsFunction(fun)
      BY <1>2, <1>3, <1>4, OwnFunction
    <2> QED BY <1>3, <1>4, <2>1 DEF IsFunction
  <1>6. me \in Units(computer) /\ Unit(computer, me) = fun
    BY <1>2, <1>3, <1>4, LookedUnits
  <1>7. place \in PortPlaces(computer)
    <2>1. <<slot, function, port>> \in Nat \X Nat \X Nat
      BY <1>2
    <2> DEFINE t == <<slot, function, port>>
    <2>2. t[1] = slot /\ t[2] = function /\ t[3] = port
      OBVIOUS
    <2>3. place = <<Fun(computer, t[1], t[2]).base, t[3]>> /\ t \in Nat \X Nat \X Nat
      BY <2>1, <2>2
    <2> HIDE DEF t, place, fun
    <2> QED BY <2>3 DEF PortPlaces
  <1>8. place[1] = fun.base /\ place[2] = port /\ place = <<place[1], place[2]>>
    OBVIOUS
  <1>9. AtEnds'
    BY <1>1 DEF AtEnds
  <1> HIDE DEF fun, me
  <1>10. IsPort(computer, place) \/ answer.is # "disk"
    BY <1>3, <1>6, <1>8 DEF IsPort
  <1>11. ASSUME NEW p \in Units(computer), NEW n \in Nat, Behind(p, n, slot, function + 1, 0)
         PROVE  \/ Behind(p, n, slot, function, 0)
                \/ p[1] = slot /\ p[2] = function /\ Unit(computer, p) = fun
    BY <1>2, <1>11, NextFunctionBehind DEF fun
  <1>12. ~found_ide' => \A p \in IdeUnits(computer) : ~Behind(p, 0, slot', function', 0)
    <2>1. function' = function \/ function' = function + 1
      BY <1>1
    <2> QED BY <1>1, <1>2, <1>4, <1>11, <2>1 DEF DrivesSettled, IdeUnits
  <1>13. ASSUME Next1, NEW p \in Units(computer), NEW n \in 1 .. Len(Unit(computer, p).ports),
                Behind(p, n, slot', function', port')
         PROVE  \/ Behind(p, n, slot, function, port)
                \/ Unit(computer, p) = fun /\ n = port
    <2>1. p[1] \in Nat /\ p[2] \in Nat /\ n \in Nat
      BY <1>2, UnitsLooked
    <2>2. CASE port < Len(fun.ports)
      <3>1. \/ Behind(p, n, slot, function, port)
            \/ p[1] = slot /\ p[2] = function /\ n = port
        BY <1>1, <1>2, <1>13, <2>1, <2>2 DEF Behind
      <3> QED BY <3>1 DEF Unit, fun
    <2>3. CASE ~(port < Len(fun.ports))
      <3>1. slot' = slot /\ function' = function + 1 /\ port' = 0
        BY <1>1, <1>13, <2>3
      <3>2. \/ Behind(p, n, slot, function, 0)
            \/ p[1] = slot /\ p[2] = function /\ Unit(computer, p) = fun
        BY <1>11, <1>13, <2>1, <3>1
      <3>3. CASE Behind(p, n, slot, function, 0)
        BY <1>2, <2>1, <3>3 DEF Behind
      <3>4. CASE p[1] = slot /\ p[2] = function /\ Unit(computer, p) = fun
        BY <1>2, <1>3, <1>5, <2>1, <2>3, <3>4 DEF Behind
      <3> QED BY <3>2, <3>3, <3>4
    <2> QED BY <2>2, <2>3
  <1>14. ASSUME disks' = disks PROVE Genuine'
    BY <1>1, <1>2, <1>14 DEF Genuine
  <1>15. CASE answer = PortEmpty /\ Next1 /\ UNCHANGED <<disks, contexts>>
    <2>1. Settled(disks, "ahci", place, answer)
      BY <1>15 DEF Settled, PortEmpty
    <2>2. PortsSettled'
      BY <1>1, <1>2, <1>13, <1>15, <2>1, PortsGoOn
    <2>3. DrivesSettled'
      BY <1>1, <1>2, <1>12, <1>15 DEF DrivesSettled
    <2> QED BY <1>9, <1>14, <1>15, <2>2, <2>3 DEF FoundInv
  <1>16. CASE /\ contexts >= MaxContexts /\ function' = function + 1 /\ port' = 0
              /\ UNCHANGED <<disks, contexts>>
    <2>1. contexts = MaxContexts
      BY <1>2, <1>16
    <2>2. PortsSettled'
      BY <1>1, <1>2, <1>16, <2>1, PortsGoOn
    <2>3. DrivesSettled'
      BY <1>1, <1>2, <1>12, <1>16 DEF DrivesSettled
    <2> QED BY <1>9, <1>14, <1>16, <2>2, <2>3 DEF FoundInv
  <1>17. CASE /\ contexts < MaxContexts /\ Next1
              /\ \/ /\ answer.is = "disk"
                    /\ disks' = IF Len(disks) >= MaxDisks THEN disks ELSE Append(disks, entry)
                 \/ answer.is # "disk" /\ disks' = disks
    <2>1. answer.is = "disk" =>
              /\ entry \in Entry(computer) /\ entry.kind = "ahci" /\ entry.at = place
              /\ entry.sectors = Min({answer.sectors, Word - 1})
      <3>1. answer.is = "disk" => /\ SectorCount(answer) \in {n \in Nat : n < Word}
                                  /\ SectorCount(answer) = Min({answer.sectors, Word - 1})
        BY <1>5, SectorCounts, SectorCountExact
      <3> QED BY <1>2, <1>7, <3>1 DEF Entry
    <2> HIDE DEF entry
    <2>2. /\ \A kind, where, what :
                 Settled(disks, kind, where, what) => Settled(disks', kind, where, what)
          /\ Settled(disks', "ahci", place, answer)
          /\ Genuine'
      <3>1. CASE answer.is # "disk" /\ disks' = disks
        BY <3>1, <1>14 DEF Settled
      <3>2. CASE /\ answer.is = "disk"
                 /\ disks' = IF Len(disks) >= MaxDisks THEN disks ELSE Append(disks, entry)
        <4> DEFINE longer == disks'
                   E == Entry(computer)
        <4>1. /\ longer = IF Len(disks) >= MaxDisks THEN disks ELSE Append(disks, entry)
              /\ disks \in Seq(E) /\ entry \in E
          BY <1>2, <2>1, <3>2
        <4> HIDE DEF longer, E
        <4>2. /\ \A kind, where, what :
                     Settled(disks, kind, where, what) => Settled(longer, kind, where, what)
              /\ \A kind, where, what :
                     /\ entry.kind = kind /\ entry.at = where
                     /\ entry.sectors = Min({what.sectors, Word - 1})
                     => Settled(longer, kind, where, what)
          BY <1>2, <4>1, TableKeeps
        <4>3. \A i \in 1 .. Len(longer) :
                  (i \in 1 .. Len(disks) /\ longer[i] = disks[i]) \/ longer[i] = entry
          BY <1>2, <4>1, Registered
        <4>4. Genuine'
          BY <1>1, <1>2, <1>10, <2>1, <3>2, <4>3 DEF Genuine, longer
        <4> QED BY <2>1, <3>2, <4>2, <4>4 DEF longer
      <3> QED BY <1>17, <3>1, <3>2
    <2>3. PortsSettled'
      <3> SUFFICES ASSUME NEW p \in Units(computer), Reachable(Unit(computer, p)),
                          NEW n \in 1 .. Len(Unit(computer, p).ports),
                          Behind(p, n, slot', function', port')
                   PROVE  Settled(disks', "ahci", <<Unit(computer, p).base, n>>,
                                  Unit(computer, p).ports[n])
        BY <1>1 DEF PortsSettled
      <3>1. CASE Behind(p, n, slot, function, port)
        BY <3>1, <1>2, <1>17, <2>2 DEF PortsSettled
      <3>2. CASE Unit(computer, p) = fun /\ n = port
        BY <3>2, <2>2
      <3> QED BY <1>13, <1>17, <3>1, <3>2
    <2>4. DrivesSettled'
      BY <1>1, <1>2, <1>12, <2>2 DEF DrivesSettled
    <2> QED BY <1>9, <2>2, <2>3, <2>4 DEF FoundInv
  <1> QED BY <1>1, <1>15, <1>16, <1>17

LEMMA FoundEnd == ScanInv /\ FoundInv /\ ScanEnd => FoundInv'
PROOF
  <1> SUFFICES ASSUME ScanInv, FoundInv, ScanEnd PROVE FoundInv'
    OBVIOUS
  <1>1. /\ scan = "running" /\ port = 0 /\ drives = <<>> /\ slot = Len(computer.slots) + 1
        /\ slot' = slot + 1
        /\ drives' = IF found_ide THEN <<>> ELSE DrivesOn(Primary) \o DrivesOn(Secondary)
        /\ UNCHANGED <<function, port, found_ide, disks, contexts, computer, scan>>
    BY SameFunctions DEF ScanEnd, Searching, NothingFound, Onward
  <1>2. /\ slot \in Nat /\ function \in Nat /\ computer \in Computers
        /\ PortsSettled /\ DrivesSettled /\ Genuine /\ Len(computer.slots) \in Nat
    BY Computer DEF ScanInv, ScanTypes, FoundInv
  <1>3. ASSUME NEW p \in Units(computer), NEW n PROVE Behind(p, n, slot, function, port)
    <2>1. p[1] \in 1 .. Len(computer.slots)
      BY <1>2, UnitsLooked
    <2> QED BY <1>1, <1>2, <2>1 DEF Behind
  <1>4. PortsSettled'
    BY <1>1, <1>2, <1>3, PortsGoOn
  <1>5. DrivesSettled'
    <2>1. CASE found_ide
      BY <1>1, <1>2, <2>1 DEF DrivesSettled
    <2>2. CASE ~found_ide
      <3>1. IdeUnits(computer) = {}
        BY <1>1, <1>2, <1>3, <2>2 DEF DrivesSettled, IdeUnits
      <3>2. DrivesSought(computer) = ({Primary, Secondary} \cap Channels) \X {0, 1}
        BY <3>1, DiskScanAssumption DEF DrivesSought, ChannelsOf
      <3>3. /\ \A place \in DrivesSought(computer) :
                   \E j \in 1 .. Len(drives') : drives'[j] = place
            /\ \A j \in 1 .. Len(drives') : drives'[j] \in DrivesSought(computer)
        <4>1. drives' = DrivesOn(Primary) \o DrivesOn(Secondary)
          BY <1>1, <2>2
        <4> QED BY <3>2, <4>1, DrivesAll
      <3> QED BY <1>1, <3>1, <3>3 DEF DrivesSettled
    <2> QED BY <2>1, <2>2
  <1>6. Genuine' /\ AtEnds'
    BY <1>1, <1>2 DEF Genuine, AtEnds
  <1> QED BY <1>4, <1>5, <1>6 DEF FoundInv

LEMMA FoundDone == ScanInv /\ FoundInv /\ ScanDone => FoundInv'
PROOF
  <1> SUFFICES ASSUME FoundInv, ScanDone PROVE FoundInv'
    OBVIOUS
  <1>1. /\ port = 0 /\ drives = <<>> /\ slot = Len(computer.slots) + 2 /\ scan' = "done"
        /\ UNCHANGED <<computer, slot, function, port, drives, found_ide, disks, contexts>>
    BY SameFunctions DEF ScanDone, Searching, position
  <1>2. AtEnds'
    BY <1>1 DEF AtEnds
  <1> QED BY <1>1, <1>2, FoundSame

LEMMA FoundNext == ScanInv /\ FoundInv /\ [ScanNext]_scanVars => FoundInv'
PROOF
  <1>1. ASSUME FoundInv, UNCHANGED scanVars PROVE FoundInv'
    <2>1. /\ UNCHANGED <<computer, slot, function, port, drives, found_ide, disks, contexts>>
          /\ scan' = scan
      BY <1>1 DEF scanVars, position
    <2>2. AtEnds'
      BY <1>1, <2>1 DEF AtEnds, FoundInv
    <2> QED BY <1>1, <2>1, <2>2, FoundSame
  <1> QED BY <1>1, FoundBegin, FoundNextSlot, FoundFunction, FoundDrive, FoundPort,
             FoundEnd, FoundDone DEF ScanNext

LEMMA FoundAtEnd == ScanInv /\ FoundInv /\ scan = "done" => AllFound
PROOF
  <1> SUFFICES ASSUME ScanInv, FoundInv, scan = "done" PROVE AllFound
    OBVIOUS
  <1>1. /\ slot = Len(computer.slots) + 2 /\ port = 0 /\ drives = <<>>
        /\ Len(computer.slots) \in Nat /\ computer \in Computers
        /\ PortsSettled /\ DrivesSettled /\ Genuine
    BY Computer DEF ScanInv, ScanTypes, FoundInv, AtEnds
  <1>2. \A d : Settled(disks, d[1], d[2], d[3]) /\ d[3].is = "disk"
                   => Listed(d) \/ Len(disks) = MaxDisks
    BY DEF Settled, InTable, Listed
  <1>3. \A p : FunctionOf(p[1], p[2]) = Unit(computer, p)
    BY SameFunctions DEF Unit
  <1> DEFINE PortOf(p, n) ==
                 <<"ahci", <<Unit(computer, p).base, n>>, Unit(computer, p).ports[n]>>
             DriveAt(place) == <<"ide", place, computer.drives[place]>>
  <1>4. /\ \A p, n : /\ PortOf(p, n)[1] = "ahci" /\ PortOf(p, n)[2] = <<Unit(computer, p).base, n>>
                     /\ PortOf(p, n)[3] = Unit(computer, p).ports[n]
        /\ \A place : /\ DriveAt(place)[1] = "ide" /\ DriveAt(place)[2] = place
                      /\ DriveAt(place)[3] = computer.drives[place]
    OBVIOUS
  <1>5. \A d : d \in AhciPorts <=>
            \E p \in Units(computer) :
                /\ Reachable(Unit(computer, p))
                /\ \E n \in 1 .. Len(Unit(computer, p).ports) : d = PortOf(p, n)
    BY <1>3, SameUnits DEF AhciPorts
  <1>6. \A d : d \in IdeDrives <=> \E place \in DrivesSought(computer) : d = DriveAt(place)
    BY SameUnits DEF IdeDrives, DrivesSought
  <1> HIDE DEF PortOf, DriveAt
  <1>7. ASSUME NEW d \in AhciPorts, d[3].is = "disk"
        PROVE  Listed(d) \/ Len(disks) = MaxDisks \/ contexts = MaxContexts
    <2>1. PICK p \in Units(computer) :
              /\ Reachable(Unit(computer, p))
              /\ \E n \in 1 .. Len(Unit(computer, p).ports) : d = PortOf(p, n)
      BY <1>5
    <2>2. PICK n \in 1 .. Len(Unit(computer, p).ports) : d = PortOf(p, n)
      BY <2>1
    <2>3. p[1] \in 1 .. Len(computer.slots)
      BY <1>1, UnitsLooked
    <2>4. Behind(p, n, slot, function, port)
      BY <1>1, <2>3 DEF Behind
    <2>5. \/ contexts = MaxContexts
          \/ Settled(disks, "ahci", <<Unit(computer, p).base, n>>, Unit(computer, p).ports[n])
      BY <1>1, <2>1, <2>4 DEF PortsSettled
    <2>6. contexts = MaxContexts \/ Settled(disks, d[1], d[2], d[3])
      BY <1>4, <2>2, <2>5
    <2> QED BY <1>2, <1>7, <2>6
  <1>8. ASSUME NEW d \in IdeDrives, d[3].is = "disk"
        PROVE  Listed(d) \/ Len(disks) = MaxDisks
    <2>1. PICK place \in DrivesSought(computer) : d = DriveAt(place)
      BY <1>6
    <2>2. ~\E j \in 1 .. Len(drives) : drives[j] = place
      BY <1>1, EmptySeq
    <2>3. slot > Len(computer.slots) + 1
      BY <1>1
    <2>4. Settled(disks, d[1], d[2], d[3])
      BY <1>1, <1>4, <2>1, <2>2, <2>3 DEF DrivesSettled
    <2> QED BY <1>2, <1>8, <2>4
  <1>9. ASSUME NEW i \in 1 .. Len(disks)
        PROVE  \E d \in AhciPorts \cup IdeDrives :
                   d[3].is = "disk" /\ disks[i].kind = d[1] /\ disks[i].at = d[2]
    <2>1. CASE disks[i].kind = "ahci" /\ IsPort(computer, disks[i].at)
      <3> DEFINE at == disks[i].at
      <3>1. PICK p \in Units(computer) :
                /\ Reachable(Unit(computer, p)) /\ at[1] = Unit(computer, p).base
                /\ at[2] \in 1 .. Len(Unit(computer, p).ports) /\ at = <<at[1], at[2]>>
                /\ Unit(computer, p).ports[at[2]].is = "disk"
        BY <2>1 DEF IsPort
      <3>2. PortOf(p, at[2]) \in AhciPorts
        BY <1>5, <3>1
      <3> QED BY <1>4, <2>1, <3>1, <3>2
    <2>2. CASE /\ disks[i].kind = "ide" /\ disks[i].at \in DrivesSought(computer)
               /\ computer.drives[disks[i].at].is = "disk"
      <3>1. DriveAt(disks[i].at) \in IdeDrives
        BY <1>6, <2>2
      <3> QED BY <1>4, <2>2, <3>1
    <2> QED BY <1>1, <2>1, <2>2 DEF Genuine
  <1> QED BY <1>7, <1>8, <1>9 DEF AllFound

-----------------------------------------------------------------------------
(* A program that uses one service leaves the others as they are.          *)
LEMMA Services ==
    Spec => /\ ScanInit /\ [][ScanNext]_scanVars
            /\ ConsoleSpec /\ ArenaSpec
PROOF
  <1>1. Init => ScanInit /\ ConsoleInit /\ ArenaInit
    BY DEF Init
  <1>2. [Next]_vars => [ScanNext]_scanVars /\ [ConsoleNext]_consoleVars /\ [ArenaNext]_arenaVars
    BY DEF Next, vars
  <1> QED BY <1>1, <1>2, PTL DEF Spec, ConsoleSpec, ArenaSpec

LEMMA ScanAlways == Spec => []ScanInv
  BY Services, ScanInvInit, ScanInvNext, PTL

(* The table holds at most BAF_MAX_DISKS disks, each with a number of      *)
(* sectors that fits 32 bits and a context that was given out, and what    *)
(* selected_disk names is one of them; with the state of the console and   *)
(* the arena, which no scan disturbs.                                      *)
THEOREM RuntimeTypeCorrect == Spec => []TypeOK
PROOF
  <1>1. ScanInv => ScanTypeOK
    <2> SUFFICES ASSUME ScanInv PROVE ScanTypeOK
      OBVIOUS
    <2>1. \A i \in 1 .. Len(disks) : disks[i] \in Entry(computer)
      BY LenProperties DEF ScanInv, ScanTypes
    <2>2. \A i \in 1 .. Len(disks) : disks[i].sectors < Word
      BY <2>1 DEF Entry
    <2> QED BY <2>2 DEF ScanInv, ScanTypes, ScanTypeOK
  <1>2. Spec => []ConsoleTypeOK
    BY Services, ConsoleSafe, PTL
  <1>3. Spec => []ArenaTypeOK
    BY Services, StringsLastAlways, PTL
  <1> QED BY <1>1, <1>2, <1>3, ScanAlways, PTL DEF TypeOK

(* No drive and no port is in the table twice, and no two AHCI ports were  *)
(* given the same memory, on every computer whose functions decode         *)
(* addresses of their own.                                                 *)
THEOREM DisksAlwaysApart == Spec => []DisksApart
PROOF
  <1>1. ScanInv => DisksApart
    BY DEF ScanInv
  <1> QED BY <1>1, ScanAlways, PTL

(* Once baf_core_disk_scan has ended, the table holds every disk there is,  *)
(* each with the sectors that can be addressed, and nothing else, unless    *)
(* the table or the memory for ports ran out: what ScanComplete says of the *)
(* end, without that it comes.                                              *)
THEOREM DisksAllFound == Spec => [](scan = "done" => AllFound)
PROOF
  <1>1. ScanInv /\ [ScanNext]_scanVars /\ FoundInv => FoundInv'
    BY FoundNext
  <1>2. ScanInv /\ FoundInv => (scan = "done" => AllFound)
    BY FoundAtEnd
  <1> QED BY <1>1, <1>2, Services, ScanAlways, FoundInit, PTL

(* What the console shows and the strings that last, under a program that  *)
(* may use the disks instead.                                              *)
THEOREM ServicesSafe == Spec => [](EchoMatches /\ StringsLast)
PROOF
  <1>1. Spec => []EchoMatches
    BY Services, EchoAlways, PTL
  <1>2. Spec => []StringsLast
    BY Services, StringsLastAlways, PTL
  <1> QED BY <1>1, <1>2, PTL
=============================================================================
