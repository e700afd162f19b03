------------------------------- MODULE Picture -------------------------------
(***************************************************************************)
(* The demo modes and the picture each of them puts on the screen.  Pixels *)
(* are abstracted: a cell names 32 pixels (or four characters) by where    *)
(* they come from.                                                         *)
(***************************************************************************)
EXTENDS Integers

(* enum class DemoModes_e                                                   *)
scrollingText == 0
staticText    == 1
chess         == 2
bouncyDot     == 3
bouncyDvd     == 4
ass           == 5
randomLines   == 6
end           == 7
DemoModes == 0 .. end - 1

TextModes == {scrollingText, staticText}

(* Mutants of NextMode: no wrap at the end; the last mode is skipped.       *)
NextModeNoWrap(m) == m + 1
NextModeSkipsLast(m) == IF m + 2 = end THEN scrollingText ELSE m + 1

(* operator++(DemoModes_e &)                                                *)
NextMode(m) == IF m + 1 = end THEN scrollingText ELSE m + 1

(* Word number `word` of the picture line or text row `at` of source `src`. *)
Cell == [src : {"none", "text", "chess", "bitmap"}, at : Nat, word : Nat]
NoCell == [src |-> "none", at |-> 0, word |-> 0]

(* The beam is dark, or shows one byte column of picture line `line`: a     *)
(* byte of `cell` as pixels, or row `row` of the glyph it names.            *)
Beam == [kind : {"dark", "bitmap", "text"}, line : Int, col : Nat,
         cell : Cell, row : 0 .. 7]
Dark == [kind |-> "dark", line |-> 0, col |-> 0, cell |-> NoCell, row |-> 0]

(* What mode m has at column c (in word w) of picture line y: 24 rows of    *)
(* characters eight lines high, a chess board of squares four lines high,   *)
(* or the frame buffer.                                                     *)
Lit(m, y, c, w) ==
    LET at(kind, src, n, word, row) ==
          [kind |-> kind, line |-> y, col |-> c, row |-> row,
           cell |-> [src |-> src, at |-> n, word |-> word]]
    IN  CASE m \in TextModes -> at("text", "text", y \div 8, w, y % 8)
          [] m = chess       -> at("bitmap", "chess", (y \div 4) % 2, 0, 0)
          [] OTHER           -> at("bitmap", "bitmap", y, w, 0)
=============================================================================
