--------------------------- MODULE TerminalMetrics ---------------------------
(***************************************************************************)
(* How the page divides its window into a character grid and chooses the   *)
(* font (computeTerminalMetrics in site/src/shell.js).  A window is a      *)
(* record [w, h] of pixels; lengths here are hundredths of a pixel, which  *)
(* makes every intermediate value of the code exact.                       *)
(***************************************************************************)
EXTENDS Naturals

AtLeast(low, x) == IF x < low THEN low ELSE x
AtMost(high, x) == IF x > high THEN high ELSE x
Smaller(x, y) == AtMost(y, x)

Window == [w : Nat, h : Nat]

Pad(win) == AtMost(7200, AtLeast(2400, 6 * Smaller(win.w, win.h)))

\* max(floor, length - 2 * pad), where the difference may be negative.
Inner(length, floor, pad) ==
  IF 100 * length < floor + 2 * pad THEN floor ELSE 100 * length - 2 * pad

InnerW(win) == Inner(win.w, 20000, Pad(win))
InnerH(win) == Inner(win.h, 12000, Pad(win))

Cols(win) == AtLeast(48, InnerW(win) \div 820)
Rows(win) == AtLeast(14, InnerH(win) \div 1800)

\* Math.round(0.92 * inner / n): a half is rounded up.
Rounded(inner, n) == (184 * inner + 10000 * n) \div (20000 * n)

FontSize(win) ==
  AtMost(26, AtLeast(11, Smaller(Rounded(InnerW(win), Cols(win)), Rounded(InnerH(win), Rows(win)))))

Grid(win) == [cols |-> Cols(win), rows |-> Rows(win)]
=============================================================================
