----------------------------- MODULE MCSitePage -----------------------------
(* Windows and keys for SitePage.                                          *)
EXTENDS SitePage

\* A phone and a desktop.
McWindows == {[w |-> 360, h |-> 640], [w |-> 2560, h |-> 1440]}
\* A pasted word: the euro sign, which does not fit a byte, and a letter that
\* the page would not print.
McPastes == {<<8364, 255>>}
=============================================================================
