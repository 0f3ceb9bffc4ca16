------------------------------ MODULE MCPaging ------------------------------
(* Pagers of the first, second, fifth and last frame, two of them in one     *)
(* frame, and pages of no, one, two, 14, 16 and 32 words, and one too long.  *)
EXTENDS Paging

CapCodes == {0, 8, 1, 4, 7}

MCPages ==
  [capCode : CapCodes, type : {"Alpha"}, length : {0, 2, 40, 45, 91}]
  \cup [capCode : {0, 7}, type : {"Numeric"}, length : {7}]
  \cup [capCode : {4}, type : {"Alpha"}, length : {400}]

\* Numeric pages without text, whose address has the bits of an idle word, and
\* others in the frames before, with and behind them.
MCIdlePages ==
  [capCode : {2007665, 2007668, 2007671}, type : {"Numeric"}, length : {0, 3}]
  \cup [capCode : {1, 4}, type : {"Alpha"}, length : {0, 40}]

\* Of every kind of character, and others in every page.
MCText(p, i) ==
  IF p.type = "Alpha" THEN (37 * i + 11 * p.capCode + p.length) % 128
  ELSE <<48, 57, 85, 45, 41, 40, 32, 65, 53, 49>>[((i + p.capCode) % 10) + 1]
=============================================================================
