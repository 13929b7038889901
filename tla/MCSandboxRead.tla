---------------------------- MODULE MCSandboxRead ----------------------------
(***************************************************************************)
(* A small instance of SandboxRead for TLC: texts that end within, at and  *)
(* after a chunk, with blank lines inside and at the end of one, a broken  *)
(* line, a text without text and one above the ceiling.                    *)
(***************************************************************************)
EXTENDS SandboxRead

CONSTANTS a, b, c, d, e, ff

MCLines == {a, b, c, d, e, ff, Blank, Rest}

MCVersions ==
  { <<a, b, c>>, <<a, b, c, d>>, <<b, a, c, d, e>>, <<a, Blank, c, d, e>>,
    <<Blank, b, Blank, d>>, <<a, ff, c, d>>, <<Blank, Blank>>, <<a, b, c, d, e, a>> }
=============================================================================
