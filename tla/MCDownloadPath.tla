--------------------------- MODULE MCDownloadPath ---------------------------
(* DownloadPath over the characters ".", "/" and "a", values of up to four *)
(* characters (every way of combining "..", "//", "./" and "/." with a     *)
(* letter), and two edits.                                                 *)
EXTENDS DownloadPath

MCChars == {".", "/", "a"}
MCMaxLen == 4
MCMaxEdits == 2
=============================================================================
