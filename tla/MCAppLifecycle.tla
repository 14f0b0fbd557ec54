--------------------------- MODULE MCAppLifecycle ---------------------------
(* AppLifecycle for TLC.                                                   *)
EXTENDS AppLifecycle

CONSTANTS w1, w2, w3

(* A BrowserWindow, one that is not closable, a BaseWindow.                *)
MixedWindows == {w1, w2, w3}
MixedPlain   == {w3}
MixedFixed   == {w2}
=============================================================================
