------------------------------- MODULE MCLink -------------------------------
(***************************************************************************)
(* Small instances of Link: the requests a client sends.  Ciphertext holds *)
(* the bytes that start and end a frame wherever the size of a request is  *)
(* fixed.                                                                  *)
(***************************************************************************)
EXTENDS Link, TLC

HU == <<"S", "H", "U", "o", "S", "o", "E", "o", "o", "o", "E">>
HB == <<"S", "H", "B", "o", "o", "S", "o", "E">>

(* A name whose ciphertext happens to hold the byte that ends a frame.     *)
HBwithEnd == <<"S", "H", "B", "o", "o", "E", "o", "E">>

Settings == {HU, HB}
WithEnd  == {HU, HBwithEnd}

ASSUME SettingsAreClear == Requests = Settings => EndsOnce /\ StartsOnce

Alike == Permutations(Keys)
=============================================================================
