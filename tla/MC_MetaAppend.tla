--------------------------- MODULE MC_MetaAppend ---------------------------
(***************************************************************************)
(* Payload lengths chosen so that records need padding (5, 13, 21, 27, 9  *)
(* bytes), the names may be none or fill the first buffer so that the     *)
(* second comm string needs a growth, and the command line either overflows   *)
(* the first 512-byte buffer by a little (300 bytes: growth to less than   *)
(* double the need) or by a lot (capped at a page).  Three masks: a small *)
(* one that allocates the first buffer, one that grows it, and all ten    *)
(* categories at once.                                                    *)
(***************************************************************************)
EXTENDS MetaAppend

MCMasks == {{"timestamp", "names"}, {"comm", "cmdline"}, Cats}

=============================================================================
