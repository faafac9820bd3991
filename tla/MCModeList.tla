----------------------------- MODULE MCModeList -----------------------------
(* ModeList with lines of every kind (preferred, plain, out of the sane   *)
(* range, malformed), Modes values that lengthen and shorten the list, an *)
(* empty result among them, and a built-in list of two modes.             *)
EXTENDS ModeList

Mode(w, h, r, p) == [width |-> w, height |-> h, refresh |-> r, preferred |-> p]

Star  == Mode(2560, 1440, 60, TRUE)
Plain == Mode(1024, 768, 75, FALSE)
Small == Mode(320, 200, 60, TRUE)

MCLines       == {Star, Plain, Small, Malformed}
MCModesValues == {Absent, <<Malformed, Small>>, <<Plain, Star, Star>>}
MCRefreshes   == {10, 120}
MCDefaults    == << <<1920, 1080>>, <<800, 600>> >>
MCRequests    == {<<1600, 852>>, <<639, 480>>}
=============================================================================
