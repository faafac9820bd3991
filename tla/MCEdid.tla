------------------------------- MODULE MCEdid -------------------------------
(* Edid with a pool of modes that has every interesting case: a preferred *)
(* mode, two that differ in one component of the order, both bounds of    *)
(* the size, sizes beyond 4095 and pixel clocks beyond 16 bits, preferred *)
(* or not.                                                                *)
EXTENDS Edid

Mode(w, h, r, p) == [width |-> w, height |-> h, refresh |-> r, preferred |-> p]

MCPool ==
  { Mode(1920, 1080, 60, TRUE),  Mode(1920, 1080, 60, FALSE),
    Mode(1920, 1080, 75, FALSE), Mode(1920, 1200, 60, FALSE),
    Mode(640, 480, 30, FALSE),   Mode(4095, 4095, 30, FALSE),
    Mode(4096, 2160, 60, FALSE), Mode(5120, 2800, 60, TRUE),
    Mode(3840, 2160, 120, TRUE), Mode(1366, 768, 1000, FALSE) }
=============================================================================
