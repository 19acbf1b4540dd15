---------------------------- MODULE MCFFDecoder -----------------------------
EXTENDS FFDecoder

\* Movies: constant frame rate, one key-frame in three; a millisecond time
\* base; bi-directional frames behind an open group of pictures; the same in
\* the second stream; a lost frame; reading that may fail.
Plain ==
  [name |-> "plain", rates |-> <<24, 0, 0>>, hz |-> 24, nb |-> 6, ticks |-> 0,
   packets |-> <<0, 1, 2, 3, 4, 5>>, keys |-> {0, 3}, delay |-> 0,
   first |-> TRUE, cut |-> FALSE, flaky |-> FALSE]
Millis == [Plain EXCEPT !.name = "millis", !.hz = 1000, !.nb = 0, !.ticks = 250,
                        !.rates = <<90000, 24, 1000>>]
OpenGop == [Plain EXCEPT !.name = "opengop", !.rates = <<0, 0, 24>>, !.nb = 7,
                         !.packets = <<0, 2, 1, 5, 3, 4, 6>>, !.keys = {0, 5},
                         !.delay = 1]
Second == [OpenGop EXCEPT !.name = "second", !.first = FALSE,
             !.packets = <<OtherStream, 0, 2, 1, 5, 3, 4, OtherStream, 6>>]
Gap == [Plain EXCEPT !.name = "gap", !.nb = 7, !.packets = <<0, 1, 3, 4, 5>>]
Flaky == [Plain EXCEPT !.name = "flaky", !.flaky = TRUE]

\* The same with time-stamps in milliseconds, rounded or truncated: a frame
\* takes 41 or 42 of them, and tpf is 42.
Late == [OpenGop EXCEPT !.name = "late", !.hz = 1000]
Lost == [Gap EXCEPT !.name = "lost", !.hz = 1000, !.packets = <<0, 1, 2, 3, 5>>]
Cut == [Millis EXCEPT !.name = "cut", !.cut = TRUE, !.ticks = 210,
                      !.packets = <<0, 1, 2, 3, 4>>]
CutGop == [Late EXCEPT !.name = "cutgop", !.cut = TRUE]

MCMovies == {Plain, Millis, OpenGop, Second, Gap, Flaky, Late, Lost, Cut, CutGop}
LateMovies == {Late}
=============================================================================
