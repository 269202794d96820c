-------------------------------- MODULE MCBzRead --------------------------------
(***************************************************************************)
(* BzRead on files that hold one or two streams, sound, cut short or       *)
(* damaged, or something else behind them.                                 *)
(***************************************************************************)
EXTENDS BzRead, MCDecompressStream

Singles == {Whole(<<>>, "data"), Whole(<< <<1>> >>, "data"),
            Whole(<< <<0, 0, 0, 0, 1>> >>, "data"),
            Whole(<< <<0, 0>>, <<0, 1>> >>, "data")}

Seconds == Singles \cup {<< <<"BZh", <<>> >> >>, << <<"bad", <<>> >> >>}

Truncated == UNION {{SubSeq(s, 1, n) : n \in 0..(Len(s) - 1)} : s \in Singles}

SmallFiles == Singles \cup Truncated \cup {s \o t : s \in Singles, t \in Seconds}
                \cup {[Whole(<< <<1>> >>, "data") EXCEPT ![6] = t] : t \in WrongTokens}
==============================================================================
