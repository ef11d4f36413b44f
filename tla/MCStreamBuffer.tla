--------------------------- MODULE MCStreamBuffer ----------------------------
(***************************************************************************)
(* Streams for StreamBuffer: each policy with parameters small enough that *)
(* a stream has several chunks and a remainder.                            *)
(***************************************************************************)
EXTENDS StreamBuffer

Plain == [lead |-> 0, continues |-> {}, walk |-> "prefill"]
Fixed(n) == [kind |-> "fixed", chunk |-> n] @@ Plain
Sliding == [kind |-> "sliding", window |-> 3, stride |-> 1] @@ Plain
LeftContext == [kind |-> "left", chunk |-> 2, context |-> 1] @@ Plain
Ramped == [kind |-> "ramp", first |-> 1, chunk |-> 1, growth |-> 2, max |-> 3] @@ Plain
Scheduled(n) == [kind |-> "scheduled", schedule |-> <<1>>, chunk |-> 2, context |-> 1, lead |-> n] @@ Plain
Talker(w) == [kind |-> "fixed", chunk |-> 1, continues |-> {"decode"}, walk |-> w] @@ Plain

Ones(n) == [i \in 1..n |-> 1]
Of(policy, pieces, loop) == [policy |-> policy, pieces |-> pieces, walks |-> <<>>, loop |-> loop]
Walked(policy, walks, loop) == [policy |-> policy, pieces |-> Ones(Len(walks)), walks |-> walks, loop |-> loop]

MCStreams ==
    {Of(Fixed(2), Ones(n), l) : n \in {0, 4, 5}, l \in BOOLEAN}
    \cup {Of(Fixed(1), <<2, 1, 1>>, TRUE)}
    \cup {Of(p, Ones(n), FALSE) : p \in {Sliding, LeftContext}, n \in {2, 5}}
    \cup {Of(LeftContext, Ones(5), TRUE), Of(Ramped, Ones(6), FALSE)}
    \cup {Of(Scheduled(n), Ones(n + m), FALSE) : n \in {0, 2}, m \in {0, 4}}
    \cup {Walked(p, w, FALSE) : p \in {Talker("prefill"), Fixed(2)},
             w \in {<<"prefill", "decode">>, <<"prefill", "prefill", "prefill", "decode", "decode">>}}
    \cup {Walked(Talker("decode"), <<"decode", "decode", "decode">>, TRUE)}

=============================================================================
