------------------------------ MODULE MCConnections ------------------------------
(***************************************************************************)
(* Connections on four scenarios: one client whose bytes TCP may cut       *)
(* anywhere, three clients of two loops, one client with the top keys, and *)
(* two clients whose loops both want to put a key into the queue.          *)
(***************************************************************************)
EXTENDS Connections

CONSTANTS c1, c2, c3

Get == <<"G">>   \* a command with a key
Ping == <<"P">>  \* one without
Refused == <<"F">>
Blocking == <<"B">>
Unknown == <<"U">>
A == <<"a">>
B == <<"b">>
C == <<"c">>
D == <<"d">>
Empty == <<>>

MCCommands == (Get :> "replies") @@ (Ping :> "replies") @@ (Refused :> "refuses") @@ (Blocking :> "blocks")
MCAddressOf == (c1 :> "here") @@ (c2 :> "here") @@ (c3 :> "there")

Alone(script) == [c \in Clients |-> IF c = c1 THEN script ELSE <<>>]

Everywhere(script) == 1..Len(Stream(script))
Between(script)    == {Len(Stream(SubSeq(script, 1, i))) : i \in DOMAIN script}

Cut(scripts, how(_)) == [c \in Clients |-> how(scripts[c])]

Broken    == Alone(<<<<Get, Empty>>, <<Unknown>>, <<Get, A>>>>)
Loops2(x) == (c1 :> <<<<Get, A>>, <<x>>>>) @@ (c2 :> <<<<Get, B>>>>) @@ (c3 :> <<<<Ping>>>>)
Counted   == Alone(<<<<Get, A>>, <<Get, A>>, <<Get, B>>, <<Get, C>>, <<Ping>>>>)

Shared    == (c1 :> <<<<Get, A>>>>) @@ (c2 :> <<<<Get, B>>>>) @@ (c3 :> <<>>)

MCTopNames == {A, B, C, D}

MCScenarios ==
  {[script |-> Broken, cuts |-> Cut(Broken, Everywhere), topKey |-> FALSE],
   [script |-> Counted, cuts |-> Cut(Counted, Between), topKey |-> TRUE],
   [script |-> Shared, cuts |-> Cut(Shared, Between), topKey |-> TRUE]}
  \cup {[script |-> Loops2(x), cuts |-> Cut(Loops2(x), Between), topKey |-> FALSE] : x \in {Blocking, Refused}}
=============================================================================
