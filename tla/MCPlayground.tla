---------------------------- MODULE MCPlayground ----------------------------
(* A small instance of Playground for TLC. *)
EXTENDS Playground

MCLetters == {"a", "b"}

\* The second word is another one, repeats the first, or starts with it.
MCAnswers ==
    [g \in 1 .. 3 |->
        CASE g = 1 -> {<<<<"a">>, <<"b">>>>}
          [] g = 2 -> {<<<<"a">>, <<"a">>>>}
          [] g = 3 -> {<<<<"a">>, <<"a", "b">>>>}]
=============================================================================
