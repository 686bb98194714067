---- MODULE MCRegistry ----
(* Instances of Registry for TLC. *)
EXTENDS Registry

\* Texts that grep tells apart, such as 10.0.0.5/24 and 10.0.0.6/24.
Distinct == {<<a, a>> : a \in Ip}

\* The line of one address contains the texts of all the others, as that of
\* 10.0.0.10/24 contains 10.0.0.1.
Overlapping ==
    LET long == CHOOSE a \in Ip : TRUE IN Distinct \cup {<<long, b>> : b \in Ip}
====
