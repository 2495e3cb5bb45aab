----------------------------- MODULE MCUpdater -----------------------------
(* Two threads, so that a second worker could come to be; two numbers of which the greater *)
(* one has the smaller last part, at each of them every stage, and a tag that is no version. *)
EXTENDS UpdateReleases

CONSTANTS t1, t2

MCNumbers == {<<0, 1, 1>>, <<0, 2, 0>>}
MCBuilds == [number : MCNumbers, dev : {FALSE}, beta : BOOLEAN] \cup [number : {<<0, 2, 0>>}, dev : {TRUE}, beta : {FALSE}]
MCReleases ==
  {[number |-> n, dev |-> d, prerelease |-> p, cia |-> c] :
     n \in MCNumbers, d \in {FALSE}, p \in BOOLEAN, c \in {TRUE}}
  \cup {[number |-> <<0, 2, 0>>, dev |-> TRUE, prerelease |-> TRUE, cia |-> TRUE],
        [number |-> Garbage, dev |-> FALSE, prerelease |-> FALSE, cia |-> TRUE],
        [number |-> <<0, 2, 0>>, dev |-> FALSE, prerelease |-> FALSE, cia |-> FALSE]}
MCLists == {<<>>} \cup {<<a>> : a \in MCReleases} \cup {<<a, b>> : a, b \in MCReleases}
=============================================================================
