----------------------------- MODULE MC_Transport -----------------------------
(* Model-checking instance of Transport. *)
EXTENDS Transport

\* Both transport classes in one run: the backend is chosen in Init.
MCBackends == {"docker", "k8s"}
====
