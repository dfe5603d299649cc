------------------------------ MODULE MCPublication ------------------------------
(* A small instance of Publication: two artifacts a job. *)
EXTENDS Publication

MCBlobs == [j \in Jobs |-> IF j = "ingest" THEN <<"vocal", "f0">>
                           ELSE <<"transport", "user_features">>]
==================================================================================
