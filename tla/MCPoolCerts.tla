---------------------------- MODULE MCPoolCerts -----------------------------
(* One pool's certificates with a small budget of faults; an hour is two     *)
(* status intervals, a certificate lives seven and is renewed after four.    *)
EXTENDS PoolCerts
=============================================================================
