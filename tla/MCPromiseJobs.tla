--------------------------- MODULE MCPromiseJobs ---------------------------
(* Model-checking instance of PromiseJobs.  With four promises one that is
   pending may have two reactions before it settles, or one before and one
   after: a settled promise, a reaction on it whose promise is pending
   meanwhile, and two reactions on that one.  They also allow a chain with an
   adoption and a bystander. *)
EXTENDS PromiseJobs
=============================================================================
