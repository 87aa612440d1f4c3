------------------------------ MODULE MCListing ------------------------------
(* Values for the constants of Listing. *)
EXTENDS Listing

MCStart == <<1, 2, 3, 4, 5>>

\* Entries 2 and 3 have one stamp.  7 comes late, with the stamp of 4, and 8 comes as the latest.
MCStamp == <<4, 3, 3, 2, 1, 0, 2, 5>>
=============================================================================
