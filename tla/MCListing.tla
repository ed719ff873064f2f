----------------------------- MODULE MCListing ------------------------------
(***************************************************************************)
(* Values for the constants of Listing.                                    *)
(***************************************************************************)
EXTENDS Listing

\* Windows that begin and end on a whole second and on a fraction.
MCWindows == {<<0, 2>>, <<2, 4>>, <<3, 9>>}
=============================================================================
