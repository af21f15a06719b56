---------------------------- MODULE ReviewPackage ----------------------------
(***************************************************************************)
(* What a Review Package promises its readers, whatever files it is made   *)
(* of: a build installs one body, and with it at most one CRE shadow       *)
(* report, whose file it may have lost; a report that is attached later    *)
(* belongs to the body that is installed, and its file is listed.          *)
(* PackageFinalizer implements it with one file per artifact and a         *)
(* manifest.                                                               *)
(***************************************************************************)
CONSTANTS Stamps,    \* one stamp per build that may ever complete
          Reports,   \* CRE shadow reports that may be attached
          None       \* nothing installed, or no report attached

VARIABLES installed, \* stamp of the build the package shows, or None
          attached,  \* report the package names, or None
          listed     \* the package lists the file of that report

absVars == <<installed, attached, listed>>

Nothing == installed = None /\ attached = None /\ listed = FALSE

AbsInit == Nothing

\* A build takes the place of whatever was there.  It carries no report, or
\* the one it was given, with the file or without.
Install(s) ==
    /\ installed' = s
    /\ \/ attached' = None /\ listed' = FALSE
       \/ attached' \in Reports /\ listed' \in BOOLEAN

\* A build that has begun to rewrite the manifest leaves no package to show.
Withdraw == Nothing'

\* A report is attached to the installed build, which stays installed.
Attach(r) ==
    /\ installed # None
    /\ attached' = r
    /\ listed' = TRUE
    /\ UNCHANGED installed

AbsNext ==
    \/ \E s \in Stamps : Install(s)
    \/ \E r \in Reports : Attach(r)
    \/ Withdraw

AbsSpec == AbsInit /\ [][AbsNext]_absVars
=============================================================================
