----------------------------- MODULE MCRelease -----------------------------
EXTENDS Release

MCBuildSteps == <<"build", "strip">>
MCPackages == <<"client", "core">>
MCMembers == <<"kernel.apk", "libc.apk", "install.sh">>

=============================================================================
