---------------------------- MODULE MCVmxStart ----------------------------
EXTENDS VmxStart

\* One processor, two with the boot processor listed first or last, three, and
\* a MADT that lists the boot processor, or every processor, as x2APIC entries.
MCListings ==
    {<<>>, <<FALSE>>, <<TRUE>>, <<TRUE, FALSE>>, <<FALSE, TRUE>>, <<TRUE, FALSE, FALSE>>}
=============================================================================
