-------------------------- MODULE SitlExchangeDocs --------------------------
(***************************************************************************)
(* What a comment says of the data the threads pass to each other, and the *)
(* code does not do.                                                       *)
(***************************************************************************)
EXTENDS SitlExchange

\* datavis_mutex is there "to ensure atomicity of DataVis and ACS variable access"
\* (datavis.c:17): a packet that has been sent is the packet of one control cycle.
\* acs_thread fills g_datavis_st without the mutex, and may do so during a slow send.
PacketOfOneCycle ==
    vis # "send" => \A p, q \in 1 .. PacketPieces : transmitted[p] = transmitted[q]
=============================================================================
