-------------------------- MODULE MCDocAssistant ---------------------------
(***************************************************************************)
(* Instances of DocAssistant for TLC: plans that a model may reply with,   *)
(* and what its searches find.                                             *)
(***************************************************************************)
EXTENDS DocAssistant

CONSTANTS linkA, linkB, unsafe, none, unfit

Read(id, deps) == Task(id, "data_agent", "read", deps)
Search(id, deps, k) ==
  [Task(id, "web_agent", "web.search", deps) EXCEPT !.top_k = k]
Write(id, deps) == Task(id, "doc_assistant", "feishu.doc.write", deps)

\* Two searches in one layer and a later one, a task that waits for the first,
\* ids with a gap and one without a number.
MCBroad ==
  << Search(TId(1), {}, 2), Search(TId(5), {}, 1), Read(<<"x", 2>>, {TId(1)}),
     Search(TId(3), {TId(1), TId(5)}, 1),
     Write(TId(4), {TId(1), TId(5), <<"x", 2>>, TId(3)}) >>

\* The document is in the middle and others depend on it.
MCDocumentFirst ==
  << Write(TId(1), {}), Search(TId(2), {TId(1)}, 1), Write(TId(3), {TId(2)}),
     Read(TId(4), {TId(3)}), Read(TId(6), {TId(2)}) >>

\* No document, with and without a free id for it.
MCNoDocument == << Search(TId(1), {}, 0), Read(TId(2), {TId(1)}) >>
MCNoDocumentTaken == << Read(TId(1), {}), Read(TId(3), {}) >>

\* A dependency that comes later, an unknown action, an unfit resource, a
\* fetch_top_k that is no number.
MCForward == << Read(TId(1), {TId(2)}), Read(TId(2), {}) >>
MCUnknown == << Task(TId(1), "data_agent", "unknown", {}) >>
MCUnfit == << [Read(TId(1), {}) EXCEPT !.resource = unfit] >>
MCIllTyped == << Search(TId(1), {}, IllTyped), Write(TId(2), {TId(1)}) >>

\* A search that depends on itself, which the check lets through.
MCSelf == << Read(TId(1), {}), Search(TId(2), {TId(1), TId(2)}, 1), Write(TId(3), {TId(2)}) >>

MCProposals ==
  {MCBroad, MCDocumentFirst, MCNoDocument, MCNoDocumentTaken, MCForward,
   MCUnknown, MCUnfit, MCIllTyped, MCSelf}

MCHitLists == {<<>>, <<linkA, unsafe, linkA, linkB>>, <<linkB>>}
=============================================================================
