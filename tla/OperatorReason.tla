---------------------------- MODULE OperatorReason ----------------------------
(***************************************************************************)
(* POST /v1/operator/reason (operator/services/reasoning.py with the       *)
(* contracts of operator/schemas.py): a packet of evidence is shown to the *)
(* model under short labels, credentials are struck out of it, and what    *)
(* the model returns is mapped back and must stay within what was offered. *)
(*                                                                         *)
(* The LLM call is LlmRequest's, uncached and without a validation of its  *)
(* own.  A text is only whether it is there, a fact or a recommendation    *)
(* the evidence it cites, and credentials where they stand in a string.    *)
(***************************************************************************)
EXTENDS Integers, Sequences, SequencesExt

CONSTANTS
  Evidence,     \* evidence ids
  MaxEvidence,  \* bound on the packet
  Offers,       \* recommendations and actions with a target
  NoOffer

ASSUME PacketAssumption == MaxEvidence \in Nat /\ NoOffer \notin Offers

VARIABLES
  packet,     \* the ids of packet.evidence; an id may stand there twice
  fact,       \* the evidence one of its facts cites
  secret,     \* a credential in it: "none", "within" a string, "ending" one
  offered,    \* the advertised recommendations and actions
  reasoning,  \* how far the request is
  cited,      \* the label the fact has in the prompt
  blocks,     \* the blocks of the answer, with canonical evidence
  chosen      \* the recommendation or action of the answer

ovars == <<packet, fact, secret, offered, reasoning, cited, blocks, chosen>>
request == <<packet, fact, secret, offered>>

Labels == 1 .. MaxEvidence + 1

\* What a model returns: blocks that need evidence, or do not, and an offer.
Blocks == [needs : BOOLEAN, labels : SUBSET Labels]

OperatorTypeOK ==
  /\ packet \in Seq(Evidence) /\ offered \subseteq Offers
  /\ secret \in {"none", "within", "ending"}
  /\ reasoning \in {"received", "asking", "answered", "invalid", "failed",
                    "broken"}
  /\ cited \in Labels \cup {0}
  /\ blocks \in Seq([needs : BOOLEAN, ids : SUBSET Evidence])
  /\ chosen \in Offers \cup {NoOffer}

\* validate_packet_references: a fact cites evidence of its packet.
OperatorInit ==
  /\ \E n \in 1 .. MaxEvidence : packet \in [1 .. n -> Evidence]
  /\ fact \in ToSet(packet)
  /\ secret \in {"none", "within", "ending"}
  /\ offered \in SUBSET Offers
  /\ reasoning = "received" /\ cited = 0 /\ blocks = <<>> /\ chosen = NoOffer

\* label_by_id: the last label of an id that stands there twice.
LabelOf(id) == SelectLastInSeq(packet, LAMBDA e : e = id)

\* Mutant of IdOf: labels are counted from the other end.
IdOfReversed(label) == packet[Len(packet) + 1 - label]

\* evidence_labels.
IdOf(label) == packet[label]

\* The packet is redacted as JSON text.  An assignment of a credential at the
\* end of a string takes the closing quote with it, and the text is no JSON any
\* more, which nothing catches.
Ask ==
  /\ reasoning = "received"
  /\ reasoning' = IF secret = "ending" THEN "broken" ELSE "asking"
  /\ cited' = LabelOf(fact)
  /\ UNCHANGED <<request, blocks, chosen>>

LlmFails ==
  /\ reasoning = "asking"
  /\ reasoning' = "failed"
  /\ UNCHANGED <<request, cited, blocks, chosen>>

\* Only labels of this request; every block that needs evidence has some; and
\* only what was advertised (validate_against_request).
Grounded(answer, offer) ==
  /\ \A i \in DOMAIN answer :
       /\ answer[i].labels \subseteq DOMAIN packet
       /\ answer[i].needs => answer[i].labels # {}
  /\ offer = NoOffer \/ offer \in offered

Returned(answer, offer) ==
  /\ reasoning = "asking"
  /\ IF Grounded(answer, offer)
     THEN /\ reasoning' = "answered"
          /\ blocks' = [i \in DOMAIN answer |->
               [needs |-> answer[i].needs,
                ids |-> {IdOf(l) : l \in answer[i].labels}]]
          /\ chosen' = offer
     ELSE /\ reasoning' = "invalid"
          /\ UNCHANGED <<blocks, chosen>>
  /\ UNCHANGED <<request, cited>>

\* Not JSON, or JSON that breaks the contract.
Malformed ==
  /\ reasoning = "asking"
  /\ reasoning' = "invalid"
  /\ UNCHANGED <<request, cited, blocks, chosen>>

OperatorNext ==
  \/ Ask
  \/ LlmFails
  \/ \E n \in 1 .. 2 :
       \E answer \in [1 .. n -> Blocks], offer \in Offers \cup {NoOffer} :
         Returned(answer, offer)
  \/ Malformed

OperatorSpec == OperatorInit /\ [][OperatorNext]_ovars

\* The labels only rename: a fact is shown under a label of the evidence it
\* cites, also when the packet lists it twice, so that a model that copies the
\* citation of a fact is answered with the evidence of that fact; and an answer
\* never claims without evidence, nor offers what was not offered.
AnswersGrounded ==
  /\ cited # 0 => IdOf(cited) = fact
  /\ reasoning = "answered" =>
       /\ \A b \in ToSet(blocks) : /\ b.ids \subseteq ToSet(packet)
                                   /\ b.needs => b.ids # {}
       /\ chosen # NoOffer => chosen \in offered

=============================================================================
