--------------------------- MODULE CicloCotizacion ---------------------------
(***************************************************************************)
(* What the life cycle of a quotation promises, with every change of state *)
(* a single step: the customer decides once and only a quotation in force, *)
(* expiry takes only a quotation in force whose date has passed, and any   *)
(* other change is the explicit act of a user.                             *)
(***************************************************************************)
EXTENDS Integers

CONSTANTS Cotizaciones, Nulo

VARIABLES
    ahora,      \* the clock
    estado,     \* state of each quotation
    origen,     \* who caused the last change
    vence,      \* expiry date, Nulo for a quotation that never expires
    decidida    \* date of the decision in force, or Nulo

vars == <<ahora, estado, origen, vence, decidida>>

Decisiones == {"aceptada", "rechazada"}

Init ==
    /\ ahora = 0
    /\ estado = [q \in Cotizaciones |-> "vigente"]
    /\ origen = [q \in Cotizaciones |-> Nulo]
    /\ vence \in [Cotizaciones -> Nat \cup {Nulo}]
    /\ decidida = [q \in Cotizaciones |-> Nulo]

Pasa ==
    /\ ahora' = ahora + 1
    /\ UNCHANGED <<estado, origen, vence, decidida>>

\* The decision is dated within the validity of the quotation.
RespondeCliente(q) ==
    /\ estado[q] = "vigente"
    /\ \E d \in Decisiones, t \in 0..ahora :
         /\ vence[q] = Nulo \/ t <= vence[q]
         /\ estado' = [estado EXCEPT ![q] = d]
         /\ decidida' = [decidida EXCEPT ![q] = t]
    /\ origen' = [origen EXCEPT ![q] = "magic_link"]
    /\ UNCHANGED <<ahora, vence>>

Vence(q) ==
    /\ estado[q] = "vigente"
    /\ vence[q] # Nulo /\ vence[q] < ahora
    /\ estado' = [estado EXCEPT ![q] = "vencida"]
    /\ origen' = [origen EXCEPT ![q] = "cron"]
    /\ UNCHANGED <<ahora, vence, decidida>>

\* A user moves a quotation to any other state; only reopening moves its date.
CambiaUsuario(q) ==
    /\ \E e \in {"vigente", "vencida", "cancelada"} \cup Decisiones :
         /\ e # estado[q]
         /\ estado' = [estado EXCEPT ![q] = e]
         /\ \/ e \in Decisiones /\ \E t \in 0..ahora :
                 decidida' = [decidida EXCEPT ![q] = t]
            \/ e \notin Decisiones /\ decidida' = [decidida EXCEPT ![q] = Nulo]
         /\ \/ UNCHANGED vence
            \/ /\ e = "vigente" /\ vence[q] # Nulo
               /\ vence'[q] \in Nat
               /\ vence' = [vence EXCEPT ![q] = vence'[q]]
    /\ origen' = [origen EXCEPT ![q] = "usuario"]
    /\ UNCHANGED ahora

\* A user edits the date and nothing else; "never expires" cannot be edited away.
CorrigeFecha(q) ==
    /\ vence[q] # Nulo
    /\ vence'[q] \in Nat
    /\ vence' = [vence EXCEPT ![q] = vence'[q]]
    /\ UNCHANGED <<ahora, estado, origen, decidida>>

Next ==
    \/ Pasa
    \/ \E q \in Cotizaciones :
         RespondeCliente(q) \/ Vence(q) \/ CambiaUsuario(q) \/ CorrigeFecha(q)

Spec == Init /\ [][Next]_vars
=============================================================================
