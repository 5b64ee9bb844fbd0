---------------------------- MODULE RegisterMap ----------------------------
(***************************************************************************)
(* The fields of the AJA card's registers that the driver writes while     *)
(* others may write the same register (src/include/aja_registers.h).  A    *)
(* field is a register, its lowest and its highest bit; registers are      *)
(* numbered, the byte address is four times the number.                    *)
(***************************************************************************)
EXTENDS Integers

Bit(reg, bit) == <<reg, bit, bit>>
Whole(reg)    == <<reg, 0, 31>>

Reg(field)  == field[1]
Bits(field) == field[2] .. field[3]

\* go and busy are one bit, written by the one name and read by the other.
Dma == [e \in 1 .. 4 |->
          [go        |-> Bit(48, e - 1),
           busy      |-> Bit(48, e - 1),
           irq       |-> Bit(48, 26 + e),
           irqenable |-> Bit(49, e - 1),
           irqclear  |-> Bit(49, 26 + e)]]

\* The list registers of an engine; dma1cadd is two bits short.
ListRegs == [e \in 1 .. 3 |->
              [hadd  |-> Whole(28 + 4 * e),
               cadd  |-> IF e = 1 THEN <<33, 0, 29>> ELSE Whole(29 + 4 * e),
               count |-> Whole(30 + 4 * e),
               next  |-> Whole(31 + 4 * e),
               hadd_high |-> Whole(98 + 2 * e),
               next_high |-> Whole(99 + 2 * e)]]

BusError  == [irq |-> Bit(48, 31), irqenable |-> Bit(49, 4), irqclear |-> Bit(49, 31)]
Output    == [irq |-> Bit(21, 31), irqenable |-> Bit(20, 0), irqclear |-> Bit(20, 31)]
Input1    == [irq |-> Bit(21, 30), irqenable |-> Bit(20, 1), irqclear |-> Bit(20, 30)]
Input2    == [irq |-> Bit(21, 29), irqenable |-> Bit(20, 2), irqclear |-> Bit(20, 29)]
AplayWrap == [irq |-> Bit(21, 27), irqenable |-> Bit(20, 4), irqclear |-> Bit(20, 27)]
AcapWrap  == [irq |-> Bit(21, 26), irqenable |-> Bit(20, 5), irqclear |-> Bit(20, 26)]
AudioWrap == [irq |-> Bit(21, 25), irqenable |-> Bit(20, 6), irqclear |-> Bit(20, 25)]
Audio     == [irq |-> Bit(21, 28), irqenable |-> Bit(20, 3), irqclear |-> Bit(20, 28)]
UartTx    == [irq |-> Bit(21, 24), irqenable |-> Bit(20, 7), irqclear |-> Bit(20, 24)]
UartRx    == [irq |-> Bit(21, 15), irqenable |-> Bit(20, 8), irqclear |-> Bit(20, 15)]
====
