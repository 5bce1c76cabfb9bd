# Verification of k2-unleashed

TLA+ modules for the parts of k2-unleashed (a Klipper fork for the Creality K2)
where several threads, processors and unreliable lines meet, with the TLC
configurations that check them on small instances and TLAPS proofs of what
matters most. Paths below are relative to the repository.

## The system

The *host* (`klippy/`, Python, with a C library `klippy/chelper/`) plans and
controls a print. It talks to several *micro-controllers* (`src/`, C) over serial
lines. The host queues timed commands (steps, pin changes, heater values); a
micro-controller runs them from timer interrupts and answers from its task loop.

| Component | Source | Module | Status |
|---|---|---|---|
| Transport: sequence numbers, window, retransmission, notification | `klippy/chelper/serialqueue.c`, `src/command.c`, `src/generic/serial_irq.c` | `SerialLink`, `CommandStream` | modelled, proved |
| Homing over several mcus: trigger, timeout, completion | `src/trsync.c`, `src/endstop.c`, `klippy/chelper/trdispatch.c`, `klippy/mcu.py` | `Homing` | modelled |

## Modules

to be completed
